--------------------------- MODULE RequestService ---------------------------
(***************************************************************************)
(* What a context of libmodbusmq promises the application about the        *)
(* requests it hands over, whatever queue and event loop lie behind: a     *)
(* request goes from new to waiting to sent to done and never back, it is  *)
(* done once, and the bus carries one request at a time.                   *)
(***************************************************************************)
CONSTANT Ids
VARIABLE status

Is(s) == {i \in Ids : status[i] = s}

Init == status = [i \in Ids |-> "new"]

\* Requests in accepted are taken in and the application is told about those
\* in done.  A subscription may hand in several polls at once, a lost link
\* finishes everything that was waiting, and what a callback hands in while
\* the link is lost is finished in the same turn.
Turn(accepted, done) ==
  status' = [i \in Ids |-> IF i \in done THEN "done"
                           ELSE IF i \in accepted THEN "waiting"
                           ELSE status[i]]

\* The first byte of i goes out: the bus must be free.
Send(i) ==
  /\ status[i] = "waiting"
  /\ Is("sent") = {}
  /\ status' = [status EXCEPT ![i] = "sent"]

Next ==
  \/ \E accepted \in SUBSET Is("new") :
       \E done \in SUBSET (accepted \cup Is("waiting") \cup Is("sent")) :
         Turn(accepted, done)
  \/ \E i \in Ids : Send(i)

Spec == Init /\ [][Next]_status
=============================================================================
