------------------------------- MODULE Device -------------------------------
(***************************************************************************)
(* The virtual device modbusmq_server (programs/modbusmq_server.c) and the *)
(* clients that ask it.  One thread serves all connections from a select() *)
(* loop; when every slot is taken, a newcomer takes the slot of the client *)
(* that was silent longest.  Live values come from an MQTT broker whose    *)
(* socket is in the same select() sets.  The sets go by descriptor number: *)
(* a newcomer that gets the number of the broker's socket, closed in the   *)
(* same turn, is taken to be as readable and writable as that one was.     *)
(* What an answer says is in Readings.                                     *)
(*                                                                         *)
(* A request travels in two pieces: the part of the header that declares   *)
(* its length, and the rest.  A runt is a header that declares a length    *)
(* no request has.  Replies are small and go out whole.                    *)
(***************************************************************************)
EXTENDS Integers, SequencesExt

CONSTANTS
  Clients,
  MaxAsks,  \* bound: requests of each client, runts included
  Garblers, \* bound: the clients that may send a runt
  Leavers,  \* bound: the clients that may hang up
  Slots,    \* connection_max
  MaxTime   \* bound: time stands still from here on

\* Who else a descriptor may belong to.
Nobody == "nobody"
Broker == "broker"

ASSUME DeviceAssumption ==
  /\ {Nobody, Broker} \cap Clients = {}
  /\ MaxAsks \in [Clients -> Nat]
  /\ Garblers \subseteq Clients
  /\ Leavers \subseteq Clients
  /\ Slots \in Nat \ {0}
  /\ MaxTime \in Nat

VARIABLES
  slot,    \* modbusmq_connections: fd (0 is a free slot), last_rx_ms, the
           \* pieces of the request read so far, the reply not written yet
  owner,   \* kernel: whose socket a descriptor is
  backlog, \* kernel: connections to accept
  client,  \* per client: where it stands, its pieces on their way to the
           \* server, whether the server lost its place in them, what it asked
           \* and what it got; heir: accepted with bytes under way, under a
           \* descriptor that was in the write set
  broker,  \* emu_mosq: its descriptor (0: emu_connected is 0), and whether the
           \* broker has closed the connection
  now

vars == <<slot, owner, backlog, client, broker, now>>

Fds == 1..Slots + 2

Request(c, n) == [by |-> c, no |-> n, runt |-> FALSE]
Runt(c, n) == [by |-> c, no |-> n, runt |-> TRUE]

Free == [fd |-> 0, rx |-> 0, got |-> <<>>, reply |-> <<>>]
Away == [at |-> "away", out |-> <<>>, half |-> FALSE, sent |-> 0,
         asked |-> <<>>, back |-> <<>>, heard |-> 0, astray |-> FALSE, heir |-> FALSE]
Open(i) == slot[i].fd # 0
ClientAt(fd) == owner[fd] \in Clients

-----------------------------------------------------------------------------
\* One turn of the select loop, piece by piece.  Each piece takes the state the
\* piece before it left, or gives the states it may leave.

State == [slot |-> slot, owner |-> owner, client |-> client, backlog |-> backlog,
          broker |-> broker]

\* select(): descriptors with something to read, or the end of their stream.
Readable == {fd \in Fds : \/ owner[fd] = Broker /\ broker.lost
                          \/ ClientAt(fd) /\ \/ client[owner[fd]].out # <<>>
                                             \/ client[owner[fd]].at = "left"}

\* A whole frame read: a runt is whole as soon as its header is.
Whole(got) == got # <<>> /\ (got[1].runt \/ Len(got) = 2)

\* Descriptors to write to: with a request read, and the broker's if the MQTT
\* library wants to write.
SlotsWritable == {slot[i].fd : i \in {j \in 1..Slots : Open(j) /\ Whole(slot[j].got)}}
Writable == {SlotsWritable, SlotsWritable \cup ({broker.fd} \ {0})}

\* The kernel gives the lowest number that is free.
LowestFree(s) == Min({fd \in Fds : s.owner[fd] = Nobody})

\* emu_service: a lost connection is closed, one that has not been heard for too
\* long too; a missing one is tried again when its time has come.
EmuServiced(s) ==
  IF s.broker.fd # 0
  THEN {[s EXCEPT !.owner[s.broker.fd] = Nobody, !.broker = [fd |-> 0, lost |-> FALSE]]}
       \cup (IF s.broker.lost THEN {} ELSE {s})
  ELSE {s, [s EXCEPT !.owner[LowestFree(s)] = Broker,
                     !.broker = [fd |-> LowestFree(s), lost |-> FALSE]]}

\* Mutant of Victim: the comparison the other way round.
VictimLatest(s) ==
  LET free == {i \in 1..Slots : s.slot[i].fd = 0}
      latest == {i \in 1..Slots : \A j \in 1..Slots : s.slot[i].rx >= s.slot[j].rx}
  IN  Min(IF free # {} THEN free ELSE latest)

\* The slot a newcomer gets: the first free one, or the longest silent.
Victim(s) ==
  LET free == {i \in 1..Slots : s.slot[i].fd = 0}
      oldest == {i \in 1..Slots : \A j \in 1..Slots : s.slot[i].rx <= s.slot[j].rx}
  IN  Min(IF free # {} THEN free ELSE oldest)

\* The server closes descriptor fd of a client, which may have left by then; what
\* was not read of it is lost, and what it asked and got is forgotten.
Closed(s, fd) ==
  [s EXCEPT !.owner[fd] = Nobody,
            !.client[s.owner[fd]] = [Away EXCEPT !.at =
                 IF s.client[s.owner[fd]].at = "in" THEN "dropped" ELSE "left"]]

\* The newcomer as it is once accepted: it may have left again while it waited.
Seated(peer, heir) == [peer EXCEPT !.at = IF @ = "waiting" THEN "in" ELSE @, !.heir = heir]

\* Slot i goes to the client first in the backlog.
Taken(s, i, fd, message, writes) ==
  LET c == Head(s.backlog)
  IN  [s EXCEPT !.backlog = Tail(@), !.owner[fd] = c,
                !.slot[i] = [message EXCEPT !.fd = fd, !.rx = now],
                !.client[c] = Seated(s.client[c], fd \in writes /\ s.client[c].out # <<>>)]

\* Mutant of Accepted: the message in the slot is not cleared.
AcceptedDirty(s, writes) ==
  LET i == Victim(s)
      rest == IF s.slot[i].fd = 0 THEN s ELSE Closed(s, s.slot[i].fd)
  IN  IF s.backlog = <<>> THEN s ELSE Taken(rest, i, LowestFree(s), s.slot[i], writes)

\* Mutant of Accepted: the descriptor of the client put out is not closed.
AcceptedLeaky(s, writes) ==
  IF s.backlog = <<>> THEN s ELSE Taken(s, Victim(s), LowestFree(s), Free, writes)

\* accept(): the client put out is closed after the newcomer got its descriptor.
Accepted(s, writes) ==
  LET i == Victim(s)
      rest == IF s.slot[i].fd = 0 THEN s ELSE Closed(s, s.slot[i].fd)
  IN  IF s.backlog = <<>> THEN s ELSE Taken(rest, i, LowestFree(s), Free, writes)

\* The server closes slot i itself; the message stays until the slot is taken.
Hung(s, i) == [Closed(s, s.slot[i].fd) EXCEPT !.slot[i].fd = 0]

\* What the slot may hold once a piece of client c was read to got.  A stream in
\* which the server lost its place may look like anything.
Gained(c, got, piece) ==
  IF ~c.astray THEN {Append(got, piece)}
  ELSE IF got = <<>> THEN {<<Request(piece.by, 0)>>, <<Runt(piece.by, 0)>>}
  ELSE {got, Append(got, Request(piece.by, 0))}

\* The message once got was read.  A runt is an error to the read, which leaves
\* the time alone.
Filled(message, got) ==
  [message EXCEPT !.got = got, !.rx = IF got[1].runt THEN @ ELSE now,
                  !.reply = IF Len(got) = 2 THEN <<got[1]>> ELSE @]

\* Read what completes the piece under way.  Nothing to read looks like the end
\* of the stream.
ReadSlot(s, i) ==
  LET c == s.owner[s.slot[i].fd]
      out == s.client[c].out
  IN  CASE Whole(s.slot[i].got) -> {s}
        [] ~Whole(s.slot[i].got) /\ out = <<>> -> {Hung(s, i)}
        [] ~Whole(s.slot[i].got) /\ out # <<>> ->
             {[s EXCEPT !.client[c].out = Tail(out), !.slot[i] = Filled(s.slot[i], got)] :
                got \in Gained(s.client[c], s.slot[i].got, Head(out))}

\* Mutant of WriteSlot: the message is not cleared for the next request.
WriteSlotKept(s, i) ==
  {[s EXCEPT !.client[s.owner[s.slot[i].fd]].back = @ \o s.slot[i].reply]}

\* Write the reply, nothing if there is none, and clear the message, half read or
\* not.  The write may fail if the client has left.
WriteSlot(s, i) ==
  LET c == s.owner[s.slot[i].fd]
      got == s.slot[i].got
      written == [s EXCEPT !.client[c].back = @ \o s.slot[i].reply,
                           !.client[c].astray = @ \/ (got # <<>> /\ ~Whole(got)),
                           !.slot[i].got = <<>>, !.slot[i].reply = <<>>]
  IN  IF s.client[c].at = "left" THEN {written, Hung(s, i)} ELSE {written}

\* The read of slot i that led from s to r met a runt.
Failed(s, r, i) == r.slot[i].got # s.slot[i].got /\ r.slot[i].got[1].runt

\* Slot i in one turn: read, then write, for the descriptor it holds now.  A read
\* that fails ends the slot's turn.
Served(s, i, reads, writes) ==
  UNION {IF r.slot[i].fd \in writes /\ ~Failed(s, r, i) THEN WriteSlot(r, i) ELSE {r} :
           r \in IF s.slot[i].fd \in reads THEN ReadSlot(s, i) ELSE {s}}

\* The states a turn may leave, slot after slot.
TurnOf(s, reads, writes) ==
  LET after[i \in 0..Slots] ==
        IF i = 0 THEN {Accepted(r, writes) : r \in EmuServiced(s)}
        ELSE UNION {Served(r, i, reads, writes) : r \in after[i - 1]}
  IN  after[Slots]

-----------------------------------------------------------------------------
Init ==
  /\ slot = [i \in 1..Slots |-> Free]
  /\ owner = [fd \in Fds |-> IF fd = 1 THEN Broker ELSE Nobody]
  /\ backlog = <<>>
  /\ client = [c \in Clients |-> Away]
  /\ broker = [fd |-> 1, lost |-> FALSE]
  /\ now = 0

Connect(c) ==
  /\ client[c].at = "away"
  /\ client' = [client EXCEPT ![c].at = "waiting"]
  /\ backlog' = Append(backlog, c)
  /\ UNCHANGED <<slot, owner, broker, now>>

\* The header of a request, or all of a runt.
Send(c, ask) ==
  /\ client[c].at \in {"waiting", "in"}
  /\ ~client[c].half
  /\ client[c].sent < MaxAsks[c]
  /\ client' = [client EXCEPT ![c].out = Append(@, ask), ![c].sent = @ + 1,
                              ![c].asked = IF ask.runt THEN @ ELSE Append(@, ask),
                              ![c].half = ~ask.runt]
  /\ UNCHANGED <<slot, owner, backlog, broker, now>>

SendRest(c) ==
  /\ client[c].at \in {"waiting", "in"}
  /\ client[c].half
  /\ client' = [client EXCEPT ![c].out = Append(@, Last(client[c].asked)), ![c].half = FALSE]
  /\ UNCHANGED <<slot, owner, backlog, broker, now>>

Leave(c) ==
  /\ client[c].at \in {"waiting", "in"}
  /\ client' = [client EXCEPT ![c].at = "left"]
  /\ UNCHANGED <<slot, owner, backlog, broker, now>>

BrokerCloses ==
  /\ broker.fd # 0 /\ ~broker.lost
  /\ broker' = [broker EXCEPT !.lost = TRUE]
  /\ UNCHANGED <<slot, owner, backlog, client, now>>

Tick ==
  /\ now < MaxTime
  /\ now' = now + 1
  /\ UNCHANGED <<slot, owner, backlog, client, broker>>

\* The server heard client c in this turn: it was accepted, or bytes of it were
\* read.  A runt just read is still in the slot.
Heard(c, done) ==
  \/ done.backlog # backlog /\ Head(backlog) = c
  \/ /\ done.client[c].at = client[c].at
     /\ done.client[c].out # client[c].out
     /\ \A i \in 1..Slots : done.slot[i].fd # 0 /\ done.owner[done.slot[i].fd] = c =>
          done.slot[i].got = <<>> \/ ~done.slot[i].got[1].runt

\* One turn of the main loop.
ServerStep ==
  \E writes \in Writable : \E done \in TurnOf(State, Readable, writes) :
    /\ slot' = done.slot
    /\ owner' = done.owner
    /\ backlog' = done.backlog
    /\ broker' = done.broker
    /\ client' = [c \in Clients |->
                    [done.client[c] EXCEPT !.heard = IF Heard(c, done) THEN now ELSE @]]
    /\ UNCHANGED now

Next ==
  \/ ServerStep
  \/ \E c \in Clients : \/ Connect(c)
                        \/ Send(c, Request(c, client[c].sent + 1))
                        \/ c \in Garblers /\ Send(c, Runt(c, client[c].sent + 1))
                        \/ SendRest(c)
                        \/ c \in Leavers /\ Leave(c)
  \/ BrokerCloses
  \/ Tick

\* The main loop of the server turns for ever: select() has a time-out.
Spec == Init /\ [][Next]_vars /\ WF_vars(ServerStep)

-----------------------------------------------------------------------------
\* The slots

\* A client gets answers to its own requests, in the order it made them, never
\* what is left of the client that had its slot before, and a request that came
\* in pieces is answered once.  Not so a client that got the number of the
\* broker's socket while that number was in the write set: the half of a request
\* it has sent by then is erased.
AnswersInOrder ==
  \A c \in Clients :
    client[c].heir \/ IsPrefix(client[c].back, client[c].asked)

\* Every descriptor of a client is held by one slot and every slot's descriptor
\* is a client's, whatever was accepted, closed, put out or given the number of
\* a socket that was closed a moment ago: none leaks, none is served twice.
NoDescriptorLost ==
  /\ \A fd \in Fds : Cardinality({i \in 1..Slots : slot[i].fd = fd}) =
                       IF ClientAt(fd) THEN 1 ELSE 0
  /\ \A c \in Clients : client[c].at = "in" => \E fd \in Fds : owner[fd] = c
  /\ \A fd \in Fds : owner[fd] = Broker <=> broker.fd = fd

\* A client that was accepted is dropped only to make room, and only if none was
\* silent longer: its last bytes are no later than those of any other.
\* (A newcomer that gets the descriptor the broker's socket had when select()
\* returned is taken for gone in the turn that accepts it: see the README.)
PutOutIdlest ==
  [][\A c \in Clients :
       client[c].at = "in" /\ client'[c].at = "dropped" =>
         /\ backlog # <<>>
         /\ \A i \in 1..Slots : Open(i) /\ client[c].heard <= client[owner[slot[i].fd]].heard]_vars

\* A whole request is answered, also that of a client still waiting to be
\* accepted, unless the client leaves, is dropped or got a number that was in the
\* write set.
Answered ==
  \A c \in Clients : \A n \in 1..MaxAsks[c] :
    (Len(client[c].asked) >= n /\ ~client[c].half)
      ~> (Len(client[c].back) >= n \/ client[c].at \in {"left", "dropped"} \/ client[c].heir)
=============================================================================
