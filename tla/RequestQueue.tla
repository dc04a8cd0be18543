---------------------------- MODULE RequestQueue ----------------------------
(***************************************************************************)
(* The request queue of libmodbusmq (lib/modbusmq.c) and the event loop    *)
(* that serves it.  A context keeps one list of accepted requests; only    *)
(* its head talks to the device.  A request enters as a write (POST), as a *)
(* raw request (a POST whose answer goes to the raw reply callback) or as  *)
(* a poll of a subscription timer (SUBSCRIBE), and leaves when the library *)
(* tells the application what became of it: message, subscription, raw     *)
(* reply or error callback.  That telling is one report, however many      *)
(* calls it takes: handle_msg() hands the response of a poll to            *)
(* subscribe_cb once for every configured input it answers, two if two     *)
(* inputs begin at one address, in one walk over the inputs before the     *)
(* request is unlinked.                                                    *)
(*                                                                         *)
(* Abstracted here: what the frames carry and how an answer is matched to  *)
(* its request (module Wire), when a timer is due and which slave is       *)
(* backed off (Timers, Rounds). Time is two facts the environment decides: *)
(* the head's timeout has run out, the quiet gap of frame_delay_ms is over.*)
(***************************************************************************)
EXTENDS Integers, SequencesExt

CONSTANTS
  MaxReq,        \* bound: requests accepted in a behaviour (req_id 1..MaxReq)
  NTimers,       \* subscription timers, one per polled input block
  FrameDelay,    \* modbusmq.frame_delay_ms > 0
  CallerPolls,   \* the application polls POLLOUT without loop_prepare's asking
  CallbackPosts, \* the raw reply callback posts the next raw request,
  ResetPosts     \* also while modbusmq_reset_queue() empties the queue

ASSUME QueueAssumption ==
  /\ MaxReq \in Nat
  /\ NTimers \in Nat
  /\ {FrameDelay, CallerPolls, CallbackPosts, ResetPosts} \subseteq BOOLEAN

VARIABLES
  connected,  \* fd >= 0
  queue,      \* msg_wrapper_head and its successors
  raw,        \* raw_req_id while raw_cb is set, else NoId
  next,       \* the req_id the next request is stamped with
  events,     \* what loop_prepare asked the caller to poll for
  expired,    \* the head has outlived frame_timeout_ms
  gap,        \* less than frame_delay_ms since last_read_ms
  writes,     \* history: requests accepted as POST
  answers     \* history: how often each request was reported, one walk over
              \* the inputs a response answers being one report

vars == <<connected, queue, raw, next, events, expired, gap, writes, answers>>
bus == <<connected, events, expired, gap>>

Ids == 1..MaxReq
NoId == 0
Wrapper == [id    : Ids,
            flags : {"POST", "SUBSCRIBE"},
            timer : 0..NTimers,             \* msg_id: 0 for a one-shot
            bcast : BOOLEAN,                \* slave 0 on RTU: nobody answers
            xmit  : {"none", "part", "all"},\* bytes of the request written
            seen  : BOOLEAN]                \* head_since_ms is set

QueuedIds(q) == {q[k].id : k \in DOMAIN q}
QueuedTimers(q) == {q[k].timer : k \in DOMAIN q}
PostRequest(id, b) == [id |-> id, flags |-> "POST", timer |-> 0, bcast |-> b,
                       xmit |-> "none", seen |-> FALSE]
PollRequest(id, t) == [PostRequest(id, FALSE) EXCEPT !.flags = "SUBSCRIBE", !.timer = t]

-----------------------------------------------------------------------------
(***************************************************************************)
(* Entering the queue.                                                     *)
(***************************************************************************)

\* Mutant: a write goes straight behind the head.
PostSlotBehindHead(q, n) == n = 1

\* n: the last place a new write may go behind.  The walk starts at the head,
\* whatever it is, and passes every write that follows it.
PostSlot(q, n) ==
  /\ n \in 1..Len(q)
  /\ \A k \in 2..n : q[k].flags = "POST"
  /\ n < Len(q) => q[n + 1].flags # "POST"

\* Mutant: a write is put at the tail.
PostedAtTail(q, r) == {Append(q, r)}

\* The queues a write r posted to q leads to (there is exactly one).
Posted(q, r) ==
  IF q = <<>> THEN {<<r>>}
  ELSE {InsertAt(q, n + 1, r) : n \in {m \in 1..Len(q) : PostSlot(q, m)}}

\* modbusmq_post(); the bridge refuses a write while the device is away.
Post(b) ==
  /\ connected
  /\ next <= MaxReq
  /\ queue' \in Posted(queue, PostRequest(next, b))
  /\ next' = next + 1
  /\ writes' = writes \cup {next}
  /\ UNCHANGED <<raw, answers>>
  /\ UNCHANGED bus

\* modbusmq_raw_request(): refused as busy while raw_cb is set, accepted
\* whether or not the device is connected.
RawRequest(b) ==
  /\ raw = NoId
  /\ next <= MaxReq
  /\ queue' \in Posted(queue, PostRequest(next, b))
  /\ raw' = next
  /\ next' = next + 1
  /\ writes' = writes \cup {next}
  /\ UNCHANGED answers
  /\ UNCHANGED bus

\* modbusmq_loop_prepare_subscription(): each timer that is due and has no
\* poll of its own in the queue posts one at the tail, in the order of the
\* timer list (parallel, series) or tier by tier (rounds).
DueBatches(q) ==
  {b \in UNION {[1..k -> (1..NTimers) \ QueuedTimers(q)] : k \in 0..NTimers} :
     \A i, j \in DOMAIN b : b[i] = b[j] => i = j}

Polls(b, first) == [i \in 1..Len(b) |-> PollRequest(first + i - 1, b[i])]

-----------------------------------------------------------------------------
(***************************************************************************)
(* Leaving the queue.  Each operator takes the part [queue, raw, next] of  *)
(* the state and returns the set of parts it may become.                   *)
(***************************************************************************)
Now == [queue |-> queue, raw |-> raw, next |-> next]

\* Mutant: the raw slot is not freed.
ReportedSlotKept(s, id, posts) == {s}

\* The request is reported.  A raw request's slot is freed before its
\* callback runs, and a callback that posts may already post the next one.
Reported(s, id, posts) ==
  IF id # s.raw THEN {s}
  ELSE {[s EXCEPT !.raw = NoId]} \cup
       {[queue |-> q, raw |-> s.next, next |-> s.next + 1] :
          q \in IF posts /\ s.next <= MaxReq
                THEN Posted(s.queue, PostRequest(s.next, FALSE)) ELSE {}}

\* Mutant: the head is put back for another try.
UnlinkedRetried(s) == {[s EXCEPT !.queue = Append(Tail(@), [Head(@) EXCEPT !.xmit = "none"])]}

\* ... and the head is unlinked afterwards.
Unlinked(s) ==
  {[t EXCEPT !.queue = Tail(@)] : t \in Reported(s, Head(s.queue).id, CallbackPosts)}

\* modbusmq_reset_queue(): reports every element, saving its successor first,
\* then clears the head pointer.  What a callback posts meanwhile is linked
\* behind an element already visited (or already freed) and is not kept.
Reset(s) ==
  IF s.raw \in QueuedIds(s.queue)
  THEN {[t EXCEPT !.queue = <<>>] : t \in Reported(s, s.raw, CallbackPosts /\ ResetPosts)}
  ELSE {[s EXCEPT !.queue = <<>>]}

\* s becomes the state after the requests in ids were reported and those in w
\* were accepted as writes.
Commit(s, ids, w) ==
  /\ queue' = s.queue
  /\ raw' = s.raw
  /\ next' = s.next
  /\ writes' = writes \cup w
  /\ answers' = [i \in Ids |-> answers[i] + (IF i \in ids THEN 1 ELSE 0)]

\* The head is finished: reported, which for the response of a poll is the
\* whole walk over the inputs it answers, and unlinked.
Finish ==
  \E s \in Unlinked(Now) :
    /\ Commit(s, {Head(queue).id}, next..(s.next - 1))
    /\ expired' = FALSE

-----------------------------------------------------------------------------
(***************************************************************************)
(* The event loop: loop_prepare, then poll(), then loop_write_read.        *)
(***************************************************************************)

\* Mutant: the gap is not asked about.
WantedAtOnce(q, quiet) ==
  IF q = <<>> THEN {} ELSE IF Head(q).xmit = "all" THEN {"POLLIN"} ELSE {"POLLOUT"}

\* What the head of q needs next: nothing while it waits out the gap.
Wanted(q, quiet) ==
  IF q = <<>> THEN {}
  ELSE IF Head(q).xmit = "all" THEN {"POLLIN"}
  ELSE IF Head(q).xmit = "none" /\ quiet THEN {}
  ELSE {"POLLOUT"}

Seen(q) == IF q = <<>> THEN q ELSE [q EXCEPT ![1].seen = TRUE]

\* modbusmq_loop_prepare(): evict a head that ran out of time, sent or not,
\* let the due timers post, then ask for what the head needs.
LoopPrepare ==
  /\ connected
  /\ LET evict == queue # <<>> /\ expired
         quiet == gap \/ (FrameDelay /\ evict /\ Head(queue).xmit = "all")
     IN \E s \in (IF evict THEN Unlinked(Now) ELSE {[Now EXCEPT !.queue = Seen(@)]}) :
        \E b \in DueBatches(s.queue) :
          /\ s.next + Len(b) <= MaxReq + 1
          /\ Commit([queue |-> s.queue \o Polls(b, s.next), raw |-> s.raw, next |-> s.next + Len(b)],
                    IF evict THEN {Head(queue).id} ELSE {}, next..(s.next - 1))
          /\ expired' = (expired /\ ~evict)
          /\ gap' = quiet
          /\ events' = Wanted(s.queue \o Polls(b, s.next), quiet)
  /\ UNCHANGED connected

\* revents that poll() may hand back.
Offered == IF CallerPolls THEN events \cup {"POLLOUT"} ELSE events

\* POLLOUT: write() takes some bytes of the request, perhaps none.  A
\* broadcast is complete once it is on the wire.
WriteRequest(x) ==
  /\ connected
  /\ queue # <<>>
  /\ "POLLOUT" \in Offered
  /\ Head(queue).xmit # "all"
  /\ ~ (Head(queue).xmit = "none" /\ gap)
  /\ Head(queue).xmit = "part" => x # "none"
  /\ events' = {}
  /\ IF x = "all" /\ Head(queue).bcast
     THEN Finish
     ELSE /\ queue' = [queue EXCEPT ![1].xmit = x]
          /\ expired' = (expired /\ x # "all")
          /\ UNCHANGED <<raw, next, writes, answers>>
  /\ UNCHANGED <<connected, gap>>

\* POLLOUT inside the gap: nothing is written and 0 is returned, which
\* modbusmq_loop_write_read() takes for a finished exchange.  The check of
\* the answer that was never read fails and the request is discarded.
WriteInGap ==
  /\ connected
  /\ queue # <<>>
  /\ "POLLOUT" \in Offered
  /\ Head(queue).xmit = "none"
  /\ gap
  /\ events' = {}
  /\ Finish
  /\ UNCHANGED <<connected, gap>>

\* POLLIN: more of the answer, or a frame that is not this request's.
ReadMore ==
  /\ connected
  /\ queue # <<>>
  /\ "POLLIN" \in events
  /\ Head(queue).xmit = "all"
  /\ events' = {}
  /\ gap' = FrameDelay
  /\ UNCHANGED <<connected, queue, raw, next, expired, writes, answers>>

\* POLLIN: the answer is complete and good, a refusal, or not a frame; each
\* way the request is reported, by another callback or code, and unlinked.
ReadAnswer ==
  /\ connected
  /\ queue # <<>>
  /\ "POLLIN" \in events
  /\ Head(queue).xmit = "all"
  /\ events' = {}
  /\ gap' = FrameDelay
  /\ Finish
  /\ UNCHANGED connected

\* Mutant: the queue is freed quietly once the head was reported.
LinkLostQuietly ==
  /\ connected
  /\ connected' = FALSE
  /\ events' = {}
  /\ expired' = FALSE
  /\ \E s \in IF queue = <<>> THEN {Now} ELSE Unlinked(Now) :
       Commit([s EXCEPT !.queue = <<>>],
              IF queue = <<>> THEN {} ELSE {Head(queue).id}, next..(s.next - 1))
  /\ UNCHANGED gap

\* A write or read error, or POLLERR/POLLHUP while idle: the head is reported
\* and unlinked, the bridge closes the descriptor and resets the queue.
LinkLost ==
  /\ connected
  /\ connected' = FALSE
  /\ events' = {}
  /\ expired' = FALSE
  /\ \E s \in IF queue = <<>> THEN {Now} ELSE Unlinked(Now) :
     \E t \in Reset(s) :
       Commit(t, QueuedIds(queue) \cup QueuedIds(s.queue), next..(t.next - 1))
  /\ UNCHANGED gap

Connect ==
  /\ ~connected
  /\ connected' = TRUE
  /\ UNCHANGED <<queue, raw, next, events, expired, gap, writes, answers>>

-----------------------------------------------------------------------------
(***************************************************************************)
(* Time.                                                                   *)
(***************************************************************************)

\* Mutant: only a request that is out has a clock.
TimeoutElapsesIfSent ==
  /\ queue # <<>>
  /\ Head(queue).xmit = "all"
  /\ ~expired
  /\ expired' = TRUE
  /\ UNCHANGED <<connected, queue, raw, next, events, gap, writes, answers>>

\* frame_timeout_ms runs out: counted from the last write of a request that
\* is out, from the moment loop_prepare saw it as head for one that is not.
TimeoutElapses ==
  /\ queue # <<>>
  /\ Head(queue).seen \/ Head(queue).xmit = "all"
  /\ ~expired
  /\ expired' = TRUE
  /\ UNCHANGED <<connected, queue, raw, next, events, gap, writes, answers>>

GapElapses ==
  /\ gap
  /\ gap' = FALSE
  /\ UNCHANGED <<connected, queue, raw, next, events, expired, writes, answers>>

Init ==
  /\ connected = FALSE
  /\ queue = <<>>
  /\ raw = NoId
  /\ next = 1
  /\ events = {}
  /\ expired = FALSE
  /\ gap = FALSE
  /\ writes = {}
  /\ answers = [i \in Ids |-> 0]

Next ==
  \/ \E b \in BOOLEAN : Post(b) \/ RawRequest(b)
  \/ LoopPrepare
  \/ \E x \in {"none", "part", "all"} : WriteRequest(x)
  \/ WriteInGap
  \/ ReadMore
  \/ ReadAnswer
  \/ LinkLost
  \/ Connect
  \/ TimeoutElapses
  \/ GapElapses

Spec == Init /\ [][Next]_vars

\* The loop keeps turning and time keeps passing; nothing is assumed of the
\* device or of the link, and of the application only what a property says.
FairSpec == Spec /\ WF_vars(LoopPrepare) /\ WF_vars(TimeoutElapses)

-----------------------------------------------------------------------------
TypeOK ==
  /\ connected \in BOOLEAN
  /\ queue \in Seq(Wrapper)
  /\ raw \in {NoId} \cup Ids
  /\ next \in 1..(MaxReq + 1)
  /\ events \subseteq {"POLLIN", "POLLOUT"}
  /\ expired \in BOOLEAN
  /\ gap \in BOOLEAN
  /\ writes \subseteq Ids
  /\ answers \in [Ids -> Nat]

\* Every accepted request is either still in the queue and unreported, or it
\* was reported exactly once: none ended twice, none forgotten on any of the
\* ways out (answer, refusal, rejection, timeout, lost link).  How many inputs
\* one response is walked over is not part of it.
ReportedOnce ==
  \A i \in Ids : answers[i] = IF i < next /\ i \notin QueuedIds(queue) THEN 1 ELSE 0

\* Half duplex: only the head has bytes on the wire, and only the head's
\* clock runs, whatever is posted while it is out.
OnlyHeadOnWire ==
  \A k \in 2..Len(queue) : queue[k].xmit = "none" /\ ~queue[k].seen

\* Writes waiting behind the head are ahead of every waiting poll.
WritesAheadOfPolls ==
  \A j, k \in 2..Len(queue) : j < k /\ queue[k].flags = "POST" => queue[j].flags = "POST"

\* Writes are finished in the order they were posted, and so are polls,
\* although a write may overtake a poll.
FinishedInOrder ==
  \A i, j \in 1..(next - 1) :
    /\ i < j
    /\ (i \in writes) = (j \in writes)
    /\ answers[j] > 0
    => answers[i] > 0

\* The raw slot is taken exactly while its request is queued, so that the
\* next raw request is neither refused for nothing nor answered for another.
RawSlotQueued ==
  raw # NoId <=> \E k \in 1..Len(queue) : queue[k].id = raw

\* Once its first byte is out a request stays at the head until it is
\* reported: nothing is spliced in front of it.
HeadStays ==
  [][queue # <<>> /\ Head(queue).xmit # "none" /\ answers'[Head(queue).id] = answers[Head(queue).id]
       => queue' # <<>> /\ Head(queue').id = Head(queue).id]_vars

UnaskedWrite == WriteInGap /\ "POLLOUT" \notin events

\* A request the gap holds back stays the head: it is neither sent early nor
\* discarded, unless its time runs out, the link goes down, or the caller
\* polled for POLLOUT without being asked to.
GapHoldsRequest ==
  [][ /\ queue # <<>> /\ Head(queue).xmit = "none" /\ gap /\ gap'
      /\ ~expired /\ connected /\ connected' /\ ~UnaskedWrite
     => /\ queue' # <<>>
        /\ Head(queue').id = Head(queue).id
        /\ Head(queue').xmit = "none"]_vars

\* The queue and its loop implement the promise of RequestService.
Status ==
  [i \in Ids |-> IF i >= next THEN "new"
                 ELSE IF i \notin QueuedIds(queue) THEN "done"
                 ELSE IF Head(queue).id = i /\ Head(queue).xmit # "none" THEN "sent"
                 ELSE "waiting"]
Service == INSTANCE RequestService WITH status <- Status
ServesRequests == Service!Spec

\* An accepted request is reported in the end unless the link goes down: a
\* write whatever else is posted, a poll provided that writes are not accepted
\* for ever, since each of them passes the polls that wait.
EventuallyReported ==
  \A i \in Ids :
    /\ (i \in writes /\ answers[i] = 0) ~> (answers[i] > 0 \/ ~connected)
    /\ \/ (i < next /\ answers[i] = 0) ~> (answers[i] > 0 \/ ~connected)
       \/ []<><<writes' # writes>>_vars
=============================================================================
