------------------------------- MODULE Timers -------------------------------
(***************************************************************************)
(* Which polls a context of libmodbusmq posts when input.query_mode is     *)
(* parallel or series (lib/modbusmq.c), and how long it lets poll() sleep. *)
(* Each polled input has a timer.  A timer that is due posts its poll at   *)
(* the tail of the queue, unless that poll is still queued, and becomes    *)
(* due again one interval after the time it was due, however late it is.   *)
(*                                                                         *)
(* Time is counted in ticks; due times, backoffs and the sleep are kept    *)
(* relative to now.  A turn of the loop takes less than a tick.  How long  *)
(* a poll is out is left open, and the queue holds only polls (a write     *)
(* passes them, see RequestQueue).                                         *)
(***************************************************************************)
EXTENDS Polling, SequencesExt

CONSTANTS
  Setups,      \* [mode, inputs]: input.query_mode, the inputs in config order
  OnceRetry,   \* MODBUSMQ_ONCE_RETRY_MS in ticks
  Ceiling,     \* the sleep the caller asks for when no timer is due sooner
  MaxLate,     \* bound: a timer is at most that late
  Fallible,    \* bound: the slaves that may fail to answer
  LinkDrops    \* the connection may be lost

Once == -1     \* MODBUSMQ_INTERVAL_ONCE
Returned == -1 \* the sleep is over, loop_prepare is next

Slaves == UNION {{s.inputs[i].slave : i \in DOMAIN s.inputs} : s \in Setups}

ASSUME TimersAssumption ==
  /\ \A s \in Setups : /\ s.mode \in {"parallel", "series"}
                       /\ s.inputs \in Seq([slave : 0..255, interval : {Once} \cup (Nat \ {0})])
  /\ {OnceRetry, Ceiling} \subseteq Nat \ {0}
  /\ MaxLate \in Nat
  /\ Fallible \subseteq Slaves
  /\ LinkDrops \in BOOLEAN

VARIABLES
  setup,      \* the configuration in force
  timers,     \* timer_head and its successors; due is timer_next_time - now
  done,       \* once timers with timer_next_time = UINT64_MAX, by place
  health,     \* the backoff of each slave, the same in all its timers
  queue,      \* the polls not yet finished, as places in timers
  connected,  \* fd >= 0
  sleep,      \* what is left of the time poll() may block
  troubled,   \* environment: slaves whose polls may time out, be refused or garbled
  since       \* history: ticks since each slave was last probed, RetryMax if more

vars == <<setup, timers, done, health, queue, connected, sleep, troubled, since>>

Timer == [slave : Slaves, once : BOOLEAN, interval : Nat \ {0}, orig : Nat, due : Int]

Places == DOMAIN timers
Queued == {queue[k] : k \in DOMAIN queue}
OnceOf(s) == {k \in Places : timers[k].once /\ timers[k].slave = s}

-----------------------------------------------------------------------------
(***************************************************************************)
(* Subscribing.                                                            *)
(***************************************************************************)

\* The timer of an input, due at once.
NewTimer(input) ==
  [slave    |-> input.slave,
   once     |-> input.interval = Once,
   interval |-> IF input.interval = Once THEN OnceRetry ELSE input.interval,
   orig     |-> IF input.interval = Once THEN 0 ELSE input.interval,
   due      |-> 0]

\* A timer goes before the first one with a longer interval, or at the end.
LongerFrom(list, t) ==
  {n \in 1..(Len(list) + 1) : /\ n <= Len(list) => t.interval < list[n].interval
                              /\ \A k \in 1..(n - 1) : list[k].interval <= t.interval}

\* The sum of orig_interval that the walk to the tail makes.
Shares(list) ==
  LET upTo[n \in 0..Len(list)] == IF n = 0 THEN 0 ELSE upTo[n - 1] + list[n].orig
  IN upTo[Len(list)]

\* Mutant: a series timer starts its own interval after the first one.
ChainedToHead(list, t) ==
  LET cycle == t.orig + Shares(list)
      chained == Append(list, [t EXCEPT !.due = Head(list).due + t.orig])
  IN [k \in DOMAIN chained |->
        IF chained[k].once THEN chained[k] ELSE [chained[k] EXCEPT !.interval = cycle]]

\* Series mode: a timer starts its interval after the previous one, and the
\* interval of all becomes the length of the cycle.
Chained(list, t) ==
  LET cycle == t.orig + Shares(list)
      chained == Append(list, [t EXCEPT !.due = Last(list).due + t.orig])
  IN [k \in DOMAIN chained |->
        IF chained[k].once THEN chained[k] ELSE [chained[k] EXCEPT !.interval = cycle]]

\* modbusmq_subscribe() of the next input, before the loop starts.
Subscribe ==
  /\ Len(timers) < Len(setup.inputs)
  /\ LET t == NewTimer(setup.inputs[Len(timers) + 1])
     IN IF timers = <<>> \/ t.once THEN timers' = <<t>> \o timers
        ELSE IF setup.mode = "series" THEN timers' = Chained(timers, t)
        ELSE \E n \in LongerFrom(timers, t) : timers' = InsertAt(timers, n, t)
  /\ UNCHANGED <<setup, done, health, queue, connected, sleep, troubled, since>>

Subscribed == Len(timers) = Len(setup.inputs)

-----------------------------------------------------------------------------
(***************************************************************************)
(* The event loop.                                                         *)
(***************************************************************************)
HeadSlave == timers[Head(queue)].slave

\* Mutant: a due timer does not look for its own poll.
DueUnchecked(q) == {k \in Places \ done : timers[k].due <= 0}

\* The timers that are due and have no poll in q.
Due(q) == {k \in Places \ done : timers[k].due <= 0 /\ \A j \in DOMAIN q : q[j] # k}

\* Mutant: a probe holds back none of its slave's other timers.
PassedAll(h, T) ==
  {k \in T : h[timers[k].slave].unresponsive => h[timers[k].slave].left = 0}

\* Those of T that modbusmq_slave_gate() lets through: of an unresponsive
\* slave only the first, if its probe is due.
Passed(h, T) ==
  {k \in T :
     LET s == timers[k].slave
     IN h[s].unresponsive =>
          /\ h[s].left = 0
          /\ \A j \in T : timers[j].slave = s => k <= j}

\* Mutant: the delay starts over for every slave the gate is asked about.
ProbedByAny(h, P) == {s \in Slaves : h[s].unresponsive}

\* The slaves probed by the polls of the timers P.
ProbedBy(h, P) == {s \in Slaves : h[s].unresponsive /\ \E k \in P : timers[k].slave = s}

\* Mutant: the sleep is lowered to the interval, not to the time left of it.
SleepByInterval(list, out) ==
  CHOOSE n \in {Ceiling} \cup {list[k].interval : k \in DOMAIN list \ out} :
    \A m \in {Ceiling} \cup {list[k].interval : k \in DOMAIN list \ out} : n <= m

\* The sleep: the caller's own ceiling or the time to the next due timer.  A
\* timer that is late does not count: timer_next_time - time_now wraps to a
\* huge number.
Sleep(list, out) ==
  LET times == {Ceiling} \cup {list[k].due : k \in {j \in DOMAIN list \ out : list[j].due >= 0}}
  IN CHOOSE n \in times : \A m \in times : n <= m

\* modbusmq_loop_prepare(): evict the head if it timed out, then walk the
\* timers: whether the gate lets its poll through or not, a timer that is due
\* moves on by one interval.
LoopPrepare(evict) ==
  /\ connected
  /\ Subscribed
  /\ evict => queue # <<>> /\ HeadSlave \in troubled
  /\ LET q == IF evict THEN Tail(queue) ELSE queue
         h == IF evict THEN [health EXCEPT ![HeadSlave] = Missed(@)] ELSE health
         due == Due(q)
         probed == ProbedBy(h, Passed(h, due))
     IN /\ \E batch \in InListOrder(Passed(h, due)) : queue' = q \o batch
        /\ timers' = [k \in Places |-> IF k \in due
                                       THEN [timers[k] EXCEPT !.due = @ + timers[k].interval]
                                       ELSE timers[k]]
        /\ health' = [s \in Slaves |-> IF s \in probed THEN [h[s] EXCEPT !.left = h[s].retry] ELSE h[s]]
        /\ since' = [s \in Slaves |-> IF s \in probed THEN 0 ELSE since[s]]
        /\ sleep' = Sleep(timers', done)
  /\ UNCHANGED <<setup, done, connected, troubled>>

\* The once timers in K are due now, whatever they were.
Rearmed(K) == [k \in Places |-> IF k \in K THEN [timers[k] EXCEPT !.due = 0] ELSE timers[k]]

\* Mutant: an answer of any slave arms its once timers again.
RearmedByAny == OnceOf(HeadSlave)

\* The once timers an answer of the head arms again: the slave was
\* unresponsive and may have been swapped.
RearmedByAnswer == IF health[HeadSlave].unresponsive THEN OnceOf(HeadSlave) ELSE {}

\* poll() returns with an answer of the head: a good one ends a once read, an
\* exception only shows that the slave is alive.
Answered(good) ==
  /\ queue # <<>>
  /\ good \/ HeadSlave \in troubled
  /\ queue' = Tail(queue)
  /\ health' = [health EXCEPT ![HeadSlave] = Healthy]
  /\ timers' = Rearmed(RearmedByAnswer)
  /\ done' = (done \ RearmedByAnswer) \cup
             (IF good THEN {Head(queue)} \cap OnceOf(HeadSlave) ELSE {})
  /\ sleep' = Returned
  /\ UNCHANGED <<setup, connected, troubled, since>>

\* What arrived was not a frame, or not this poll's.
Rejected ==
  /\ queue # <<>>
  /\ HeadSlave \in troubled
  /\ queue' = Tail(queue)
  /\ sleep' = Returned
  /\ UNCHANGED <<setup, timers, done, health, connected, troubled, since>>

\* The link is lost: modbusmq_reset_queue() and with it modbusmq_once_rearm().
LinkLost ==
  /\ LinkDrops
  /\ connected
  /\ connected' = FALSE
  /\ queue' = <<>>
  /\ timers' = Rearmed(UNION {OnceOf(s) : s \in Slaves})
  /\ done' = {}
  /\ sleep' = Returned
  /\ UNCHANGED <<setup, health, troubled, since>>

Connect ==
  /\ Subscribed
  /\ ~connected
  /\ connected' = TRUE
  /\ UNCHANGED <<setup, timers, done, health, queue, sleep, troubled, since>>

-----------------------------------------------------------------------------
(***************************************************************************)
(* The environment.                                                        *)
(***************************************************************************)

\* A tick passes: while the loop sleeps, or while there is no connection.
Tick ==
  /\ Subscribed
  /\ connected => sleep # Returned
  /\ \A k \in Places \ done : timers[k].due > -MaxLate
  /\ timers' = [k \in Places |-> IF k \in done THEN timers[k] ELSE [timers[k] EXCEPT !.due = @ - 1]]
  /\ health' = [s \in Slaves |-> [health[s] EXCEPT !.left = LessOne(@)]]
  /\ since' = [s \in Slaves |-> Lesser(since[s] + 1, RetryMax)]
  /\ sleep' = IF sleep = Returned THEN Returned ELSE sleep - 1
  /\ UNCHANGED <<setup, done, queue, connected, troubled>>

\* A slave has trouble or works again.
FailOrRepair(s) ==
  /\ troubled' = IF s \in troubled THEN troubled \ {s} ELSE troubled \cup {s}
  /\ UNCHANGED <<setup, timers, done, health, queue, connected, sleep, since>>

Init ==
  /\ setup \in Setups
  /\ timers = <<>>
  /\ done = {}
  /\ health = [s \in Slaves |-> Healthy]
  /\ queue = <<>>
  /\ connected = FALSE
  /\ sleep = Returned
  /\ troubled = {}
  /\ since = [s \in Slaves |-> RetryMax]

Resolve == LoopPrepare(TRUE) \/ Rejected \/ \E good \in BOOLEAN : Answered(good)

Next ==
  \/ Subscribe
  \/ Resolve
  \/ LoopPrepare(FALSE)
  \/ LinkLost
  \/ Connect
  \/ Tick
  \/ \E s \in Fallible : FailOrRepair(s)

Spec == Init /\ [][Next]_vars

\* The program subscribes and connects, the loop keeps turning, a poll that is
\* out comes to an end (the frame timeout sees to it, as long as writes, which
\* overtake it, do not come for ever: see RequestQueue), and time passes.
FairSpec ==
  /\ Spec
  /\ WF_vars(Subscribe)
  /\ WF_vars(Connect)
  /\ WF_vars(LoopPrepare(FALSE))
  /\ WF_vars(Resolve)
  /\ WF_vars(Tick)

-----------------------------------------------------------------------------
TypeOK ==
  /\ setup \in Setups
  /\ timers \in Seq(Timer)
  /\ done \subseteq {k \in Places : timers[k].once}
  /\ health \in [Slaves -> Health]
  /\ queue \in Seq(Places)
  /\ connected \in BOOLEAN
  /\ sleep \in {Returned} \cup Nat
  /\ troubled \subseteq Fallible
  /\ since \in [Slaves -> 0..RetryMax]

\* However late a timer is, its polls do not pile up: one of them is waiting
\* or out at a time, so that a catch-up costs the others a turn each.
OnePollPerTimer == \A j, k \in DOMAIN queue : queue[j] = queue[k] => j = k

\* The loop never sleeps past the time a timer is due, unless its poll is
\* still queued (an answer will wake the loop) or its slave is backed off,
\* although the time left of a late timer wraps.
NoOversleep ==
  sleep # Returned =>
    /\ sleep <= Ceiling
    /\ \A k \in Places \ (done \cup Queued) :
         health[timers[k].slave].unresponsive \/ sleep <= timers[k].due

NewProbes(s) ==
  {k \in {queue'[j] : j \in DOMAIN queue'} \ Queued :
     timers[k].slave = s /\ health'[s].unresponsive}

\* However many timers of a slave are due, and however late, a turn of the
\* loop posts at most one probe of an unresponsive slave, and none before the
\* delay in force, counted from the posting of the last probe, is over.  That
\* is the pace at which probes are posted; one that is out for longer than
\* the delay has a second one queued beside it, since retry_at alone holds
\* the slave's other timers back.
ProbesSpaced ==
  [][\A s \in Slaves :
       NewProbes(s) # {} => Cardinality(NewProbes(s)) = 1 /\ since[s] >= health'[s].retry]_vars

\* Series mode: no two timers are ever due at the same time, whatever was
\* missed while the link was down or the bus was slow.
SeriesStaggered ==
  setup.mode = "series" =>
    \A j, k \in Places :
      ~timers[j].once /\ ~timers[k].once /\ j # k
        => (timers[j].due - timers[k].due) % timers[j].interval # 0

AnsweredPoll(k) == queue # <<>> /\ Head(queue) = k /\ Answered(TRUE)
MaxTimers == CHOOSE n \in {Len(s.inputs) : s \in Setups} : \A s \in Setups : Len(s.inputs) <= n
Works(k) == k \in Places /\ Subscribed /\ timers[k].slave \notin troubled

\* An input whose slave works is read again and again, also after the slave
\* was backed off, and while the others are late, or their slaves fail.
ReadAgain ==
  []<><<LinkLost>>_vars \/
  \A k \in 1..MaxTimers :
    <>[](Works(k) /\ ~timers[k].once) => []<><<AnsweredPoll(k)>>_vars

\* A once input is read in the end, and then no more, if its slave works.
OnceSettles ==
  []<><<LinkLost>>_vars \/
  \A k \in 1..MaxTimers :
    <>[](Works(k) /\ timers[k].once) => <>[](k \in done)
=============================================================================
