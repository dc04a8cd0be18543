------------------------------- MODULE Rounds -------------------------------
(***************************************************************************)
(* Which polls a context of libmodbusmq posts when input.query_mode is     *)
(* rounds (lib/modbusmq.c), and the backoff of a slave that stopped        *)
(* answering.  A round reads every fast input, then the deep inputs of one *)
(* slave in turn, then those of the focus slave.  A slave that missed      *)
(* MissMax answers in a row is unresponsive: its inputs are skipped and it *)
(* is probed with one read per retry_ms, doubled up to a cap.              *)
(*                                                                         *)
(* The queue holds only the polls here; writes pass them (RequestQueue)    *)
(* and neither hold a round open nor count as a miss.  Time is counted in  *)
(* ticks, and every deadline is kept as the ticks left to it.  How long a  *)
(* poll is out is left open.                                               *)
(***************************************************************************)
EXTENDS Polling

CONSTANTS
  Inputs,         \* the round list: [slave, tier, once], in config order
  RoundInterval,  \* input.round_interval_ms in ticks
  Fallible,       \* bound: the slaves that may fail to answer
  LinkDrops       \* the connection may be lost

NoSlave == -1

Slaves == {Inputs[i].slave : i \in DOMAIN Inputs}

ASSUME RoundsAssumption ==
  /\ Inputs \in Seq([slave : 0..255, tier : {"fast", "deep"}, once : BOOLEAN])
  /\ RoundInterval \in Nat
  /\ Fallible \subseteq Slaves
  /\ LinkDrops \in BOOLEAN

VARIABLES
  health,     \* per slave, kept equal in all its timers: misses, unresponsive,
              \* retry (retry_ms) and left (retry_at - now, 0 once past)
  done,       \* once inputs answered since the last reset
  queue,      \* the polls not yet finished; probe: posted to an unresponsive slave
  active,     \* round_active
  roundLeft,  \* round_start_ms + round_interval_ms - now, 0 once past
  deepSlave,  \* round_deep_slave
  focus,      \* round_focus
  connected,  \* fd >= 0
  troubled    \* environment: slaves whose polls may time out, unsent ones too,
              \* be refused or come back garbled

vars == <<health, done, queue, active, roundLeft, deepSlave, focus, connected, troubled>>

Fast == {i \in DOMAIN Inputs : Inputs[i].tier = "fast"}
DeepOf(s) == {i \in DOMAIN Inputs : Inputs[i].tier = "deep" /\ Inputs[i].slave = s}
OnceOf(s) == {i \in DOMAIN Inputs : Inputs[i].once /\ Inputs[i].slave = s}
DeepSlaves == {s \in Slaves : DeepOf(s) # {}}
SlavesOf(S) == {Inputs[i].slave : i \in S}

-----------------------------------------------------------------------------
\* Mutants: any input of the slave may be read once its probe is due; the
\* gate is asked before the once input is skipped; the gate is not asked.
PostableAll(h, T, probed) ==
  {i \in T \ done : h[Inputs[i].slave].unresponsive => h[Inputs[i].slave].left = 0}

PostableGateFirst(h, T, probed) ==
  {i \in T \ done :
     LET s == Inputs[i].slave
     IN h[s].unresponsive =>
          /\ h[s].left = 0
          /\ s \notin probed
          /\ \A j \in T : Inputs[j].slave = s => i <= j}
PostableUngated(h, T, probed) ==
  {i \in T \ done :
     LET s == Inputs[i].slave
     IN h[s].unresponsive =>
          s \notin probed /\ \A j \in T \ done : Inputs[j].slave = s => i <= j}

\* modbusmq_round_post() of the inputs T, modbusmq_slave_gate() included:
\* those that are not answered once inputs, and of an unresponsive slave only
\* the first, if its probe is due and was not posted already.
Postable(h, T, probed) ==
  {i \in T \ done :
     LET s == Inputs[i].slave
     IN h[s].unresponsive =>
          /\ h[s].left = 0
          /\ s \notin probed
          /\ \A j \in T \ done : Inputs[j].slave = s => i <= j}

-----------------------------------------------------------------------------
(***************************************************************************)
(* A round, given the health h of the slaves.                              *)
(***************************************************************************)

\* s comes before t among the slaves with deep inputs.
Precedes(s, t) == \E i \in DeepOf(s) : \A j \in DeepOf(t) : i < j
Earliest(S) == {s \in S : \A t \in S \ {s} : Precedes(s, t)}

\* The slaves the deep turn may go to: an unresponsive one only gets it when
\* its probe is due.
Eligible(h) == {s \in DeepSlaves : h[s].unresponsive => h[s].left = 0}

\* Mutant: the turn always goes to the first slave that may have it.
DeepTurnFirst(h) == IF Eligible(h) = {} THEN {NoSlave} ELSE Earliest(Eligible(h))

\* modbusmq_round_next_deep_slave(), as the set of its one result: the slave
\* after the last one, or the first when that one is not in the list.
DeepTurn(h) ==
  LET later == {s \in Eligible(h) : deepSlave \in Eligible(h) /\ Precedes(deepSlave, s)}
  IN IF Eligible(h) = {} THEN {NoSlave}
     ELSE Earliest(IF later = {} THEN Eligible(h) ELSE later)

\* Mutant: the focus slave is read on top of its own deep turn.
FocusInputsAlways(turn) == DeepOf(focus)
FocusInputs(turn) == IF focus = turn THEN {} ELSE DeepOf(focus)

Polls(h, q) ==
  [k \in 1..Len(q) |-> [input |-> q[k], probe |-> h[Inputs[q[k]].slave].unresponsive]]

\* The delay starts over for every slave that was probed.
Probed(h, posted) ==
  [s \in Slaves |-> IF h[s].unresponsive /\ s \in SlavesOf(posted)
                    THEN [h[s] EXCEPT !.left = h[s].retry] ELSE h[s]]

\* A round is posted behind the polls in q, the deep turn going to turn.
StartRound(h, q, turn) ==
  LET fast == Postable(h, Fast, {})
      deep == Postable(h, DeepOf(turn), SlavesOf(fast))
      extra == Postable(h, FocusInputs(turn), SlavesOf(fast \cup deep))
  IN /\ \E f \in InListOrder(fast), d \in InListOrder(deep), e \in InListOrder(extra) :
          queue' = q \o Polls(h, f \o d \o e)
     /\ health' = Probed(h, fast \cup deep \cup extra)
     /\ active' = TRUE
     /\ roundLeft' = RoundInterval
     /\ deepSlave' = IF turn = NoSlave THEN deepSlave ELSE turn

-----------------------------------------------------------------------------
(***************************************************************************)
(* The event loop.                                                         *)
(***************************************************************************)
HeadSlave == Inputs[Head(queue).input].slave

\* Mutant: a round is never closed.
RoundOpenForGood(q) == active

\* A round is open while one of its polls is left in q.
RoundOpen(q) == active /\ q # <<>>

\* modbusmq_loop_prepare(): evict the head if it timed out, close the round
\* when none of its polls is left, and start the next one when it is due.
\* Without a descriptor it returns at once: no round is opened or closed.
LoopPrepare(evict) ==
  /\ connected
  /\ evict => queue # <<>> /\ HeadSlave \in troubled
  /\ LET q == IF evict THEN Tail(queue) ELSE queue
         h == IF evict THEN [health EXCEPT ![HeadSlave] = Missed(@)] ELSE health
     IN IF ~RoundOpen(q) /\ roundLeft = 0
        THEN \E turn \in DeepTurn(h) : StartRound(h, q, turn)
        ELSE /\ queue' = q
             /\ health' = h
             /\ active' = RoundOpen(q)
             /\ UNCHANGED <<roundLeft, deepSlave>>
  /\ UNCHANGED <<done, focus, connected, troubled>>

\* The once inputs still answered after s gave a sign of life: a slave that
\* was unresponsive may have been swapped.
Recovered(s) == IF health[s].unresponsive THEN done \ OnceOf(s) ELSE done

\* The head got its answer: a good one ends a once read, an exception only
\* shows that the slave is alive.
Answered(good) ==
  /\ queue # <<>>
  /\ good \/ HeadSlave \in troubled
  /\ queue' = Tail(queue)
  /\ health' = [health EXCEPT ![HeadSlave] = Healthy]
  /\ done' = Recovered(HeadSlave) \cup
             (IF good THEN {Head(queue).input} \cap OnceOf(HeadSlave) ELSE {})
  /\ UNCHANGED <<active, roundLeft, deepSlave, focus, connected, troubled>>

\* What arrived was not a frame, or not this poll's: neither an answer nor a
\* miss.
Rejected ==
  /\ queue # <<>>
  /\ HeadSlave \in troubled
  /\ queue' = Tail(queue)
  /\ UNCHANGED <<health, done, active, roundLeft, deepSlave, focus, connected, troubled>>

\* The link is lost: modbusmq_reset_queue(), which ends by arming the once
\* inputs again.  The round is closed by the first loop_prepare after the
\* next Connect.
LinkLost ==
  /\ LinkDrops
  /\ connected
  /\ connected' = FALSE
  /\ queue' = <<>>
  /\ done' = {}
  /\ UNCHANGED <<health, active, roundLeft, deepSlave, focus, troubled>>

\* modbusmq_connect() succeeds.
Connect ==
  /\ ~connected
  /\ connected' = TRUE
  /\ UNCHANGED <<health, done, queue, active, roundLeft, deepSlave, focus, troubled>>

\* modbusmq_set_focus()
SetFocus(s) ==
  /\ s \in DeepSlaves \cup {NoSlave}
  /\ focus' = s
  /\ UNCHANGED <<health, done, queue, active, roundLeft, deepSlave, connected, troubled>>

-----------------------------------------------------------------------------
(***************************************************************************)
(* The environment.                                                        *)
(***************************************************************************)
Tick ==
  /\ health' = [s \in Slaves |-> [health[s] EXCEPT !.left = LessOne(@)]]
  /\ roundLeft' = LessOne(roundLeft)
  /\ UNCHANGED <<done, queue, active, deepSlave, focus, connected, troubled>>

\* A slave has trouble or works again.
FailOrRepair(s) ==
  /\ troubled' = IF s \in troubled THEN troubled \ {s} ELSE troubled \cup {s}
  /\ UNCHANGED <<health, done, queue, active, roundLeft, deepSlave, focus, connected>>

Init ==
  /\ health = [s \in Slaves |-> Healthy]
  /\ done = {}
  /\ queue = <<>>
  /\ active = FALSE
  /\ roundLeft = 0
  /\ deepSlave = NoSlave
  /\ focus = NoSlave
  /\ connected = FALSE
  /\ troubled = {}

Resolve == LoopPrepare(TRUE) \/ Rejected \/ \E good \in BOOLEAN : Answered(good)

Next ==
  \/ Resolve
  \/ LoopPrepare(FALSE)
  \/ LinkLost
  \/ Connect
  \/ \E s \in Slaves \cup {NoSlave} : SetFocus(s)
  \/ Tick
  \/ \E s \in Fallible : FailOrRepair(s)

Spec == Init /\ [][Next]_vars

\* The loop keeps turning, a poll that is out comes to an end (the frame
\* timeout sees to it, as long as writes, which overtake it, do not come for
\* ever: see RequestQueue), and time passes.  A turn begins with loop_prepare and
\* a lost link is only noticed later in it, so that however often the link
\* drops each connection sees a loop_prepare, the first with an empty queue.
\* Nothing is assumed of the link.
FairSpec ==
  /\ Spec
  /\ SF_vars(LoopPrepare(FALSE))
  /\ WF_vars(Resolve)
  /\ WF_vars(Tick)

-----------------------------------------------------------------------------
TypeOK ==
  /\ health \in [Slaves -> Health]
  /\ done \subseteq UNION {OnceOf(s) : s \in Slaves}
  /\ queue \in Seq([input : DOMAIN Inputs, probe : BOOLEAN])
  /\ active \in BOOLEAN
  /\ connected \in BOOLEAN
  /\ roundLeft \in 0..RoundInterval
  /\ {deepSlave, focus} \subseteq DeepSlaves \cup {NoSlave}
  /\ troubled \subseteq Fallible

\* A slave is unresponsive exactly after MissMax timeouts in a row, and then
\* its delay is between the first one and the cap, and running at most that
\* long: it is neither probed without pause nor forgotten.
BackoffBounded ==
  \A s \in Slaves : Bounded(health[s])

\* A probe is the only poll its slave has in the round, although the fast
\* inputs, the deep turn and the focus may all want that slave: a dead slave
\* costs a round at most one frame timeout.
ProbeAlone ==
  \A j, k \in DOMAIN queue :
    queue[j].probe /\ Inputs[queue[k].input].slave = Inputs[queue[j].input].slave => j = k

\* A round reads no input twice, and no round starts into another one.
ReadOncePerRound ==
  /\ \A j, k \in DOMAIN queue : queue[j].input = queue[k].input => j = k
  /\ queue # <<>> => active

Probing(q, s) == \E k \in DOMAIN q : q[k].probe /\ Inputs[q[k].input].slave = s

\* A probe goes out only when the delay is over, also when the timeout that
\* makes a slave unresponsive starts the next round in the same call.
ProbeWhenDue ==
  [][\A s \in Slaves :
       ~Probing(queue, s) /\ Probing(queue', s)
         => health[s].unresponsive /\ health[s].left = 0]_vars

\* Rounds keep coming one after another, whatever the slaves do and however
\* often the link drops in the middle of one, provided that it comes back
\* each time: while it is away no round is opened.
RoundsRecur ==
  []<>connected => []<>(roundLeft = RoundInterval) /\ []<>(roundLeft = 0)

\* A slave with a fast input that works again is read normally again, however
\* long it was away and whoever else is in trouble, once the link stays up.
Recovers ==
  <>[]connected =>
    \A s \in SlavesOf(Fast) :
      <>[](s \notin troubled) => <>[](~health[s].unresponsive)

\* A slave with deep inputs that works gets the deep turn again and again, if
\* the link comes back whenever it drops.
DeepTurnComes ==
  []<>connected =>
    \A s \in DeepSlaves : <>[](s \notin troubled) => []<>(deepSlave = s)

\* It does unless some slave with deep inputs is unresponsive now and then.
DeepTurnComesIfAllAnswer ==
  []<>(\E s \in DeepSlaves : health[s].unresponsive) \/ DeepTurnComes
=============================================================================
