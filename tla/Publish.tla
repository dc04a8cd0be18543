------------------------------ MODULE Publish ------------------------------
(***************************************************************************)
(* One channel and the messages it sends over a run: it is polled at any   *)
(* time, with any reading, and now and then the broker is lost and found   *)
(* again (lib/modbusmq.c, lib/modbusmq_config.c).  What a subscriber has   *)
(* last seen is kept apart from what the channel remembers of it.          *)
(***************************************************************************)
EXTENDS PublishRule

CONSTANTS
  RuleSet,   \* the keys the channel may have
  Readings,  \* what a poll may find
  MaxTime    \* bound: milliseconds are counted in ticks up to here

ASSUME PublishAssumption ==
  /\ RuleSet \subseteq Rules
  /\ Readings \subseteq Int \cup {NotAvailable}
  /\ MaxTime \in Nat

VARIABLES
  rule,   \* the keys of the channel
  chan,   \* published, last_value, last_publish_ms
  now,    \* millitime()
  read,   \* history: the last reading and when
  shown   \* history: the last message in this session, and when

vars == <<rule, chan, now, read, shown>>

Nothing == [seen |-> FALSE, value |-> 0, at |-> 0]
Seen(v) == [seen |-> TRUE, value |-> v, at |-> now]

\* Mutant: the channel remembers every reading.
RecordedAlways(v) == Record(v, now)

\* What the channel remembers of a reading that was decided about.
Recorded(v) == IF Decide(rule, chan, v, now) THEN Record(v, now) ELSE chan

Poll(v) ==
  /\ chan' = Recorded(v)
  /\ shown' = IF Decide(rule, chan, v, now) THEN Seen(v) ELSE shown
  /\ read' = Seen(v)
  /\ UNCHANGED <<rule, now>>

\* modbusmq_config_reset_publish_state(), when the broker is back.
ResetPublishState ==
  /\ chan' = Unpublished
  /\ shown' = Nothing
  /\ read' = Nothing
  /\ UNCHANGED <<rule, now>>

Tick ==
  /\ now < MaxTime
  /\ now' = now + 1
  /\ UNCHANGED <<rule, chan, read, shown>>

Init ==
  /\ rule \in RuleSet
  /\ chan = Unpublished
  /\ now = 0
  /\ read = Nothing
  /\ shown = Nothing

Next ==
  \/ \E v \in Readings : Poll(v)
  \/ ResetPublishState
  \/ Tick

Spec == Init /\ [][Next]_vars

-----------------------------------------------------------------------------
\* v looks to a subscriber like old as far as the channel's keys go.
Stands(old, v) ==
  \/ v = old
  \/ Gated(rule) /\ Printed(rule, v) = Printed(rule, old)
  \/ BelowThreshold(rule, old, v)

\* A reading that fell outside min_interval_ms is what subscribers have, or
\* within the deadband of it: many small changes do not add up unnoticed.
PictureCurrent ==
  read.seen /\ read.at - shown.at >= rule.minInterval => Stands(shown.value, read.value)

\* After a poll the last message is not older than max_interval_ms.
HeartbeatKept ==
  read.seen /\ rule.maxInterval > 0 => read.at - shown.at < rule.maxInterval

\* Between two messages of a session there is min_interval_ms, or the
\* heartbeat was due.
PaceKept ==
  [][shown.seen /\ shown'.seen /\ shown' # shown =>
       \/ now - shown.at >= rule.minInterval
       \/ rule.maxInterval > 0 /\ now - shown.at >= rule.maxInterval]_vars
=============================================================================
