---------------------------- MODULE PublishProofs ----------------------------
(***************************************************************************)
(* What the publish decision keeps true for every set of keys, every       *)
(* series of readings and any length of run: the picture subscribers have, *)
(* the heartbeat and the pace.                                             *)
(***************************************************************************)
EXTENDS Publish, TLAPS

Known == Int \cup {NotAvailable}
Sights == [seen : BOOLEAN, value : Known, at : Nat]

\* The channel remembers the message its subscribers have seen last, which
\* is all it needs: nothing was sent later than now, and whatever was read
\* in this session, something was shown before.
Faithful ==
  /\ rule \in Rules
  /\ now \in Nat
  /\ shown \in Sights
  /\ read \in Sights
  /\ shown.at <= now
  /\ chan = [published |-> shown.seen, value |-> shown.value, at |-> shown.at]
  /\ read.seen => shown.seen

PublishInv == Faithful /\ PictureCurrent /\ HeartbeatKept

-----------------------------------------------------------------------------
(***************************************************************************)
(* The decision.                                                           *)
(***************************************************************************)

\* A reading that is not sent came too soon or makes no difference, and no
\* heartbeat was due.
LEMMA HeldBack ==
  ASSUME Faithful, NEW v, ~Decide(rule, chan, v, now)
  PROVE  /\ shown.seen
         /\ rule.maxInterval > 0 => now - shown.at < rule.maxInterval
         /\ now - shown.at >= rule.minInterval => Stands(shown.value, v)
<1> rule.minInterval \in Nat /\ rule.maxInterval \in Nat
  BY DEF Faithful, Rules
<1> now \in Nat /\ shown.at \in Nat
  BY DEF Faithful, Sights
<1>1. chan.published = shown.seen /\ chan.value = shown.value /\ chan.at = shown.at
  BY DEF Faithful
<1>2. chan.published /\ ~Heartbeat(rule, chan, now)
      /\ (TooSoon(rule, chan, now) \/ Negligible(rule, chan, v))
  BY DEF Decide
<1>3. rule.maxInterval > 0 => now - shown.at < rule.maxInterval
  BY <1>1, <1>2 DEF Heartbeat
<1>4. ASSUME now - shown.at >= rule.minInterval
      PROVE  Stands(shown.value, v)
  <2>1. ~TooSoon(rule, chan, now)
    BY <1>1, <1>4 DEF TooSoon
  <2>2. QED
    BY <2>1, <1>1, <1>2 DEF Negligible, Stands
<1>5. QED
  BY <1>1, <1>2, <1>3, <1>4

\* A reading that is sent after another one kept its distance, or was due.
LEMMA SentInPace ==
  ASSUME Faithful, NEW v, Decide(rule, chan, v, now), shown.seen
  PROVE  \/ now - shown.at >= rule.minInterval
         \/ rule.maxInterval > 0 /\ now - shown.at >= rule.maxInterval
<1> rule.minInterval \in Nat /\ rule.maxInterval \in Nat
  BY DEF Faithful, Rules
<1> now \in Nat /\ shown.at \in Nat /\ shown.at <= now
  BY DEF Faithful, Sights
<1>1. chan.published /\ chan.at = shown.at
  BY DEF Faithful
<1>2. Heartbeat(rule, chan, now) \/ ~TooSoon(rule, chan, now)
  BY <1>1 DEF Decide
<1>3. QED
  BY <1>1, <1>2 DEF Heartbeat, TooSoon

-----------------------------------------------------------------------------
LEMMA PublishInvInit == Init => PublishInv
<1> SUFFICES ASSUME Init PROVE PublishInv
  OBVIOUS
<1>1. rule \in Rules
  BY PublishAssumption DEF Init
<1>2. read = Nothing /\ shown = Nothing /\ Nothing \in Sights /\ ~Nothing.seen
  BY DEF Init, Nothing, Sights, Known
<1>3. Faithful
  BY <1>1, <1>2 DEF Init, Faithful, Unpublished, Nothing
<1>4. QED
  BY <1>2, <1>3 DEF PublishInv, PictureCurrent, HeartbeatKept

LEMMA PollPublishInv ==
  ASSUME PublishInv, NEW v \in Readings, Poll(v)
  PROVE  PublishInv'
<1> Faithful
  BY DEF PublishInv
<1>1. rule' = rule /\ now' = now /\ read' = Seen(v) /\ now \in Nat
  BY DEF Poll, Faithful
<1>2. Seen(v) \in Sights /\ Seen(v).seen /\ Seen(v).value = v /\ Seen(v).at = now
  BY <1>1, PublishAssumption DEF Seen, Sights, Known
<1>3. CASE Decide(rule, chan, v, now)
  <2>1. shown' = Seen(v) /\ chan' = Record(v, now)
    BY <1>3 DEF Poll, Recorded
  <2>2. Faithful'
    <3>1. chan' = [published |-> shown'.seen, value |-> shown'.value, at |-> shown'.at]
      BY <1>2, <2>1 DEF Record
    <3>2. shown' \in Sights /\ read' \in Sights /\ shown'.at = now' /\ shown'.seen
      BY <1>1, <1>2, <2>1
    <3>3. rule' \in Rules /\ now' \in Nat
      BY <1>1 DEF Faithful
    <3>4. shown'.at <= now'
      BY <3>2, <3>3
    <3>5. QED
      BY <3>1, <3>2, <3>3, <3>4 DEF Faithful
  <2>3. PictureCurrent'
    BY <1>1, <1>2, <2>1 DEF PictureCurrent, Stands
  <2>4. HeartbeatKept'
    BY <1>1, <1>2, <2>1 DEF HeartbeatKept
  <2>5. QED
    BY <2>2, <2>3, <2>4 DEF PublishInv
<1>4. CASE ~Decide(rule, chan, v, now)
  <2>1. shown' = shown /\ chan' = chan
    BY <1>4 DEF Poll, Recorded
  <2>2. Faithful'
    BY <1>1, <1>2, <1>4, <2>1, HeldBack DEF Faithful
  <2>3. PictureCurrent'
    BY <1>1, <1>2, <1>4, <2>1, HeldBack DEF PictureCurrent, Stands
  <2>4. HeartbeatKept'
    BY <1>1, <1>2, <1>4, <2>1, HeldBack DEF HeartbeatKept
  <2>5. QED
    BY <2>2, <2>3, <2>4 DEF PublishInv
<1>5. QED
  BY <1>3, <1>4

LEMMA PublishInvNext == PublishInv /\ [Next]_vars => PublishInv'
<1> SUFFICES ASSUME PublishInv, [Next]_vars PROVE PublishInv'
  OBVIOUS
<1> USE DEF PublishInv, Faithful
<1>1. CASE \E v \in Readings : Poll(v)
  BY <1>1, PollPublishInv
<1>2. CASE ResetPublishState
  <2>1. read' = Nothing /\ shown' = Nothing /\ Nothing \in Sights /\ ~Nothing.seen
    BY <1>2 DEF ResetPublishState, Nothing, Sights, Known
  <2>2. Faithful'
    BY <1>2, <2>1 DEF ResetPublishState, Unpublished, Nothing
  <2>3. QED
    BY <2>1, <2>2 DEF PictureCurrent, HeartbeatKept
<1>3. CASE Tick
  <2>1. Faithful'
    BY <1>3 DEF Tick, Sights
  <2>2. PictureCurrent' /\ HeartbeatKept'
    BY <1>3 DEF Tick, PictureCurrent, HeartbeatKept, Stands
  <2>3. QED
    BY <2>1, <2>2
<1>4. CASE UNCHANGED vars
  BY <1>4 DEF vars, PictureCurrent, HeartbeatKept, Stands
<1>5. QED
  BY <1>1, <1>2, <1>3, <1>4 DEF Next

-----------------------------------------------------------------------------
\* The decision works on what was really shown (publish_decide() reads
\* last_value and last_publish_ms, which only a message sets), so whatever is
\* read outside min_interval_ms stands for the last message a subscriber saw.
THEOREM PictureCurrentProved == Spec => []PictureCurrent
<1>1. PublishInv => PictureCurrent
  BY DEF PublishInv
<1>2. QED
  BY <1>1, PublishInvInit, PublishInvNext, PTL DEF Spec

\* No poll leaves a message standing for max_interval_ms, even with a pace
\* that is slower than the heartbeat.
THEOREM HeartbeatKeptProved == Spec => []HeartbeatKept
<1>1. PublishInv => HeartbeatKept
  BY DEF PublishInv
<1>2. QED
  BY <1>1, PublishInvInit, PublishInvNext, PTL DEF Spec

\* Two messages of a session are min_interval_ms apart, unless the heartbeat
\* called for the second.
THEOREM PaceKeptProved == Spec => PaceKept
<1>1. ASSUME PublishInv, [Next]_vars
      PROVE  [shown.seen /\ shown'.seen /\ shown' # shown =>
                \/ now - shown.at >= rule.minInterval
                \/ rule.maxInterval > 0 /\ now - shown.at >= rule.maxInterval]_vars
  <2> SUFFICES ASSUME shown.seen, shown'.seen, shown' # shown
               PROVE  \/ now - shown.at >= rule.minInterval
                      \/ rule.maxInterval > 0 /\ now - shown.at >= rule.maxInterval
    OBVIOUS
  <2>1. ~ResetPublishState
    BY DEF ResetPublishState, Nothing
  <2>2. PICK v \in Readings : Poll(v)
    BY <1>1, <2>1 DEF Next, Tick, vars
  <2>3. Decide(rule, chan, v, now)
    BY <2>2 DEF Poll
  <2>4. QED
    BY <1>1, <2>3, SentInPace DEF PublishInv
<1>2. QED
  BY <1>1, PublishInvInit, PublishInvNext, PTL DEF Spec, PaceKept
=============================================================================
