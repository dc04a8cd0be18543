---------------------------- MODULE RoundsProofs ----------------------------
(***************************************************************************)
(* Proofs about Rounds, for every round list, backoff cap and round        *)
(* interval: the state stays well typed, the backoff of every slave stays  *)
(* within its bounds, a round reads no input twice, and a probe is the     *)
(* only poll its slave has in a round and goes out only when it is due.    *)
(***************************************************************************)
EXTENDS Rounds, FiniteSetTheorems, SequenceTheorems, TLAPS

\* A sequence that names nothing twice, and what it names.
Distinct(q) == \A j, k \in DOMAIN q : q[j] = q[k] => j = k
Members(q) == {q[k] : k \in DOMAIN q}

\* The inductive invariant.
RoundsInv == TypeOK /\ BackoffBounded /\ ProbeAlone /\ ReadOncePerRound

-----------------------------------------------------------------------------
(***************************************************************************)
(* The backoff, for every cap and first value.                             *)
(***************************************************************************)

\* A missed answer keeps the backoff of a slave well typed and in its bounds,
\* and a slave it leaves unresponsive is not due.
LEMMA MissedBounded ==
  ASSUME NEW h \in Health, Bounded(h)
  PROVE  /\ Missed(h) \in Health /\ Bounded(Missed(h))
         /\ Missed(h).unresponsive => Missed(h) = h \/ Missed(h).left # 0
<1> USE PollingAssumption DEF Health, Bounded, MissMax, Lesser
<1>1. RetryMax \in Nat
  OBVIOUS
<1>2. CASE RetryMax = 0
  BY <1>2 DEF Missed
<1>3. CASE RetryMax # 0 /\ h.unresponsive
  <2>1. PICK r \in 0..RetryMax : r = Lesser(2 * h.retry, RetryMax)
    BY <1>1, <1>3
  <2>2. Missed(h) = [misses |-> 3, unresponsive |-> TRUE, retry |-> r, left |-> r]
    BY <1>3, <2>1 DEF Missed
  <2>3. Lesser(RetryFirst, RetryMax) <= r /\ r # 0
    BY <1>1, <1>3, <2>1
  <2>4. Missed(h) \in Health /\ Bounded(Missed(h))
    BY <1>1, <2>1, <2>2, <2>3
  <2> QED
    BY <2>2, <2>3, <2>4
<1>4. CASE RetryMax # 0 /\ ~h.unresponsive /\ h.misses + 1 < 3
  <2>1. Missed(h) = [h EXCEPT !.misses = h.misses + 1]
    BY <1>4 DEF Missed
  <2>2. Missed(h) = [misses |-> h.misses + 1, unresponsive |-> h.unresponsive,
                     retry |-> h.retry, left |-> h.left]
    BY <2>1
  <2>3. h.misses + 1 \in 0..3
    BY <1>4
  <2> QED
    BY <1>4, <2>2, <2>3
<1>5. CASE RetryMax # 0 /\ ~h.unresponsive /\ ~(h.misses + 1 < 3)
  <2>1. PICK r \in 0..RetryMax : r = Lesser(RetryFirst, RetryMax)
    BY <1>1
  <2>2. Missed(h) = [misses |-> 3, unresponsive |-> TRUE, retry |-> r, left |-> r]
    BY <1>5, <2>1 DEF Missed
  <2>3. Missed(h) \in Health /\ Bounded(Missed(h))
    BY <1>1, <2>1, <2>2
  <2>4. r # 0
    BY <1>1, <1>5, <2>1
  <2> QED
    BY <2>2, <2>3, <2>4
<1> QED
  BY <1>2, <1>3, <1>4, <1>5

\* An answer ends the backoff.
LEMMA HealthyBounded == Healthy \in Health /\ Bounded(Healthy)
BY PollingAssumption DEF Healthy, Health, Bounded, MissMax

\* Posting a probe restarts the delay within its bounds.
LEMMA ProbeBounded ==
  ASSUME NEW h \in Health, Bounded(h)
  PROVE  [h EXCEPT !.left = h.retry] \in Health /\ Bounded([h EXCEPT !.left = h.retry])
BY PollingAssumption DEF Health, Bounded, MissMax, Lesser

\* Time shortens the delays and keeps them within their bounds.
LEMMA TickBounded ==
  ASSUME NEW h \in Health, Bounded(h)
  PROVE  /\ [h EXCEPT !.left = LessOne(@)] \in Health
         /\ Bounded([h EXCEPT !.left = LessOne(@)])
BY PollingAssumption DEF Health, Bounded, MissMax, Lesser, LessOne

-----------------------------------------------------------------------------
(***************************************************************************)
(* Sequences of polls.                                                     *)
(***************************************************************************)

\* What the concatenation of two sequences has where.
LEMMA ConcatAt ==
  ASSUME NEW S, NEW p \in Seq(S), NEW q \in Seq(S), NEW k \in DOMAIN (p \o q)
  PROVE  \/ k \in DOMAIN p /\ (p \o q)[k] = p[k]
         \/ k - Len(p) \in DOMAIN q /\ (p \o q)[k] = q[k - Len(p)]
OBVIOUS

\* Two sequences without repetition and without a common member make one
\* sequence without repetition, of the members of both.
LEMMA ConcatDistinct ==
  ASSUME NEW S, NEW p \in Seq(S), NEW q \in Seq(S), Distinct(p), Distinct(q),
         Members(p) \cap Members(q) = {}
  PROVE  /\ p \o q \in Seq(S)
         /\ Distinct(p \o q)
         /\ Members(p \o q) \subseteq Members(p) \cup Members(q)
<1>1. ASSUME NEW j \in DOMAIN (p \o q), NEW k \in DOMAIN (p \o q), (p \o q)[j] = (p \o q)[k]
      PROVE  j = k
  <2>1. CASE j \in DOMAIN p /\ (p \o q)[j] = p[j] /\ k \in DOMAIN p /\ (p \o q)[k] = p[k]
    BY <1>1, <2>1 DEF Distinct
  <2>2. CASE /\ j - Len(p) \in DOMAIN q /\ (p \o q)[j] = q[j - Len(p)]
             /\ k - Len(p) \in DOMAIN q /\ (p \o q)[k] = q[k - Len(p)]
    <3>1. j - Len(p) = k - Len(p)
      BY <1>1, <2>2 DEF Distinct
    <3> QED
      BY <3>1
  <2>3. CASE /\ j \in DOMAIN p /\ (p \o q)[j] = p[j]
             /\ k - Len(p) \in DOMAIN q /\ (p \o q)[k] = q[k - Len(p)]
    BY <1>1, <2>3 DEF Members
  <2>4. CASE /\ k \in DOMAIN p /\ (p \o q)[k] = p[k]
             /\ j - Len(p) \in DOMAIN q /\ (p \o q)[j] = q[j - Len(p)]
    BY <1>1, <2>4 DEF Members
  <2> QED
    BY <2>1, <2>2, <2>3, <2>4, ConcatAt
<1>2. ASSUME NEW k \in DOMAIN (p \o q)
      PROVE  (p \o q)[k] \in Members(p) \cup Members(q)
  BY ConcatAt DEF Members
<1> QED
  BY <1>1, <1>2 DEF Distinct, Members

\* A batch in list order names no place twice, and only places of its set.
LEMMA OrderedDistinct ==
  ASSUME NEW D, NEW n \in Nat, D = 1..n, NEW S \in SUBSET D, NEW q \in InListOrder(S)
  PROVE  q \in Seq(D) /\ Distinct(q) /\ Members(q) \subseteq S
<1>0. IsFiniteSet(D) /\ D \subseteq Nat
  BY FS_Interval
<1>1. Cardinality(S) \in Nat
  BY <1>0, FS_Subset, FS_CardinalityType
<1>2. q \in [1..Cardinality(S) -> S] /\ \A i, j \in DOMAIN q : i < j => q[i] < q[j]
  BY DEF InListOrder
<1>3. q \in Seq(D) /\ DOMAIN q \subseteq Nat
  <2>1. PICK m \in Nat : m = Cardinality(S)
    BY <1>1
  <2>2. q \in [1..m -> D]
    BY <1>2, <2>1
  <2> QED
    BY <2>1, <2>2
<1>4. ASSUME NEW i \in DOMAIN q, NEW j \in DOMAIN q, q[i] = q[j]
      PROVE  i = j
  <2>1. i \in Nat /\ j \in Nat /\ q[i] \in Nat /\ q[j] \in Nat
    BY <1>0, <1>2, <1>3
  <2>2. ~(i < j) /\ ~(j < i)
    BY <1>2, <1>4, <2>1
  <2> QED
    BY <2>1, <2>2
<1> QED
  BY <1>2, <1>3, <1>4 DEF Distinct, Members

-----------------------------------------------------------------------------
(***************************************************************************)
(* A round.                                                                *)
(***************************************************************************)

\* Posting a probe restarts the delay within its bounds.
LEMMA ProbedBounded ==
  ASSUME NEW h \in [Slaves -> Health], \A s \in Slaves : Bounded(h[s]), NEW P
  PROVE  /\ Probed(h, P) \in [Slaves -> Health]
         /\ \A s \in Slaves : Bounded(Probed(h, P)[s])
<1> SUFFICES ASSUME NEW s \in Slaves
             PROVE  /\ Probed(h, P)[s] \in Health
                    /\ Bounded(Probed(h, P)[s])
  BY DEF Probed
<1>1. h[s] \in Health /\ Bounded(h[s])
  OBVIOUS
<1>2. PICK g \in Health : g = h[s]
  BY <1>1
<1>3. [g EXCEPT !.left = g.retry] \in Health /\ Bounded([g EXCEPT !.left = g.retry])
  BY <1>1, <1>2, ProbeBounded
<1>4. Probed(h, P)[s] = IF g.unresponsive /\ s \in SlavesOf(P) THEN [g EXCEPT !.left = g.retry] ELSE g
  BY <1>2 DEF Probed
<1> QED
  BY <1>1, <1>2, <1>3, <1>4

\* No two inputs of P have the same unresponsive slave.
OnePerDeadSlave(h, P) ==
  \A i, j \in P :
    h[Inputs[i].slave].unresponsive /\ Inputs[i].slave = Inputs[j].slave => i = j

\* All inputs of P that have an unresponsive slave are due.
AllDue(h, P) == \A i \in P : h[Inputs[i].slave].unresponsive => h[Inputs[i].slave].left = 0

\* What Postable lets through.
LEMMA PostableAlone ==
  ASSUME NEW h, NEW T \in SUBSET (DOMAIN Inputs), NEW probed
  PROVE  /\ Postable(h, T, probed) \subseteq T
         /\ OnePerDeadSlave(h, Postable(h, T, probed))
         /\ AllDue(h, Postable(h, T, probed))
         /\ \A i \in Postable(h, T, probed) :
              h[Inputs[i].slave].unresponsive => Inputs[i].slave \notin probed
<1>1. Postable(h, T, probed) \subseteq T
  BY DEF Postable
<1>2. ASSUME NEW i \in Postable(h, T, probed), NEW j \in Postable(h, T, probed),
             h[Inputs[i].slave].unresponsive, Inputs[i].slave = Inputs[j].slave
      PROVE  i = j
  <2>1. i \in Nat /\ j \in Nat
    BY <1>1, RoundsAssumption
  <2>2. i <= j /\ j <= i
    BY <1>2 DEF Postable
  <2> QED
    BY <2>1, <2>2
<1>3. \A i \in Postable(h, T, probed) :
        h[Inputs[i].slave].unresponsive => Inputs[i].slave \notin probed
  BY DEF Postable
<1>4. AllDue(h, Postable(h, T, probed))
  BY DEF Postable, AllDue
<1>5. OnePerDeadSlave(h, Postable(h, T, probed))
  BY <1>2 DEF OnePerDeadSlave
<1> QED
  BY <1>1, <1>3, <1>4, <1>5

\* The polls of a round: each input once, a probe alone, and only when due.
LEMMA RoundPolls ==
  ASSUME TypeOK, NEW h \in [Slaves -> Health], NEW turn \in DeepSlaves \cup {NoSlave},
         StartRound(h, <<>>, turn)
  PROVE  /\ queue' \in Seq([input : DOMAIN Inputs, probe : BOOLEAN])
         /\ \A j, k \in DOMAIN queue' : queue'[j].input = queue'[k].input => j = k
         /\ \A j, k \in DOMAIN queue' :
              queue'[j].probe /\ Inputs[queue'[k].input].slave = Inputs[queue'[j].input].slave => j = k
         /\ \A k \in DOMAIN queue' :
              queue'[k].probe => LET s == Inputs[queue'[k].input].slave
                                 IN h[s].unresponsive /\ h[s].left = 0
         /\ \E P : health' = Probed(h, P)
<1> DEFINE fast == Postable(h, Fast, {})
           deep == Postable(h, DeepOf(turn), SlavesOf(fast))
           extra == Postable(h, FocusInputs(turn), SlavesOf(fast \cup deep))
<1>0. /\ fast = Postable(h, Fast, {})
      /\ deep = Postable(h, DeepOf(turn), SlavesOf(fast))
      /\ extra = Postable(h, FocusInputs(turn), SlavesOf(fast \cup deep))
  OBVIOUS
<1>2. /\ \E f \in InListOrder(fast), d \in InListOrder(deep), e \in InListOrder(extra) :
           queue' = <<>> \o Polls(h, f \o d \o e)
      /\ health' = Probed(h, fast \cup deep \cup extra)
  BY DEF StartRound
<1> HIDE DEF fast, deep, extra
<1>1. /\ {fast, deep, extra} \subseteq SUBSET (DOMAIN Inputs)
      /\ fast \cap deep = {} /\ (fast \cup deep) \cap extra = {}
      /\ OnePerDeadSlave(h, fast \cup deep \cup extra)
      /\ AllDue(h, fast \cup deep \cup extra)
  <2>1. /\ {Fast, DeepOf(turn), FocusInputs(turn)} \subseteq SUBSET (DOMAIN Inputs)
        /\ Fast \cap DeepOf(turn) = {} /\ Fast \cap FocusInputs(turn) = {}
        /\ DeepOf(turn) \cap FocusInputs(turn) = {}
    BY DEF Fast, DeepOf, FocusInputs
  <2>2. fast \subseteq Fast /\ deep \subseteq DeepOf(turn) /\ extra \subseteq FocusInputs(turn)
    BY <1>0, <2>1, PostableAlone
  <2>3. /\ \A b \in deep : h[Inputs[b].slave].unresponsive => Inputs[b].slave \notin SlavesOf(fast)
        /\ \A b \in extra : h[Inputs[b].slave].unresponsive => Inputs[b].slave \notin SlavesOf(fast \cup deep)
    BY <1>0, <2>1, PostableAlone
  <2>4. /\ OnePerDeadSlave(h, fast) /\ AllDue(h, fast)
        /\ OnePerDeadSlave(h, deep) /\ AllDue(h, deep)
        /\ OnePerDeadSlave(h, extra) /\ AllDue(h, extra)
    BY <1>0, <2>1, PostableAlone
  <2>5. ASSUME NEW i \in fast \cup deep \cup extra, NEW j \in fast \cup deep \cup extra,
               h[Inputs[i].slave].unresponsive, Inputs[i].slave = Inputs[j].slave
        PROVE  i = j
    <3>1. CASE (i \in fast /\ j \in fast) \/ (i \in deep /\ j \in deep) \/ (i \in extra /\ j \in extra)
      BY <2>4, <2>5, <3>1 DEF OnePerDeadSlave
    <3>2. CASE (i \in extra /\ j \in fast \cup deep) \/ (j \in extra /\ i \in fast \cup deep)
      BY <2>3, <2>5, <3>2 DEF SlavesOf
    <3>3. CASE (i \in deep /\ j \in fast) \/ (j \in deep /\ i \in fast)
      <4>1. ASSUME NEW a \in fast, NEW b \in deep, h[Inputs[b].slave].unresponsive
            PROVE  Inputs[a].slave # Inputs[b].slave
        BY <2>3, <4>1 DEF SlavesOf
      <4> QED
        BY <2>5, <3>3, <4>1
    <3> QED
      BY <2>5, <3>1, <3>2, <3>3
  <2>6. /\ {fast, deep, extra} \subseteq SUBSET (DOMAIN Inputs)
        /\ fast \cap deep = {} /\ (fast \cup deep) \cap extra = {}
    BY <2>1, <2>2
  <2>7. OnePerDeadSlave(h, fast \cup deep \cup extra)
    BY <2>5 DEF OnePerDeadSlave
  <2>8. AllDue(h, fast \cup deep \cup extra)
    BY <2>4 DEF AllDue
  <2> QED
    BY <2>6, <2>7, <2>8
<1>3. PICK f \in InListOrder(fast) : \E d \in InListOrder(deep), e \in InListOrder(extra) :
           queue' = <<>> \o Polls(h, f \o d \o e)
  BY <1>2
<1>4. PICK d \in InListOrder(deep), e \in InListOrder(extra) :
           queue' = <<>> \o Polls(h, f \o d \o e)
  BY <1>3
<1>5. /\ f \in Seq(DOMAIN Inputs) /\ Distinct(f) /\ Members(f) \subseteq fast
      /\ d \in Seq(DOMAIN Inputs) /\ Distinct(d) /\ Members(d) \subseteq deep
      /\ e \in Seq(DOMAIN Inputs) /\ Distinct(e) /\ Members(e) \subseteq extra
  <2>1. DOMAIN Inputs = 1..Len(Inputs) /\ Len(Inputs) \in Nat
    BY RoundsAssumption
  <2> QED
    BY <1>1, <2>1, OrderedDistinct
<1>6. f \o d \in Seq(DOMAIN Inputs) /\ Distinct(f \o d) /\ Members(f \o d) \subseteq fast \cup deep
  BY <1>1, <1>5, ConcatDistinct
<1>7. PICK q : q = (f \o d) \o e
  OBVIOUS
<1>8. q \in Seq(DOMAIN Inputs) /\ Distinct(q) /\ Members(q) \subseteq fast \cup deep \cup extra
  <2>1. Members(f \o d) \cap Members(e) = {}
    BY <1>1, <1>5, <1>6
  <2>2. /\ (f \o d) \o e \in Seq(DOMAIN Inputs) /\ Distinct((f \o d) \o e)
        /\ Members((f \o d) \o e) \subseteq Members(f \o d) \cup Members(e)
    BY <1>5, <1>6, <2>1, ConcatDistinct
  <2> QED
    BY <1>5, <1>6, <1>7, <2>2
<1>9. Polls(h, q) \in Seq([input : DOMAIN Inputs, probe : BOOLEAN])
  <2>1. \A k \in 1..Len(q) : q[k] \in DOMAIN Inputs /\ Inputs[q[k]].slave \in Slaves
    BY <1>8 DEF Slaves
  <2>2. \A s \in Slaves : h[s].unresponsive \in BOOLEAN
    BY DEF Health
  <2>3. \A k \in 1..Len(q) : h[Inputs[q[k]].slave].unresponsive \in BOOLEAN
    BY <2>1, <2>2
  <2> QED
    BY <1>8, <2>1, <2>3 DEF Polls
<1>10. queue' = Polls(h, q)
  BY <1>4, <1>7, <1>9
<1>11. /\ DOMAIN queue' = DOMAIN q
       /\ \A k \in DOMAIN q : /\ q[k] \in fast \cup deep \cup extra
                              /\ queue'[k].input = q[k]
                              /\ queue'[k].probe = h[Inputs[q[k]].slave].unresponsive
  BY <1>8, <1>10 DEF Polls, Members
<1>12. \A j, k \in DOMAIN queue' : queue'[j].input = queue'[k].input => j = k
  BY <1>8, <1>11 DEF Distinct
<1>13. ASSUME NEW j \in DOMAIN queue', NEW k \in DOMAIN queue', queue'[j].probe,
              Inputs[queue'[k].input].slave = Inputs[queue'[j].input].slave
       PROVE  j = k
  <2>1. q[j] = q[k]
    BY <1>1, <1>11, <1>13 DEF OnePerDeadSlave
  <2> QED
    BY <1>8, <1>11, <2>1 DEF Distinct
<1>14. \A k \in DOMAIN queue' :
         queue'[k].probe => LET s == Inputs[queue'[k].input].slave
                            IN h[s].unresponsive /\ h[s].left = 0
  BY <1>1, <1>11 DEF AllDue
<1> QED
  BY <1>2, <1>9, <1>10, <1>12, <1>13, <1>14

-----------------------------------------------------------------------------
(***************************************************************************)
(* The invariant.                                                          *)
(***************************************************************************)

\* Taking the head off keeps what holds of the queue.
LEMMA TailKeeps ==
  ASSUME RoundsInv, queue # <<>>
  PROVE  /\ HeadSlave \in Slaves /\ Head(queue) \in [input : DOMAIN Inputs, probe : BOOLEAN]
         /\ Tail(queue) \in Seq([input : DOMAIN Inputs, probe : BOOLEAN])
         /\ \A k \in DOMAIN Tail(queue) : k + 1 \in DOMAIN queue /\ Tail(queue)[k] = queue[k + 1]
<1>1. queue \in Seq([input : DOMAIN Inputs, probe : BOOLEAN])
  BY DEF RoundsInv, TypeOK
<1>2. Head(queue) \in [input : DOMAIN Inputs, probe : BOOLEAN]
  BY <1>1, HeadTailProperties
<1>3. HeadSlave \in Slaves
  BY <1>2 DEF HeadSlave, Slaves
<1> QED
  BY <1>1, <1>2, <1>3

\* ProbeAlone and ReadOncePerRound are kept by a step that takes the head off.
LEMMA TailStep ==
  ASSUME RoundsInv, queue # <<>>, queue' = Tail(queue), active' = active
  PROVE  ProbeAlone' /\ ReadOncePerRound' /\ (queue \in Seq([input : DOMAIN Inputs, probe : BOOLEAN]))'
<1>1. ASSUME NEW j \in DOMAIN queue', NEW k \in DOMAIN queue'
      PROVE  /\ j + 1 \in DOMAIN queue /\ queue'[j] = queue[j + 1]
             /\ k + 1 \in DOMAIN queue /\ queue'[k] = queue[k + 1]
             /\ j + 1 = k + 1 => j = k
  BY TailKeeps DEF RoundsInv, TypeOK
<1>2. ProbeAlone'
  BY <1>1 DEF RoundsInv, ProbeAlone
<1>3. ReadOncePerRound'
  BY <1>1 DEF RoundsInv, ReadOncePerRound
<1> QED
  BY <1>2, <1>3, TailKeeps

LEMMA InitInv == Init => RoundsInv
<1> SUFFICES ASSUME Init PROVE RoundsInv
  OBVIOUS
<1>1. TypeOK /\ BackoffBounded
  <2>1. health \in [Slaves -> Health] /\ BackoffBounded
    BY HealthyBounded DEF Init, BackoffBounded
  <2>2. queue \in Seq([input : DOMAIN Inputs, probe : BOOLEAN])
    BY DEF Init
  <2>3. roundLeft \in 0..RoundInterval
    BY RoundsAssumption DEF Init
  <2> QED
    BY <2>1, <2>2, <2>3 DEF Init, TypeOK
<1>2. ProbeAlone /\ ReadOncePerRound
  BY DEF Init, ProbeAlone, ReadOncePerRound
<1> QED
  BY <1>1, <1>2 DEF RoundsInv

\* The event loop's call: an eviction, the end of a round, the next one.
LEMMA LoopPrepareInv ==
  ASSUME RoundsInv, NEW evict \in BOOLEAN, LoopPrepare(evict)
  PROVE  /\ RoundsInv'
         /\ \A s \in Slaves : ~Probing(queue, s) /\ Probing(queue', s)
                                => health[s].unresponsive /\ health[s].left = 0
<1> DEFINE Poll == [input : DOMAIN Inputs, probe : BOOLEAN]
<1>1. PICK q : q = IF evict THEN Tail(queue) ELSE queue
  OBVIOUS
<1>2. PICK h : h = IF evict THEN [health EXCEPT ![HeadSlave] = Missed(@)] ELSE health
  OBVIOUS
<1>3. IF ~RoundOpen(q) /\ roundLeft = 0
      THEN \E turn \in DeepTurn(h) : StartRound(h, q, turn)
      ELSE queue' = q /\ health' = h /\ active' = RoundOpen(q) /\ UNCHANGED <<roundLeft, deepSlave>>
  BY <1>1, <1>2 DEF LoopPrepare
<1>4. evict => queue # <<>>
  BY DEF LoopPrepare
<1>5. TypeOK /\ (\A s \in Slaves : Bounded(health[s])) /\ (queue # <<>> => active)
  BY DEF RoundsInv, BackoffBounded, ReadOncePerRound
<1>6. /\ h \in [Slaves -> Health]
      /\ \A s \in Slaves : Bounded(h[s])
      /\ \A s \in Slaves : h[s].unresponsive /\ h[s].left = 0 => h[s] = health[s]
  <2>1. CASE ~evict
    BY <1>2, <1>5, <2>1 DEF TypeOK
  <2>2. CASE evict
    <3>1. HeadSlave \in Slaves /\ health \in [Slaves -> Health]
      BY <1>4, <1>5, <2>2, TailKeeps DEF TypeOK
    <3>2. PICK m : m = Missed(health[HeadSlave])
      OBVIOUS
    <3>3. h = [health EXCEPT ![HeadSlave] = m]
      BY <1>2, <2>2, <3>2
    <3>4. m \in Health /\ Bounded(m) /\ (m.unresponsive => m = health[HeadSlave] \/ m.left # 0)
      BY <1>5, <3>1, <3>2, MissedBounded
    <3> QED
      BY <1>5, <3>1, <3>3, <3>4
  <2> QED
    BY <2>1, <2>2
<1>7. CASE ~RoundOpen(q) /\ roundLeft = 0
  <2>1. q = <<>>
    <3>1. q # <<>> => queue # <<>>
      BY <1>1, <1>4
    <3> QED
      BY <1>5, <1>7, <3>1 DEF RoundOpen
  <2>2. PICK turn \in DeepTurn(h) : StartRound(h, <<>>, turn)
    BY <1>3, <1>7, <2>1
  <2>3. turn \in DeepSlaves \cup {NoSlave}
    BY DEF DeepTurn, Earliest, Eligible
  <2>4. /\ queue' \in Seq(Poll)
        /\ \A j, k \in DOMAIN queue' : queue'[j].input = queue'[k].input => j = k
        /\ \A j, k \in DOMAIN queue' :
             queue'[j].probe /\ Inputs[queue'[k].input].slave = Inputs[queue'[j].input].slave => j = k
        /\ \A k \in DOMAIN queue' :
             queue'[k].probe => LET s == Inputs[queue'[k].input].slave
                                IN h[s].unresponsive /\ h[s].left = 0
    BY <1>5, <1>6, <2>2, <2>3, RoundPolls
  <2>5. PICK P : health' = Probed(h, P)
    BY <1>5, <1>6, <2>2, <2>3, RoundPolls
  <2>6. health' \in [Slaves -> Health] /\ BackoffBounded'
    BY <1>6, <2>5, ProbedBounded DEF BackoffBounded
  <2>7. active' = TRUE /\ roundLeft' = RoundInterval /\ deepSlave' \in {deepSlave, turn}
        /\ UNCHANGED <<done, focus, connected, troubled>>
    BY <2>2 DEF StartRound, LoopPrepare
  <2>8. TypeOK'
    BY <1>5, <2>3, <2>4, <2>6, <2>7, RoundsAssumption DEF TypeOK
  <2>9. ProbeAlone' /\ ReadOncePerRound'
    BY <2>4, <2>7 DEF ProbeAlone, ReadOncePerRound
  <2>10. \A s \in Slaves : Probing(queue', s) => h[s].unresponsive /\ h[s].left = 0
    BY <2>4 DEF Probing
  <2> QED
    BY <1>6, <2>6, <2>8, <2>9, <2>10 DEF RoundsInv
<1>8. CASE ~(~RoundOpen(q) /\ roundLeft = 0)
  <2>1. /\ queue' = q /\ health' = h /\ active' = RoundOpen(q)
        /\ UNCHANGED <<roundLeft, deepSlave, done, focus, connected, troubled>>
    BY <1>3, <1>8 DEF LoopPrepare
  <2>2. ASSUME NEW j \in DOMAIN queue', NEW k \in DOMAIN queue'
        PROVE  \E a, b \in DOMAIN queue : /\ queue'[j] = queue[a] /\ queue'[k] = queue[b]
                                          /\ a = b => j = k
    <3>1. CASE ~evict
      BY <1>1, <2>1, <3>1
    <3>2. CASE evict
      <4>1. /\ j + 1 \in DOMAIN queue /\ queue'[j] = queue[j + 1]
            /\ k + 1 \in DOMAIN queue /\ queue'[k] = queue[k + 1]
        BY <1>1, <1>4, <2>1, <3>2, TailKeeps
      <4>2. j \in Nat /\ k \in Nat
        BY <1>1, <1>4, <1>5, <2>1, <3>2, TailKeeps
      <4> QED
        BY <4>1, <4>2
    <3> QED
      BY <3>1, <3>2
  <2>3. queue' \in Seq(Poll)
    BY <1>1, <1>4, <1>5, <2>1, TailKeeps DEF TypeOK
  <2>4. active' \in BOOLEAN /\ (queue' # <<>> => active')
    <3>1. queue' # <<>> => queue # <<>>
      BY <1>1, <1>4, <2>1
    <3> QED
      BY <1>5, <2>1, <3>1 DEF RoundOpen
  <2>5. TypeOK' /\ BackoffBounded'
    BY <1>5, <1>6, <2>1, <2>3, <2>4 DEF TypeOK, BackoffBounded
  <2>6. ProbeAlone'
    BY <2>2 DEF RoundsInv, ProbeAlone
  <2>7. ReadOncePerRound'
    BY <2>2, <2>4 DEF RoundsInv, ReadOncePerRound
  <2>8. \A s \in Slaves : Probing(queue', s) => Probing(queue, s)
    BY <2>2 DEF Probing
  <2> QED
    BY <2>5, <2>6, <2>7, <2>8 DEF RoundsInv
<1> QED
  BY <1>7, <1>8

\* An answer, and what is neither an answer nor a miss.
LEMMA AnsweredInv ==
  ASSUME RoundsInv, NEW good \in BOOLEAN, Answered(good)
  PROVE  RoundsInv'
<1>1. /\ queue # <<>> /\ queue' = Tail(queue)
      /\ health' = [health EXCEPT ![HeadSlave] = Healthy]
      /\ UNCHANGED <<active, roundLeft, deepSlave, focus, connected, troubled>>
  BY DEF Answered
<1>2. /\ ProbeAlone' /\ ReadOncePerRound'
      /\ (queue \in Seq([input : DOMAIN Inputs, probe : BOOLEAN]))'
      /\ HeadSlave \in Slaves
  BY <1>1, TailStep, TailKeeps
<1>3. health' \in [Slaves -> Health] /\ BackoffBounded'
  BY <1>1, <1>2, HealthyBounded DEF RoundsInv, TypeOK, BackoffBounded
<1>4. done' \subseteq UNION {OnceOf(s) : s \in Slaves}
  BY <1>2 DEF Answered, Recovered, RoundsInv, TypeOK
<1>5. TypeOK'
  BY <1>1, <1>2, <1>3, <1>4 DEF RoundsInv, TypeOK
<1> QED
  BY <1>2, <1>3, <1>5 DEF RoundsInv

LEMMA RejectedInv ==
  ASSUME RoundsInv, Rejected
  PROVE  RoundsInv'
<1>1. /\ queue # <<>> /\ queue' = Tail(queue)
      /\ UNCHANGED <<health, done, active, roundLeft, deepSlave, focus, connected, troubled>>
  BY DEF Rejected
<1>2. /\ ProbeAlone' /\ ReadOncePerRound'
      /\ (queue \in Seq([input : DOMAIN Inputs, probe : BOOLEAN]))'
  BY <1>1, TailStep
<1>3. TypeOK' /\ BackoffBounded'
  BY <1>1, <1>2 DEF RoundsInv, TypeOK, BackoffBounded
<1> QED
  BY <1>2, <1>3 DEF RoundsInv

LEMMA LinkLostInv ==
  ASSUME RoundsInv, LinkLost
  PROVE  RoundsInv'
<1>1. /\ queue' = <<>> /\ done' = {} /\ connected' = FALSE
      /\ UNCHANGED <<health, active, roundLeft, deepSlave, focus, troubled>>
  BY DEF LinkLost
<1>2. ProbeAlone' /\ ReadOncePerRound'
  BY <1>1 DEF ProbeAlone, ReadOncePerRound
<1>3. (queue \in Seq([input : DOMAIN Inputs, probe : BOOLEAN]))'
  BY <1>1
<1>4. TypeOK' /\ BackoffBounded'
  BY <1>1, <1>3 DEF RoundsInv, TypeOK, BackoffBounded
<1> QED
  BY <1>2, <1>4 DEF RoundsInv

LEMMA TickInv ==
  ASSUME RoundsInv, Tick
  PROVE  RoundsInv'
<1>1. /\ health' = [s \in Slaves |-> [health[s] EXCEPT !.left = LessOne(@)]]
      /\ roundLeft' = LessOne(roundLeft)
      /\ UNCHANGED <<done, queue, active, deepSlave, focus, connected, troubled>>
  BY DEF Tick
<1>2. ASSUME NEW s \in Slaves
      PROVE  health'[s] \in Health /\ Bounded(health'[s])
  <2>1. health[s] \in Health /\ Bounded(health[s])
    BY DEF RoundsInv, TypeOK, BackoffBounded
  <2>2. health'[s] = [health[s] EXCEPT !.left = LessOne(@)]
    BY <1>1
  <2> QED
    BY <2>1, <2>2, TickBounded
<1>3. health' \in [Slaves -> Health] /\ BackoffBounded'
  BY <1>1, <1>2 DEF BackoffBounded
<1>4. roundLeft' \in 0..RoundInterval
  BY <1>1, RoundsAssumption DEF RoundsInv, TypeOK, LessOne
<1>5. TypeOK'
  BY <1>1, <1>3, <1>4 DEF RoundsInv, TypeOK
<1>6. ProbeAlone' /\ ReadOncePerRound'
  BY <1>1 DEF RoundsInv, ProbeAlone, ReadOncePerRound
<1> QED
  BY <1>3, <1>5, <1>6 DEF RoundsInv

\* The steps that leave the polls and the backoff alone.
LEMMA AsideInv ==
  ASSUME RoundsInv, UNCHANGED <<health, done, queue, active, roundLeft, deepSlave>>,
         focus' \in DeepSlaves \cup {NoSlave}, troubled' \subseteq Fallible,
         connected' \in BOOLEAN
  PROVE  RoundsInv'
BY DEF RoundsInv, TypeOK, BackoffBounded, ProbeAlone, ReadOncePerRound

\* A step keeps the invariant, and posts a probe only when it is due.
LEMMA RoundsInvStep ==
  ASSUME RoundsInv, [Next]_vars
  PROVE  /\ RoundsInv'
         /\ \A s \in Slaves : ~Probing(queue, s) /\ Probing(queue', s)
                                => health[s].unresponsive /\ health[s].left = 0
<1>1. CASE \E evict \in BOOLEAN : LoopPrepare(evict)
  BY <1>1, LoopPrepareInv
<1>2. CASE Rejected \/ \E good \in BOOLEAN : Answered(good)
  <2>1. RoundsInv' /\ queue # <<>> /\ queue' = Tail(queue)
    BY <1>2, AnsweredInv, RejectedInv DEF Rejected, Answered
  <2>2. \A s \in Slaves : Probing(queue', s) => Probing(queue, s)
    BY <2>1, TailKeeps DEF Probing
  <2> QED
    BY <2>1, <2>2
<1>3. CASE LinkLost
  <2>1. RoundsInv' /\ queue' = <<>>
    BY <1>3, LinkLostInv DEF LinkLost
  <2>2. \A s \in Slaves : ~Probing(queue', s)
    BY <2>1 DEF Probing
  <2> QED
    BY <2>1, <2>2
<1>4. CASE \E s \in Slaves \cup {NoSlave} : SetFocus(s)
  BY <1>4, AsideInv DEF SetFocus, RoundsInv, TypeOK
<1>5. CASE Tick
  BY <1>5, TickInv DEF Tick
<1>6. CASE \E s \in Fallible : FailOrRepair(s)
  <2>1. PICK s \in Fallible : FailOrRepair(s)
    BY <1>6
  <2>2. troubled' \subseteq Fallible
    BY <2>1 DEF FailOrRepair, RoundsInv, TypeOK
  <2> QED
    BY <2>1, <2>2, AsideInv DEF FailOrRepair, RoundsInv, TypeOK
<1>7. CASE Connect
  BY <1>7, AsideInv DEF Connect, RoundsInv, TypeOK
<1>8. CASE UNCHANGED vars
  BY <1>8, AsideInv DEF vars, RoundsInv, TypeOK
<1> QED
  BY <1>1, <1>2, <1>3, <1>4, <1>5, <1>6, <1>7, <1>8 DEF Next, Resolve

LEMMA RoundsInvariant == Spec => []RoundsInv
<1>1. RoundsInv /\ [Next]_vars => RoundsInv'
  BY RoundsInvStep
<1> QED
  BY InitInv, <1>1, PTL DEF Spec

-----------------------------------------------------------------------------
\* The state of rounds mode stays well typed.
THEOREM TypeCorrect == Spec => []TypeOK
<1>1. RoundsInv => TypeOK
  BY DEF RoundsInv
<1> QED
  BY <1>1, RoundsInvariant, PTL

\* The delay of every slave stays between its first value and the cap and
\* runs exactly while the slave is unresponsive (modbusmq_slave_update).
THEOREM BackoffBoundedProved == Spec => []BackoffBounded
<1>1. RoundsInv => BackoffBounded
  BY DEF RoundsInv
<1> QED
  BY <1>1, RoundsInvariant, PTL

\* A round reads no input twice, and an unresponsive slave at most once
\* (modbusmq_round_post, modbusmq_slave_gate).
THEOREM RoundsReadSparingly == Spec => [](ProbeAlone /\ ReadOncePerRound)
<1>1. RoundsInv => ProbeAlone /\ ReadOncePerRound
  BY DEF RoundsInv
<1> QED
  BY <1>1, RoundsInvariant, PTL

\* However often the loop turns, a round reads no input twice and all that is
\* queued belongs to the round under way (modbusmq_round_post).
THEOREM ReadOncePerRoundProved == Spec => []ReadOncePerRound
<1> QED
  BY RoundsReadSparingly, PTL

\* A probe goes out only when the slave's delay is over (modbusmq_slave_gate).
THEOREM ProbeWhenDueProved == Spec => ProbeWhenDue
<1>1. RoundsInv /\ [Next]_vars =>
        [\A s \in Slaves : ~Probing(queue, s) /\ Probing(queue', s)
                             => health[s].unresponsive /\ health[s].left = 0]_vars
  BY RoundsInvStep
<1>2. RoundsInv /\ [Next]_vars => RoundsInv'
  BY RoundsInvStep
<1> QED
  BY <1>1, <1>2, InitInv, PTL DEF Spec, ProbeWhenDue

=============================================================================
