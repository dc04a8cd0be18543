---------------------------- MODULE TimersProofs ----------------------------
(***************************************************************************)
(* Proofs about Timers, for every configuration, backoff cap and interval: *)
(* a timer has one poll queued at most, the backoff of every slave stays   *)
(* within its bounds, and a call posts at most one probe of an             *)
(* unresponsive slave, not before its delay is over; the loop never sleeps *)
(* past a timer that may post, and the timers of a series configuration,   *)
(* however many and however late, never fall due together.                 *)
(***************************************************************************)
EXTENDS Timers, FiniteSetTheorems, SequenceTheorems, WellFoundedInduction, TLAPS

\* A sequence that names nothing twice, and what it names.
Distinct(q) == \A j, k \in DOMAIN q : q[j] = q[k] => j = k
Members(q) == {q[k] : k \in DOMAIN q}

\* The backoff of every slave is in its bounds, and what is left of the delay
\* and the time since the last probe make up the delay.
BackoffTimed ==
  \A s \in Slaves :
    /\ Bounded(health[s])
    /\ health[s].unresponsive => since[s] + health[s].left >= health[s].retry

\* The inductive invariant.
TimersInv ==
  /\ \E X : timers \in Seq(X)
  /\ queue \in Seq(Places)
  /\ OnePollPerTimer
  /\ health \in [Slaves -> Health]
  /\ since \in [Slaves -> 0..RetryMax]
  /\ BackoffTimed

-----------------------------------------------------------------------------
(***************************************************************************)
(* The backoff, for every cap and first value.                             *)
(***************************************************************************)

\* A missed answer keeps the backoff of a slave well typed and in its bounds,
\* and a slave it leaves unresponsive is not due.
LEMMA MissedBounded ==
  ASSUME NEW h \in Health, Bounded(h)
  PROVE  /\ Missed(h) \in Health /\ Bounded(Missed(h))
         /\ Missed(h).unresponsive => Missed(h) = h \/ Missed(h).left # 0
<1> USE PollingAssumption DEF Health, Bounded, MissMax, Lesser
<1>1. RetryMax \in Nat
  OBVIOUS
<1>2. CASE RetryMax = 0
  BY <1>2 DEF Missed
<1>3. CASE RetryMax # 0 /\ h.unresponsive
  <2>1. PICK r \in 0..RetryMax : r = Lesser(2 * h.retry, RetryMax)
    BY <1>1, <1>3
  <2>2. Missed(h) = [misses |-> 3, unresponsive |-> TRUE, retry |-> r, left |-> r]
    BY <1>3, <2>1 DEF Missed
  <2>3. Lesser(RetryFirst, RetryMax) <= r /\ r # 0
    BY <1>1, <1>3, <2>1
  <2>4. Missed(h) \in Health /\ Bounded(Missed(h))
    BY <1>1, <2>1, <2>2, <2>3
  <2> QED
    BY <2>2, <2>3, <2>4
<1>4. CASE RetryMax # 0 /\ ~h.unresponsive /\ h.misses + 1 < 3
  <2>1. Missed(h) = [h EXCEPT !.misses = h.misses + 1]
    BY <1>4 DEF Missed
  <2>2. Missed(h) = [misses |-> h.misses + 1, unresponsive |-> h.unresponsive,
                     retry |-> h.retry, left |-> h.left]
    BY <2>1
  <2>3. h.misses + 1 \in 0..3
    BY <1>4
  <2> QED
    BY <1>4, <2>2, <2>3
<1>5. CASE RetryMax # 0 /\ ~h.unresponsive /\ ~(h.misses + 1 < 3)
  <2>1. PICK r \in 0..RetryMax : r = Lesser(RetryFirst, RetryMax)
    BY <1>1
  <2>2. Missed(h) = [misses |-> 3, unresponsive |-> TRUE, retry |-> r, left |-> r]
    BY <1>5, <2>1 DEF Missed
  <2>3. Missed(h) \in Health /\ Bounded(Missed(h))
    BY <1>1, <2>1, <2>2
  <2>4. r # 0
    BY <1>1, <1>5, <2>1
  <2> QED
    BY <2>2, <2>3, <2>4
<1> QED
  BY <1>2, <1>3, <1>4, <1>5

\* An answer ends the backoff.
LEMMA HealthyBounded == Healthy \in Health /\ Bounded(Healthy)
BY PollingAssumption DEF Healthy, Health, Bounded, MissMax

\* Posting a probe restarts the delay within its bounds.
LEMMA ProbeBounded ==
  ASSUME NEW h \in Health, Bounded(h)
  PROVE  [h EXCEPT !.left = h.retry] \in Health /\ Bounded([h EXCEPT !.left = h.retry])
BY PollingAssumption DEF Health, Bounded, MissMax, Lesser

\* Time shortens the delays and keeps them within their bounds.
LEMMA TickBounded ==
  ASSUME NEW h \in Health, Bounded(h)
  PROVE  /\ [h EXCEPT !.left = LessOne(@)] \in Health
         /\ Bounded([h EXCEPT !.left = LessOne(@)])
BY PollingAssumption DEF Health, Bounded, MissMax, Lesser, LessOne

-----------------------------------------------------------------------------
(***************************************************************************)
(* Sequences of polls.                                                     *)
(***************************************************************************)

\* What the concatenation of two sequences has where.
LEMMA ConcatAt ==
  ASSUME NEW S, NEW p \in Seq(S), NEW q \in Seq(S), NEW k \in DOMAIN (p \o q)
  PROVE  \/ k \in DOMAIN p /\ (p \o q)[k] = p[k]
         \/ k - Len(p) \in DOMAIN q /\ (p \o q)[k] = q[k - Len(p)]
OBVIOUS

\* Two sequences without repetition and without a common member make one
\* sequence without repetition, of the members of both.
LEMMA ConcatDistinct ==
  ASSUME NEW S, NEW p \in Seq(S), NEW q \in Seq(S), Distinct(p), Distinct(q),
         Members(p) \cap Members(q) = {}
  PROVE  /\ p \o q \in Seq(S)
         /\ Distinct(p \o q)
         /\ Members(p \o q) \subseteq Members(p) \cup Members(q)
<1>1. ASSUME NEW j \in DOMAIN (p \o q), NEW k \in DOMAIN (p \o q), (p \o q)[j] = (p \o q)[k]
      PROVE  j = k
  <2>1. CASE j \in DOMAIN p /\ (p \o q)[j] = p[j] /\ k \in DOMAIN p /\ (p \o q)[k] = p[k]
    BY <1>1, <2>1 DEF Distinct
  <2>2. CASE /\ j - Len(p) \in DOMAIN q /\ (p \o q)[j] = q[j - Len(p)]
             /\ k - Len(p) \in DOMAIN q /\ (p \o q)[k] = q[k - Len(p)]
    <3>1. j - Len(p) = k - Len(p)
      BY <1>1, <2>2 DEF Distinct
    <3> QED
      BY <3>1
  <2>3. CASE /\ j \in DOMAIN p /\ (p \o q)[j] = p[j]
             /\ k - Len(p) \in DOMAIN q /\ (p \o q)[k] = q[k - Len(p)]
    BY <1>1, <2>3 DEF Members
  <2>4. CASE /\ k \in DOMAIN p /\ (p \o q)[k] = p[k]
             /\ j - Len(p) \in DOMAIN q /\ (p \o q)[j] = q[j - Len(p)]
    BY <1>1, <2>4 DEF Members
  <2> QED
    BY <2>1, <2>2, <2>3, <2>4, ConcatAt
<1>2. ASSUME NEW k \in DOMAIN (p \o q)
      PROVE  (p \o q)[k] \in Members(p) \cup Members(q)
  BY ConcatAt DEF Members
<1> QED
  BY <1>1, <1>2 DEF Distinct, Members

\* A batch in list order names no place twice, and only places of its set.
LEMMA OrderedDistinct ==
  ASSUME NEW D, NEW n \in Nat, D = 1..n, NEW S \in SUBSET D, NEW q \in InListOrder(S)
  PROVE  q \in Seq(D) /\ Distinct(q) /\ Members(q) \subseteq S
<1>0. IsFiniteSet(D) /\ D \subseteq Nat
  BY FS_Interval
<1>1. Cardinality(S) \in Nat
  BY <1>0, FS_Subset, FS_CardinalityType
<1>2. q \in [1..Cardinality(S) -> S] /\ \A i, j \in DOMAIN q : i < j => q[i] < q[j]
  BY DEF InListOrder
<1>3. q \in Seq(D) /\ DOMAIN q \subseteq Nat
  <2>1. PICK m \in Nat : m = Cardinality(S)
    BY <1>1
  <2>2. q \in [1..m -> D]
    BY <1>2, <2>1
  <2> QED
    BY <2>1, <2>2
<1>4. ASSUME NEW i \in DOMAIN q, NEW j \in DOMAIN q, q[i] = q[j]
      PROVE  i = j
  <2>1. i \in Nat /\ j \in Nat /\ q[i] \in Nat /\ q[j] \in Nat
    BY <1>0, <1>2, <1>3
  <2>2. ~(i < j) /\ ~(j < i)
    BY <1>2, <1>4, <2>1
  <2> QED
    BY <2>1, <2>2
<1> QED
  BY <1>2, <1>3, <1>4 DEF Distinct, Members

-----------------------------------------------------------------------------
(***************************************************************************)
(* The list of timers.                                                     *)
(***************************************************************************)

\* The places of the timers are the numbers up to their count.
LEMMA PlacesFinite ==
  ASSUME \E X : timers \in Seq(X)
  PROVE  Places = 1..Len(timers) /\ Len(timers) \in Nat
BY DEF Places

\* Subscribing makes the list longer.
LEMMA SubscribeShape ==
  ASSUME \E X : timers \in Seq(X), Subscribe
  PROVE  (\E X : timers' \in Seq(X)) /\ Places \subseteq Places'
<1>1. PICK X : timers \in Seq(X)
  OBVIOUS
<1>2. PICK t : t = NewTimer(setup.inputs[Len(timers) + 1])
  OBVIOUS
<1>3. PICK Y : Y = X \cup {t}
  OBVIOUS
<1>4. timers \in Seq(Y) /\ t \in Y
  BY <1>1, <1>3
<1>5. CASE timers' = <<t>> \o timers
  BY <1>4, <1>5 DEF Places
<1>6. CASE timers' = Chained(timers, t)
  <2>1. PICK d : d = Last(timers).due + t.orig
    OBVIOUS
  <2>2. PICK e : e = [t EXCEPT !.due = d]
    OBVIOUS
  <2>3. PICK Z : Z = Y \cup {e}
    OBVIOUS
  <2>4. timers \in Seq(Z) /\ e \in Z
    BY <1>4, <2>3
  <2>5. PICK c : c = Append(timers, e)
    OBVIOUS
  <2>6. c \in Seq(Z) /\ Len(c) = Len(timers) + 1 /\ Len(timers) \in Nat
    BY <2>4, <2>5
  <2>7. PICK cycle : cycle = t.orig + Shares(timers)
    OBVIOUS
  <2>8. timers' = [k \in DOMAIN c |-> IF c[k].once THEN c[k] ELSE [c[k] EXCEPT !.interval = cycle]]
    BY <1>6, <2>1, <2>2, <2>5, <2>7 DEF Chained
  <2>9. timers' \in Seq({timers'[k] : k \in DOMAIN c}) /\ DOMAIN timers' = DOMAIN c
    BY <2>6, <2>8
  <2> QED
    BY <2>4, <2>6, <2>9 DEF Places
<1>7. CASE \E n \in LongerFrom(timers, t) : timers' = InsertAt(timers, n, t)
  <2>1. PICK n \in 1..(Len(timers) + 1) : timers' = InsertAt(timers, n, t)
    BY <1>7 DEF LongerFrom
  <2>2. /\ SubSeq(timers, 1, n - 1) \in Seq(Y) /\ Len(SubSeq(timers, 1, n - 1)) = n - 1
        /\ SubSeq(timers, n, Len(timers)) \in Seq(Y)
        /\ Len(SubSeq(timers, n, Len(timers))) = Len(timers) - n + 1
    BY <1>4, <2>1
  <2>3. timers' \in Seq(Y) /\ Len(timers') = Len(timers) + 1
    <3>1. PICK a, b : a = SubSeq(timers, 1, n - 1) /\ b = SubSeq(timers, n, Len(timers))
      OBVIOUS
    <3>2. timers' = (a \o <<t>>) \o b
      BY <2>1, <3>1 DEF InsertAt
    <3>3. /\ a \in Seq(Y) /\ b \in Seq(Y) /\ <<t>> \in Seq(Y) /\ Len(<<t>>) = 1
          /\ Len(a) = n - 1 /\ Len(b) = Len(timers) - n + 1
      BY <1>4, <2>2, <3>1
    <3>4. PICK c : c = a \o <<t>>
      OBVIOUS
    <3>5. c \in Seq(Y) /\ Len(c) = n
      BY <2>1, <3>3, <3>4
    <3>6. c \o b \in Seq(Y) /\ Len(c \o b) = n + (Len(timers) - n + 1)
      BY <3>3, <3>5
    <3>7. Len(timers) \in Nat /\ n \in Nat
      BY <1>4, <2>1
    <3>8. n + (Len(timers) - n + 1) = Len(timers) + 1
      BY <3>7
    <3>9. timers' = c \o b
      BY <3>2, <3>4
    <3> QED
      BY <3>6, <3>8, <3>9
  <2> QED
    BY <1>4, <2>3 DEF Places
<1> QED
  BY <1>2, <1>5, <1>6, <1>7 DEF Subscribe

\* A walk of the list that only changes timers leaves the places.
LEMMA WalkShape ==
  ASSUME \E X : timers \in Seq(X), timers' = [k \in Places |-> timers'[k]]
  PROVE  (\E X : timers' \in Seq(X)) /\ Places' = Places
<1>1. Places = 1..Len(timers) /\ Len(timers) \in Nat
  BY PlacesFinite
<1>2. timers' \in Seq({timers'[k] : k \in Places}) /\ DOMAIN timers' = Places
  BY <1>1
<1> QED
  BY <1>2 DEF Places

-----------------------------------------------------------------------------
(***************************************************************************)
(* A turn of the loop.                                                     *)
(***************************************************************************)

\* What the gate lets through: due timers, of an unresponsive slave one, whose
\* delay is over.
LEMMA PassedAlone ==
  ASSUME NEW h, NEW T \in SUBSET Places, \E X : timers \in Seq(X)
  PROVE  /\ Passed(h, T) \subseteq T
         /\ \A k \in Passed(h, T) :
              h[timers[k].slave].unresponsive => h[timers[k].slave].left = 0
         /\ \A j, k \in Passed(h, T) :
              h[timers[k].slave].unresponsive /\ timers[j].slave = timers[k].slave => j = k
<1>1. Passed(h, T) \subseteq T
  BY DEF Passed
<1>2. ASSUME NEW j \in Passed(h, T), NEW k \in Passed(h, T),
             h[timers[k].slave].unresponsive, timers[j].slave = timers[k].slave
      PROVE  j = k
  <2>1. j \in Nat /\ k \in Nat
    BY <1>1, PlacesFinite
  <2>2. j <= k /\ k <= j
    BY <1>2 DEF Passed
  <2> QED
    BY <2>1, <2>2
<1> QED
  BY <1>1, <1>2 DEF Passed

\* A batch of timers that have no poll in q leaves one poll for each behind q.
LEMMA BatchQueued ==
  ASSUME \E X : timers \in Seq(X), NEW q \in Seq(Places), Distinct(q),
         NEW P \in SUBSET Due(q), NEW batch \in InListOrder(P)
  PROVE  /\ q \o batch \in Seq(Places) /\ Distinct(q \o batch)
         /\ Members(q \o batch) \subseteq Members(q) \cup P
<1>1. P \subseteq Places /\ Members(q) \cap P = {}
  BY DEF Due, Members
<1>2. batch \in Seq(Places) /\ Distinct(batch) /\ Members(batch) \subseteq P
  <2>1. Places = 1..Len(timers) /\ Len(timers) \in Nat
    BY PlacesFinite
  <2> QED
    <3>1. ASSUME NEW D, D = Places, NEW n, n = Len(timers)
          PROVE  batch \in Seq(D) /\ Distinct(batch) /\ Members(batch) \subseteq P
      <4>1. n \in Nat /\ D = 1..n /\ P \in SUBSET D
        BY <1>1, <2>1, <3>1
      <4> QED
        BY <4>1, OrderedDistinct
    <3> QED
      BY <3>1
<1>3. Members(q) \cap Members(batch) = {}
  BY <1>1, <1>2
<1> QED
  BY <1>2, <1>3, ConcatDistinct

\* The queue without its head.
LEMMA HeadGone ==
  ASSUME NEW S, NEW q \in Seq(S), q # <<>>, Distinct(q)
  PROVE  /\ Tail(q) \in Seq(S) /\ Distinct(Tail(q))
         /\ Members(Tail(q)) \subseteq Members(q)
<1>1. Tail(q) \in Seq(S)
  OBVIOUS
<1>2. \A k \in DOMAIN Tail(q) : k \in Nat /\ k + 1 \in DOMAIN q /\ Tail(q)[k] = q[k + 1]
  OBVIOUS
<1>3. Distinct(Tail(q))
  <2> SUFFICES ASSUME NEW j \in DOMAIN Tail(q), NEW k \in DOMAIN Tail(q), Tail(q)[j] = Tail(q)[k]
               PROVE  j = k
    BY DEF Distinct
  <2>1. j + 1 = k + 1
    BY <1>2 DEF Distinct
  <2> QED
    BY <1>2, <2>1
<1>4. Members(Tail(q)) \subseteq Members(q)
  BY <1>2 DEF Members
<1> QED
  BY <1>1, <1>3, <1>4

-----------------------------------------------------------------------------
(***************************************************************************)
(* The invariant.                                                          *)
(***************************************************************************)
LEMMA InitInv == Init => TimersInv
<1> SUFFICES ASSUME Init PROVE TimersInv
  OBVIOUS
<1>1. timers \in Seq({}) /\ queue \in Seq(Places) /\ OnePollPerTimer
  BY DEF Init, OnePollPerTimer, Places
<1>2. health \in [Slaves -> Health] /\ BackoffTimed
  BY HealthyBounded DEF Init, BackoffTimed, Healthy
<1>3. since \in [Slaves -> 0..RetryMax]
  BY PollingAssumption DEF Init
<1> QED
  BY <1>1, <1>2, <1>3 DEF TimersInv

\* What an eviction leaves of the queue and of the backoff.
LEMMA EvictInv ==
  ASSUME TimersInv, NEW evict \in BOOLEAN, evict => queue # <<>>, NEW q, NEW h,
         q = IF evict THEN Tail(queue) ELSE queue,
         h = IF evict THEN [health EXCEPT ![HeadSlave] = Missed(@)] ELSE health
  PROVE  /\ q \in Seq(Places) /\ Distinct(q) /\ Members(q) \subseteq Queued
         /\ h \in [Slaves -> Health]
         /\ \A s \in Slaves :
              /\ Bounded(h[s])
              /\ h[s].unresponsive => since[s] + h[s].left >= h[s].retry
<1>1. Distinct(queue) /\ Members(queue) = Queued /\ queue \in Seq(Places)
  BY DEF TimersInv, OnePollPerTimer, Distinct, Members, Queued
<1>2. CASE ~evict
  BY <1>1, <1>2 DEF TimersInv, BackoffTimed
<1>3. CASE evict
  <2>1. q \in Seq(Places) /\ Distinct(q) /\ Members(q) \subseteq Queued
    BY <1>1, <1>3, HeadGone
  <2>2. ASSUME NEW s \in Slaves
        PROVE  /\ h[s] \in Health /\ Bounded(h[s])
               /\ h[s].unresponsive => since[s] + h[s].left >= h[s].retry
    <3>1. /\ health[s] \in Health /\ Bounded(health[s]) /\ since[s] \in 0..RetryMax
          /\ health[s].unresponsive => since[s] + health[s].left >= health[s].retry
      BY DEF TimersInv, BackoffTimed
    <3>2. PICK m : m = Missed(health[s])
      OBVIOUS
    <3>3. h[s] \in {m, health[s]}
      BY <1>3, <3>2 DEF TimersInv
    <3>4. m \in Health /\ Bounded(m)
      BY <3>1, <3>2, MissedBounded
    <3>5. m.unresponsive => m = health[s] \/ m.left = m.retry
      BY <3>1, <3>2 DEF Missed, Health
    <3>6. m.unresponsive => since[s] + m.left >= m.retry
      BY <3>1, <3>4, <3>5, PollingAssumption DEF Health
    <3> QED
      BY <3>1, <3>3, <3>4, <3>6
  <2>3. h \in [Slaves -> Health]
    <3>1. h = [s \in Slaves |-> h[s]]
      BY <1>3 DEF TimersInv
    <3> QED
      BY <2>2, <3>1
  <2> QED
    BY <2>1, <2>2, <2>3
<1> QED
  BY <1>2, <1>3

\* The event loop's call: an eviction, then the walk of the timers.
LEMMA LoopPrepareInv ==
  ASSUME TimersInv, NEW evict \in BOOLEAN, LoopPrepare(evict)
  PROVE  /\ TimersInv'
         /\ \A s \in Slaves :
              NewProbes(s) # {} => /\ \E k : NewProbes(s) = {k}
                                   /\ since[s] >= health'[s].retry
<1>1. PICK q : q = IF evict THEN Tail(queue) ELSE queue
  OBVIOUS
<1>2. PICK h : h = IF evict THEN [health EXCEPT ![HeadSlave] = Missed(@)] ELSE health
  OBVIOUS
<1>3. PICK due : due = Due(q)
  OBVIOUS
<1>4. PICK P : P = Passed(h, due)
  OBVIOUS
<1>5. PICK probed : probed = ProbedBy(h, P)
  OBVIOUS
<1>6. /\ \E batch \in InListOrder(P) : queue' = q \o batch
      /\ timers' = [k \in Places |-> IF k \in due
                                     THEN [timers[k] EXCEPT !.due = @ + timers[k].interval]
                                     ELSE timers[k]]
      /\ health' = [s \in Slaves |-> IF s \in probed THEN [h[s] EXCEPT !.left = h[s].retry] ELSE h[s]]
      /\ since' = [s \in Slaves |-> IF s \in probed THEN 0 ELSE since[s]]
  <2>1. \E batch \in InListOrder(P) : queue' = q \o batch
    BY <1>1, <1>2, <1>3, <1>4 DEF LoopPrepare
  <2>2. timers' = [k \in Places |-> IF k \in due
                                   THEN [timers[k] EXCEPT !.due = @ + timers[k].interval]
                                   ELSE timers[k]]
    BY <1>1, <1>3 DEF LoopPrepare
  <2>3. health' = [s \in Slaves |-> IF s \in probed THEN [h[s] EXCEPT !.left = h[s].retry] ELSE h[s]]
    BY <1>1, <1>2, <1>3, <1>4, <1>5 DEF LoopPrepare
  <2>4. since' = [s \in Slaves |-> IF s \in probed THEN 0 ELSE since[s]]
    BY <1>1, <1>2, <1>3, <1>4, <1>5 DEF LoopPrepare
  <2> QED
    BY <2>1, <2>2, <2>3, <2>4
<1>7. /\ q \in Seq(Places) /\ Distinct(q) /\ Members(q) \subseteq Queued
      /\ h \in [Slaves -> Health]
      /\ \A s \in Slaves :
           /\ Bounded(h[s])
           /\ h[s].unresponsive => since[s] + h[s].left >= h[s].retry
  BY <1>1, <1>2, EvictInv DEF LoopPrepare
<1>8. (\E X : timers \in Seq(X)) /\ since \in [Slaves -> 0..RetryMax]
  BY DEF TimersInv
<1>9. /\ P \subseteq due /\ due \subseteq Places
      /\ \A k \in P : h[timers[k].slave].unresponsive => h[timers[k].slave].left = 0
      /\ \A j, k \in P :
           h[timers[k].slave].unresponsive /\ timers[j].slave = timers[k].slave => j = k
  <2>1. due \subseteq Places
    BY <1>3 DEF Due
  <2> QED
    BY <1>4, <1>8, <2>1, PassedAlone
<1>10. /\ queue' \in Seq(Places) /\ Distinct(queue')
       /\ Members(queue') \subseteq Members(q) \cup P
  <2>1. PICK batch \in InListOrder(P) : queue' = q \o batch
    BY <1>6
  <2>2. P \in SUBSET Due(q)
    BY <1>3, <1>9
  <2> QED
    BY <1>7, <1>8, <2>1, <2>2, BatchQueued
<1>11. (\E X : timers' \in Seq(X)) /\ Places' = Places
  <2>1. timers' = [k \in Places |-> timers'[k]]
    BY <1>6
  <2> QED
    BY <1>8, <2>1, WalkShape
<1>12. ASSUME NEW s \in Slaves
       PROVE  /\ health'[s] \in Health /\ Bounded(health'[s]) /\ since'[s] \in 0..RetryMax
              /\ health'[s].unresponsive => since'[s] + health'[s].left >= health'[s].retry
              /\ health'[s].unresponsive = h[s].unresponsive /\ health'[s].retry = h[s].retry
  <2>1. /\ h[s] \in Health /\ Bounded(h[s]) /\ since[s] \in 0..RetryMax
        /\ h[s].unresponsive => since[s] + h[s].left >= h[s].retry
    BY <1>7, <1>8
  <2>2. PICK g \in Health : g = h[s]
    BY <2>1
  <2>3. /\ [g EXCEPT !.left = g.retry] \in Health /\ Bounded([g EXCEPT !.left = g.retry])
        /\ [g EXCEPT !.left = g.retry].left = g.retry
        /\ [g EXCEPT !.left = g.retry].retry = g.retry
        /\ [g EXCEPT !.left = g.retry].unresponsive = g.unresponsive
        /\ g.retry \in 0..RetryMax
    BY <2>1, <2>2, ProbeBounded DEF Health
  <2>4. CASE s \in probed
    <3>1. health'[s] = [g EXCEPT !.left = g.retry] /\ since'[s] = 0
      BY <1>6, <2>2, <2>4
    <3> QED
      BY <2>2, <2>3, <3>1, PollingAssumption
  <2>5. CASE s \notin probed
    BY <1>6, <2>1, <2>5
  <2> QED
    BY <2>4, <2>5
<1>13. /\ health' \in [Slaves -> Health] /\ since' \in [Slaves -> 0..RetryMax]
       /\ BackoffTimed'
  <2>1. health' = [s \in Slaves |-> health'[s]] /\ since' = [s \in Slaves |-> since'[s]]
    BY <1>6
  <2> QED
    BY <1>12, <2>1 DEF BackoffTimed
<1>14. OnePollPerTimer'
  BY <1>10 DEF OnePollPerTimer, Distinct
<1>15. TimersInv'
  BY <1>10, <1>11, <1>13, <1>14 DEF TimersInv
<1>16. ASSUME NEW s \in Slaves, NEW k \in NewProbes(s)
       PROVE  NewProbes(s) = {k} /\ since[s] >= health'[s].retry
  <2>1. NewProbes(s) \subseteq P
    BY <1>7, <1>10 DEF NewProbes, Members
  <2>2. h[s].unresponsive /\ timers[k].slave = s /\ k \in P
    BY <1>12, <1>16, <2>1 DEF NewProbes
  <2>3. \A j \in NewProbes(s) : j = k
    BY <1>9, <2>1, <2>2 DEF NewProbes
  <2>4. h[s].left = 0
    BY <1>9, <2>2
  <2>5. since[s] + h[s].left >= h[s].retry /\ since[s] \in 0..RetryMax
    BY <1>7, <1>8, <2>2
  <2>6. since[s] >= h[s].retry
    BY <2>4, <2>5, PollingAssumption
  <2> QED
    BY <1>12, <1>16, <2>3, <2>6
<1> QED
  BY <1>15, <1>16

\* A step that drops polls from the head and posts none probes nobody.
LEMMA NoNewProbe ==
  ASSUME NEW s \in Slaves, queue' = queue \/ queue' = <<>> \/ (queue # <<>> /\ queue' = Tail(queue)),
         TimersInv
  PROVE  NewProbes(s) = {}
<1>1. \A j \in DOMAIN queue' : queue'[j] \in Queued
  <2>1. CASE queue # <<>> /\ queue' = Tail(queue)
    BY <2>1, HeadGone DEF TimersInv, OnePollPerTimer, Distinct, Members, Queued
  <2> QED
    BY <2>1 DEF Queued
<1> QED
  BY <1>1 DEF NewProbes

\* An answer, or what is not one, ends the head.
LEMMA HeadDone ==
  ASSUME TimersInv, queue # <<>>, queue' = Tail(queue), Places' = Places
  PROVE  queue' \in Seq(Places') /\ OnePollPerTimer'
<1>1. Tail(queue) \in Seq(Places) /\ Distinct(Tail(queue))
  BY HeadGone DEF TimersInv, OnePollPerTimer, Distinct
<1> QED
  BY <1>1 DEF OnePollPerTimer, Distinct

LEMMA AnsweredInv ==
  ASSUME TimersInv, NEW good \in BOOLEAN, Answered(good)
  PROVE  TimersInv'
<1>1. /\ queue # <<>> /\ queue' = Tail(queue) /\ since' = since
      /\ health' = [health EXCEPT ![HeadSlave] = Healthy]
      /\ timers' = Rearmed(RearmedByAnswer)
  BY DEF Answered
<1>2. (\E X : timers' \in Seq(X)) /\ Places' = Places
  BY <1>1, WalkShape DEF Rearmed, TimersInv
<1>3. queue' \in Seq(Places') /\ OnePollPerTimer'
  BY <1>1, <1>2, HeadDone
<1>4. health' \in [Slaves -> Health] /\ BackoffTimed'
  <2>1. \A s \in Slaves : health'[s] = health[s] \/ health'[s] = Healthy
    BY <1>1 DEF TimersInv
  <2>2. health' = [s \in Slaves |-> health'[s]]
    BY <1>1 DEF TimersInv
  <2> QED
    BY <1>1, <2>1, <2>2, HealthyBounded DEF TimersInv, BackoffTimed, Healthy
<1> QED
  BY <1>1, <1>2, <1>3, <1>4 DEF TimersInv

LEMMA RejectedInv ==
  ASSUME TimersInv, Rejected
  PROVE  TimersInv'
<1>1. /\ queue # <<>> /\ queue' = Tail(queue) /\ UNCHANGED <<timers, health, since>>
  BY DEF Rejected
<1>2. Places' = Places
  BY <1>1 DEF Places
<1>3. queue' \in Seq(Places') /\ OnePollPerTimer'
  BY <1>1, <1>2, HeadDone
<1> QED
  BY <1>1, <1>3 DEF TimersInv, BackoffTimed

LEMMA LinkLostInv ==
  ASSUME TimersInv, LinkLost
  PROVE  TimersInv'
<1>1. queue' = <<>> /\ UNCHANGED <<health, since>>
  BY DEF LinkLost
<1>2. (\E X : timers' \in Seq(X)) /\ Places' = Places
  BY WalkShape DEF LinkLost, Rearmed, TimersInv
<1>3. queue' \in Seq(Places') /\ OnePollPerTimer'
  BY <1>1 DEF OnePollPerTimer
<1> QED
  BY <1>1, <1>2, <1>3 DEF TimersInv, BackoffTimed

LEMMA TickInv ==
  ASSUME TimersInv, Tick
  PROVE  TimersInv'
<1>1. /\ health' = [s \in Slaves |-> [health[s] EXCEPT !.left = LessOne(@)]]
      /\ since' = [s \in Slaves |-> Lesser(since[s] + 1, RetryMax)]
      /\ queue' = queue
  BY DEF Tick
<1>2. (\E X : timers' \in Seq(X)) /\ Places' = Places
  <2>1. timers' = [k \in Places |-> timers'[k]]
    BY DEF Tick
  <2> QED
    BY <2>1, WalkShape DEF TimersInv
<1>3. ASSUME NEW s \in Slaves
      PROVE  /\ health'[s] \in Health /\ Bounded(health'[s]) /\ since'[s] \in 0..RetryMax
             /\ health'[s].unresponsive => since'[s] + health'[s].left >= health'[s].retry
  <2>1. /\ health[s] \in Health /\ Bounded(health[s]) /\ since[s] \in 0..RetryMax
        /\ health[s].unresponsive => since[s] + health[s].left >= health[s].retry
    BY DEF TimersInv, BackoffTimed
  <2>2. PICK g \in Health : g = health[s]
    BY <2>1
  <2>3. PICK f : f = [g EXCEPT !.left = LessOne(@)]
    OBVIOUS
  <2>4. health'[s] = f /\ since'[s] = Lesser(since[s] + 1, RetryMax)
    BY <1>1, <2>2, <2>3
  <2>5. f \in Health /\ Bounded(f)
    BY <2>1, <2>2, <2>3, TickBounded
  <2>6. f.left = LessOne(g.left) /\ f.retry = g.retry /\ f.unresponsive = g.unresponsive
    BY <2>3 DEF Health
  <2>7. Lesser(since[s] + 1, RetryMax) \in 0..RetryMax
    BY <2>1, PollingAssumption DEF Lesser
  <2>8. g.unresponsive => Lesser(since[s] + 1, RetryMax) + LessOne(g.left) >= g.retry
    <3>1. g.left \in 0..RetryMax /\ g.retry \in 0..RetryMax
      BY DEF Health
    <3> QED
      BY <2>1, <2>2, <3>1, PollingAssumption DEF Lesser, LessOne
  <2> QED
    BY <2>4, <2>5, <2>6, <2>7, <2>8
<1>4. health' \in [Slaves -> Health] /\ since' \in [Slaves -> 0..RetryMax] /\ BackoffTimed'
  <2>1. health' = [s \in Slaves |-> health'[s]] /\ since' = [s \in Slaves |-> since'[s]]
    BY <1>1
  <2> QED
    BY <1>3, <2>1 DEF BackoffTimed
<1> QED
  BY <1>1, <1>2, <1>4 DEF TimersInv, OnePollPerTimer

LEMMA SubscribeInv ==
  ASSUME TimersInv, Subscribe
  PROVE  TimersInv'
<1>1. (\E X : timers' \in Seq(X)) /\ Places \subseteq Places'
  BY SubscribeShape DEF TimersInv
<1>2. queue \in Seq(Places')
  BY <1>1 DEF TimersInv
<1> QED
  BY <1>1, <1>2 DEF TimersInv, Subscribe, OnePollPerTimer, BackoffTimed

\* A step keeps the invariant, and probes a slave with one poll when it is due.
LEMMA TimersInvStep ==
  ASSUME TimersInv, [Next]_vars
  PROVE  /\ TimersInv'
         /\ \A s \in Slaves :
              NewProbes(s) # {} => /\ \E k : NewProbes(s) = {k}
                                   /\ since[s] >= health'[s].retry
<1>1. CASE \E evict \in BOOLEAN : LoopPrepare(evict)
  BY <1>1, LoopPrepareInv
<1>2. CASE \E good \in BOOLEAN : Answered(good)
  <2>1. queue # <<>> /\ queue' = Tail(queue)
    BY <1>2 DEF Answered
  <2> QED
    BY <1>2, <2>1, AnsweredInv, NoNewProbe
<1>3. CASE Rejected
  <2>1. queue # <<>> /\ queue' = Tail(queue)
    BY <1>3 DEF Rejected
  <2> QED
    BY <1>3, <2>1, RejectedInv, NoNewProbe
<1>4. CASE LinkLost
  <2>1. queue' = <<>>
    BY <1>4 DEF LinkLost
  <2> QED
    BY <1>4, <2>1, LinkLostInv, NoNewProbe
<1>5. CASE Subscribe \/ Tick
  <2>1. queue' = queue
    BY <1>5 DEF Subscribe, Tick
  <2> QED
    BY <1>5, <2>1, SubscribeInv, TickInv, NoNewProbe
<1>6. CASE Connect \/ (\E s \in Fallible : FailOrRepair(s)) \/ UNCHANGED vars
  <2>1. UNCHANGED <<timers, queue, health, since>>
    BY <1>6 DEF Connect, FailOrRepair, vars
  <2>2. TimersInv'
    BY <2>1 DEF TimersInv, OnePollPerTimer, BackoffTimed, Places
  <2> QED
    BY <2>1, <2>2, NoNewProbe
<1> QED
  BY <1>1, <1>2, <1>3, <1>4, <1>5, <1>6 DEF Next, Resolve

LEMMA TimersInvariant == Spec => []TimersInv
<1>1. TimersInv /\ [Next]_vars => TimersInv'
  BY TimersInvStep
<1> QED
  BY InitInv, <1>1, PTL DEF Spec

-----------------------------------------------------------------------------
\* However late a timer is, at most one of its polls is in the queue
\* (modbusmq_loop_prepare).
THEOREM OnePollPerTimerProved == Spec => []OnePollPerTimer
<1>1. TimersInv => OnePollPerTimer
  BY DEF TimersInv
<1> QED
  BY <1>1, TimersInvariant, PTL

\* No turn posts two probes of an unresponsive slave, nor one before the delay
\* since the last posting is over (modbusmq_slave_gate, modbusmq_slave_update).
THEOREM ProbesSpacedProved == Spec => ProbesSpaced
<1>1. TimersInv /\ [Next]_vars =>
        [\A s \in Slaves :
           NewProbes(s) # {} => Cardinality(NewProbes(s)) = 1 /\ since[s] >= health'[s].retry]_vars
  BY TimersInvStep, FS_Singleton
<1>2. TimersInv /\ [Next]_vars => TimersInv'
  BY TimersInvStep
<1> QED
  BY <1>1, <1>2, InitInv, PTL DEF Spec, ProbesSpaced

-----------------------------------------------------------------------------
(***************************************************************************)
(* Remainders: two due times in one cycle stay apart when either moves by  *)
(* whole cycles.                                                           *)
(***************************************************************************)
LEMMA Division ==
  ASSUME NEW a \in Int, NEW n \in Nat \ {0}
  PROVE  \E q \in Int, r \in Int : a = n * q + r /\ 0 <= r /\ r < n /\ a % n = r
<1>1. a \div n \in Int /\ a % n \in 0..n - 1 /\ a = n * (a \div n) + (a % n)
  OBVIOUS
<1> QED BY <1>1

LEMMA NoMultiple ==
  ASSUME NEW n \in Nat \ {0}, NEW q \in Int, NEW r \in Int, 0 < r, r < n
  PROVE  n * q # r
<1> SUFFICES ASSUME n * q = r PROVE FALSE
  OBVIOUS
<1>1. CASE q >= 1
  <2>1. PICK d \in Nat : q = 1 + d
    <3>1. q - 1 \in Nat /\ q = 1 + (q - 1)
      BY <1>1
    <3> QED BY <3>1
  <2>2. n * q = n + n * d /\ n * d >= 0
    BY <2>1
  <2> QED BY <2>2
<1>2. CASE q <= 0
  <2>1. PICK d \in Nat : q = -d
    <3>1. -q \in Nat /\ q = -(-q)
      BY <1>2
    <3> QED BY <3>1
  <2>2. n * q = -(n * d) /\ n * d >= 0
    BY <2>1
  <2> QED BY <2>2
<1> QED BY <1>1, <1>2

LEMMA Multiple ==
  ASSUME NEW a \in Int, NEW n \in Nat \ {0}
  PROVE  a % n = 0 <=> \E q \in Int : a = n * q
<1>1. PICK q \in Int, r \in Int : a = n * q + r /\ 0 <= r /\ r < n /\ a % n = r
  BY Division
<1>2. ASSUME a % n = 0 PROVE \E p \in Int : a = n * p
  <2>1. r = 0
    BY <1>1, <1>2
  <2>2. n * q \in Int
    OBVIOUS
  <2>3. a = n * q
    BY <1>1, <2>1, <2>2
  <2> QED BY <2>3
<1>3. ASSUME NEW p \in Int, a = n * p PROVE a % n = 0
  <2>1. PICK x \in Int, y \in Int : x = n * p /\ y = n * q
    OBVIOUS
  <2>2. PICK z \in Int : z = n * (p - q)
    OBVIOUS
  <2>3. z = x - y
    BY <2>1, <2>2
  <2>4. a = x /\ a = y + r
    BY <1>1, <1>3, <2>1
  <2>5. z = r
    BY <2>3, <2>4
  <2>6. ~(0 < r)
    BY <1>1, <2>2, <2>5, NoMultiple
  <2> QED BY <1>1, <2>6
<1> QED BY <1>2, <1>3

LEMMA ShiftedApart ==
  ASSUME NEW a \in Int, NEW n \in Nat \ {0}, NEW k \in Int, a % n # 0
  PROVE  (a + n * k) % n # 0
<1>1. PICK x \in Int : x = n * k
  OBVIOUS
<1>2. a + x \in Int
  OBVIOUS
<1>3. ASSUME (a + x) % n = 0 PROVE FALSE
  <2>1. PICK q \in Int : a + x = n * q
    BY <1>2, <1>3, Multiple
  <2>2. PICK y \in Int : y = n * q
    OBVIOUS
  <2>3. n * (q - k) = y - x
    BY <1>1, <2>2
  <2>4. a = y - x
    BY <2>1, <2>2
  <2>5. q - k \in Int /\ a = n * (q - k)
    BY <2>3, <2>4
  <2> QED BY <2>5, Multiple
<1> QED BY <1>1, <1>3

LEMMA CloseApart ==
  ASSUME NEW a \in Int, NEW n \in Nat \ {0}, 0 < a, a < n
  PROVE  (a % n) # 0 /\ ((-a) % n) # 0
<1>1. ~\E q \in Int : a = n*q
  BY NoMultiple
<1>2. a % n # 0
  BY <1>1, Multiple
<1>3. ASSUME (-a) % n = 0 PROVE FALSE
  <2>0. -a \in Int
    OBVIOUS
  <2>1. PICK q \in Int : -a = n * q
    BY <2>0, <1>3, Multiple
  <2>2. PICK y \in Int : y = n * q
    OBVIOUS
  <2>3. n * (-q) = -y
    BY <2>2
  <2>4. -q \in Int /\ a = n * (-q)
    BY <2>1, <2>2, <2>3
  <2> QED BY <2>4, <1>1
<1> QED BY <1>2, <1>3
-----------------------------------------------------------------------------
(***************************************************************************)
(* The series cycle.  The walk to the tail adds up the shares; a timer is  *)
(* due the shares in between after each timer before it, and the interval  *)
(* of all is their sum.                                                    *)
(***************************************************************************)
\* The sums a walk of list passes.
Sums(list, g) ==
  /\ g \in [0..Len(list) -> Nat] /\ g[0] = 0
  /\ \A n \in 1..Len(list) : g[n] = g[n - 1] + list[n].orig

LEMMA LeastNumber ==
  ASSUME NEW T \in SUBSET Nat, T # {}
  PROVE  \E m \in T : \A n \in T : m <= n
<1>1. IsWellFoundedOn(OpToRel(<, Nat), Nat)
  BY NatLessThanWellFounded
<1>2. PICK R : R = OpToRel(<, Nat)
  OBVIOUS
<1>3. R = {ss \in Nat \X Nat : ss[1] < ss[2]}
  BY <1>2 DEF OpToRel
<1>4. IsWellFoundedOn(R, Nat)
  BY <1>1, <1>2
<1>5. PICK m \in T : \A n \in T : ~(<<n, m>> \in R)
  BY <1>4, WFMin
<1>6. \A n \in T : ~(n < m)
  BY <1>3, <1>5
<1> QED BY <1>6


\* What the walk returns, by induction on where it first differs.
LEMMA SharesAre ==
  ASSUME NEW list, Len(list) \in Nat, NEW g, Sums(list, g)
  PROVE  Shares(list) = g[Len(list)]
<1> DEFINE N == Len(list)
           step(h) == [n \in 0..N |-> IF n = 0 THEN 0 ELSE h[n - 1] + list[n].orig]
           upTo == CHOOSE h : h = step(h)
<1>1. Shares(list) = upTo[N]
  BY DEF Shares
<1>2. g = step(g)
  BY DEF Sums
<1>3. upTo = step(upTo)
  <2> HIDE DEF step
  <2> QED BY <1>2
<1> HIDE DEF upTo
<1>4. \A n \in 0..N : upTo[n] = g[n]
  <2> DEFINE T == {n \in 0..N : upTo[n] # g[n]}
  <2> SUFFICES ASSUME T # {} PROVE FALSE
    OBVIOUS
  <2>1. T \in SUBSET Nat
    OBVIOUS
  <2>2. PICK m \in T : \A n \in T : m <= n
    BY <2>1, LeastNumber
  <2>3. CASE m = 0
    BY <2>2, <2>3, <1>2, <1>3
  <2>4. CASE m # 0
    <3>1. m \in 0..N /\ m - 1 \in 0..N /\ m \in 1..N /\ ~(m <= m - 1)
      BY <2>2, <2>4
    <3>2. upTo[m - 1] = g[m - 1]
      BY <2>2, <3>1
    <3>3. upTo[m] = upTo[m - 1] + list[m].orig /\ g[m] = g[m - 1] + list[m].orig
      BY <1>2, <1>3, <3>1, <2>4
    <3> QED BY <2>2, <3>2, <3>3
  <2> QED BY <2>3, <2>4
<1> QED BY <1>1, <1>4

\* A series list before the loop moves any of its timers: once timers first,
\* g sums up the shares, and due times and interval are as g says.
LaidAs(list, g) ==
  /\ Sums(list, g)
  /\ \A m, n \in 0..Len(list) : m <= n => g[m] <= g[n]
  /\ \A j, k \in DOMAIN list : j < k /\ list[k].once => list[j].once
  /\ \A k \in DOMAIN list :
       ~list[k].once => list[k].orig > 0 /\ list[k].interval = g[Len(list)]
  /\ \A j, k \in DOMAIN list :
       ~list[j].once /\ ~list[k].once => list[k].due - list[j].due = g[k] - g[j]

Laid(list) == \E g : LaidAs(list, g)

OneCycle(list) ==
  \A j, k \in DOMAIN list :
    ~list[j].once /\ ~list[k].once => list[j].interval = list[k].interval

Staggered(list) ==
  \A j, k \in DOMAIN list :
    ~list[j].once /\ ~list[k].once /\ j # k
      => (list[j].due - list[k].due) % list[j].interval # 0

LEMMA LaidEmpty == Laid(<<>>)
<1> DEFINE g == [n \in 0..0 |-> 0]
<1>1. LaidAs(<<>>, g)
  BY DEF LaidAs, Sums
<1> QED BY <1>1 DEF Laid

LEMMA LaidSingle ==
  ASSUME NEW t \in Timer, ~t.once, t.orig > 0, t.interval = t.orig
  PROVE  Laid(<<t>>)
<1> DEFINE g == [n \in 0..1 |-> IF n = 0 THEN 0 ELSE t.orig]
<1>1. /\ g \in [0..1 -> Nat] /\ g[0] = 0 /\ g[1] = t.orig /\ t.orig \in Nat /\ t.due \in Int
  BY DEF Timer
<1> HIDE DEF g
<1>2. Len(<<t>>) = 1 /\ DOMAIN <<t>> = {1} /\ <<t>>[1] = t /\ 1..1 = {1} /\ 0..1 = {0, 1}
  OBVIOUS
<1>3. Sums(<<t>>, g)
  BY <1>1, <1>2 DEF Sums
<1>4. LaidAs(<<t>>, g)
  BY <1>1, <1>2, <1>3 DEF LaidAs
<1> QED BY <1>4 DEF Laid

\* A once timer goes to the front and takes no share.
LEMMA LaidOnce ==
  ASSUME NEW list \in Seq(Timer), Laid(list), NEW t \in Timer, t.once, t.orig = 0
  PROVE  Laid(<<t>> \o list)
<1> DEFINE N == Len(list)
           new == <<t>> \o list
<1>1. PICK f : LaidAs(list, f)
  BY DEF Laid
<1> DEFINE g == [n \in 0..N + 1 |-> IF n = 0 THEN 0 ELSE f[n - 1]]
<1>2. /\ N \in Nat /\ Len(new) = N + 1 /\ DOMAIN new = 1..N + 1 /\ DOMAIN list = 1..N
      /\ new[1] = t /\ \A k \in 2..N + 1 : k - 1 \in 1..N /\ new[k] = list[k - 1]
  OBVIOUS
<1>3. /\ f \in [0..N -> Nat] /\ f[0] = 0
      /\ \A n \in 1..N : f[n] = f[n - 1] + list[n].orig
      /\ \A m, n \in 0..N : m <= n => f[m] <= f[n]
  BY <1>1 DEF LaidAs, Sums
<1>4. /\ g \in [0..N + 1 -> Nat] /\ g[0] = 0
      /\ \A n \in 1..N + 1 : n - 1 \in 0..N /\ g[n] = f[n - 1]
  BY <1>2, <1>3
<1> HIDE DEF g, new, N
<1>5. \A n \in 1..N + 1 : n = 1 \/ n \in 2..N + 1
  BY <1>2
<1>6. Sums(new, g)
  <2>1. ASSUME NEW n \in 1..N + 1 PROVE g[n] = g[n - 1] + new[n].orig
    <3>1. CASE n = 1
      BY <3>1, <1>2, <1>3, <1>4
    <3>2. CASE n \in 2..N + 1
      <4>1. n - 1 \in 1..N /\ n - 1 \in 1..N + 1 /\ n - 1 - 1 = n - 2
        BY <3>2, <1>2
      <4>2. g[n] = f[n - 1] /\ g[n - 1] = f[n - 1 - 1] /\ new[n] = list[n - 1]
        BY <4>1, <3>2, <1>2, <1>4
      <4> QED BY <4>1, <4>2, <1>3
    <3> QED BY <3>1, <3>2, <1>5
  <2> QED BY <2>1, <1>2, <1>4 DEF Sums
<1>7. \A m, n \in 0..N + 1 : m <= n => g[m] <= g[n]
  <2> SUFFICES ASSUME NEW m \in 0..N + 1, NEW n \in 0..N + 1, m <= n
               PROVE  g[m] <= g[n]
    OBVIOUS
  <2>1. CASE m = 0
    BY <2>1, <1>2, <1>4
  <2>2. CASE m # 0
    <3>1. m - 1 \in 0..N /\ n - 1 \in 0..N /\ m - 1 <= n - 1 /\ m \in 1..N + 1 /\ n \in 1..N + 1
      BY <2>2, <1>2
    <3> QED BY <3>1, <1>3, <1>4
  <2> QED BY <2>1, <2>2
<1>8. \A j, k \in DOMAIN new : j < k /\ new[k].once => new[j].once
  <2> SUFFICES ASSUME NEW j \in 1..N + 1, NEW k \in 1..N + 1, j < k, new[k].once
               PROVE  new[j].once
    BY <1>2
  <2>1. CASE j = 1
    BY <2>1, <1>2
  <2>2. CASE j # 1
    <3>1. j \in 2..N + 1 /\ k \in 2..N + 1 /\ j - 1 < k - 1
      BY <2>2, <1>2
    <3> QED BY <3>1, <1>1, <1>2 DEF LaidAs
  <2> QED BY <2>1, <2>2
<1>9. ASSUME NEW k \in DOMAIN new, ~new[k].once
      PROVE  k \in 2..N + 1 /\ k - 1 \in DOMAIN list /\ new[k] = list[k - 1] /\ g[k] = f[k - 1]
             /\ new[k].orig > 0 /\ new[k].interval = f[N]
  <2>1. k \in 1..N + 1 /\ k \in 2..N + 1
    BY <1>2, <1>5, <1>9
  <2>2. k - 1 \in DOMAIN list /\ new[k] = list[k - 1] /\ g[k] = f[k - 1]
    BY <2>1, <1>2, <1>4
  <2> QED BY <2>1, <2>2, <1>1, <1>9 DEF LaidAs, N
<1>10. g[N + 1] = f[N]
  <2>1. PICK n \in 1..N + 1 : n = N + 1
    BY <1>2
  <2>2. n - 1 = N
    BY <2>1, <1>2
  <2>3. g[n] = f[n - 1]
    BY <1>4
  <2> QED BY <2>1, <2>2, <2>3
<1>11. \A j, k \in DOMAIN new :
         ~new[j].once /\ ~new[k].once => new[k].due - new[j].due = g[k] - g[j]
  <2> SUFFICES ASSUME NEW j \in DOMAIN new, NEW k \in DOMAIN new, ~new[j].once, ~new[k].once
               PROVE  new[k].due - new[j].due = g[k] - g[j]
    OBVIOUS
  <2>1. /\ j - 1 \in DOMAIN list /\ new[j] = list[j - 1] /\ g[j] = f[j - 1]
        /\ k - 1 \in DOMAIN list /\ new[k] = list[k - 1] /\ g[k] = f[k - 1]
    BY <1>9
  <2>2. \A x, y \in DOMAIN list :
          ~list[x].once /\ ~list[y].once => list[y].due - list[x].due = f[y] - f[x]
    BY <1>1 DEF LaidAs
  <2> QED BY <2>1, <2>2
<1>12. LaidAs(new, g)
  BY <1>2, <1>6, <1>7, <1>8, <1>9, <1>10, <1>11 DEF LaidAs
<1> QED BY <1>12 DEF Laid, new

\* A series timer goes to the tail, and the interval of all grows.
LEMMA LaidChained ==
  ASSUME NEW list \in Seq(Timer), list # <<>>, Laid(list), NEW t \in Timer, ~t.once, t.orig > 0
  PROVE  Chained(list, t) \in Seq(Timer) /\ Laid(Chained(list, t))
<1> DEFINE N == Len(list)
           new == Chained(list, t)
           e == [t EXCEPT !.due = list[N].due + t.orig]
           c == Append(list, e)
           cycle == t.orig + Shares(list)
<1>1. PICK f : LaidAs(list, f)
  BY DEF Laid
<1> DEFINE g == [n \in 0..N + 1 |-> IF n = N + 1 THEN cycle ELSE f[n]]
<1>2. /\ N \in Nat /\ N >= 1 /\ DOMAIN list = 1..N /\ \A k \in 1..N : list[k] \in Timer
  OBVIOUS
<1>3. /\ f \in [0..N -> Nat] /\ f[0] = 0
      /\ \A n \in 1..N : f[n] = f[n - 1] + list[n].orig
      /\ \A m, n \in 0..N : m <= n => f[m] <= f[n]
  BY <1>1 DEF LaidAs, Sums
<1>4. cycle = t.orig + f[N] /\ t.orig \in Nat /\ f[N] \in Nat /\ cycle \in Nat \ {0}
  <2>1. Shares(list) = f[N]
    BY <1>1, <1>2, SharesAre DEF LaidAs
  <2>2. t.orig \in Nat /\ N \in 0..N
    BY <1>2 DEF Timer
  <2> QED BY <2>1, <2>2, <1>3
<1>5. /\ e \in Timer /\ e.due = list[N].due + t.orig /\ ~e.once /\ e.orig = t.orig
      /\ list[N].due \in Int
  <2>1. list[N].due \in Int
    BY <1>2 DEF Timer
  <2>2. PICK d \in Int : d = list[N].due + t.orig
    BY <2>1, <1>4
  <2>3. e = [t EXCEPT !.due = d]
    BY <2>2
  <2>4. e \in Timer /\ e.due = d /\ e.once = t.once /\ e.orig = t.orig
    BY <2>3 DEF Timer
  <2> QED BY <2>1, <2>2, <2>4
<1>6. new = [k \in DOMAIN c |-> IF c[k].once THEN c[k] ELSE [c[k] EXCEPT !.interval = cycle]]
  BY DEF Chained, Last
<1> HIDE DEF e, cycle
<1>7. /\ c \in Seq(Timer) /\ Len(c) = N + 1 /\ DOMAIN c = 1..N + 1
      /\ c[N + 1] = e /\ \A k \in 1..N : c[k] = list[k]
  BY <1>2, <1>5
<1>8. \A k \in 1..N + 1 : k = N + 1 \/ k \in 1..N
  BY <1>2
<1> HIDE DEF c, new
<1>9. \A k \in 1..N + 1 :
        /\ new[k] \in Timer /\ new[k].once = c[k].once /\ new[k].orig = c[k].orig
        /\ new[k].due = c[k].due /\ (~new[k].once => new[k].interval = cycle)
  <2> SUFFICES ASSUME NEW k \in 1..N + 1
               PROVE  /\ new[k] \in Timer /\ new[k].once = c[k].once /\ new[k].orig = c[k].orig
                      /\ new[k].due = c[k].due /\ (~new[k].once => new[k].interval = cycle)
    OBVIOUS
  <2>1. c[k] \in Timer
    BY <1>7
  <2>2. new[k] = IF c[k].once THEN c[k] ELSE [c[k] EXCEPT !.interval = cycle]
    BY <1>6, <1>7
  <2> QED BY <2>1, <2>2, <1>4 DEF Timer
<1>10. /\ new \in Seq(Timer) /\ Len(new) = N + 1 /\ DOMAIN new = 1..N + 1
  <2>1. new = [k \in 1..N + 1 |-> new[k]]
    BY <1>6, <1>7
  <2>2. N + 1 \in Nat
    BY <1>2
  <2> QED BY <2>1, <2>2, <1>9
<1>11. /\ ~new[N + 1].once /\ new[N + 1].orig = t.orig /\ new[N + 1].due = list[N].due + t.orig
       /\ \A k \in 1..N : /\ new[k].once = list[k].once /\ new[k].orig = list[k].orig
                          /\ new[k].due = list[k].due
  <2>1. N + 1 \in 1..N + 1 /\ \A k \in 1..N : k \in 1..N + 1
    BY <1>2
  <2> QED BY <2>1, <1>5, <1>7, <1>9
<1>12. /\ g \in [0..N + 1 -> Nat] /\ g[0] = 0 /\ g[N + 1] = cycle
       /\ \A n \in 0..N : g[n] = f[n] /\ g[n] <= cycle
  <2>0. N \in 0..N
    BY <1>2
  <2>1. \A n \in 0..N : f[n] <= f[N] /\ n # N + 1 /\ f[n] \in Nat
    BY <2>0, <1>2, <1>3
  <2>2. \A n \in 0..N + 1 : n = N + 1 \/ n \in 0..N
    BY <1>2
  <2>3. 0 \in 0..N /\ N + 1 \in 0..N + 1
    BY <1>2
  <2>4. \A n \in 0..N : n \in 0..N + 1 /\ f[n] <= cycle
    BY <2>1, <1>2, <1>4
  <2> QED BY <2>1, <2>2, <2>3, <2>4, <1>3, <1>4
<1> HIDE DEF g, N
<1>13. Sums(new, g)
  <2>1. ASSUME NEW n \in 1..N + 1 PROVE g[n] = g[n - 1] + new[n].orig
    <3>1. CASE n = N + 1
      <4>1. n - 1 = N /\ N \in 0..N
        BY <3>1, <1>2
      <4> QED BY <4>1, <3>1, <1>4, <1>11, <1>12
    <3>2. CASE n \in 1..N
      <4>1. n \in 0..N /\ n - 1 \in 0..N
        BY <3>2, <1>2
      <4> QED BY <4>1, <3>2, <1>3, <1>11, <1>12
    <3> QED BY <3>1, <3>2, <1>8
  <2> QED BY <2>1, <1>10, <1>12 DEF Sums
<1>14. \A m, n \in 0..N + 1 : m <= n => g[m] <= g[n]
  <2> SUFFICES ASSUME NEW m \in 0..N + 1, NEW n \in 0..N + 1, m <= n
               PROVE  g[m] <= g[n]
    OBVIOUS
  <2>1. CASE m \in 0..N /\ n \in 0..N
    BY <2>1, <1>3, <1>12
  <2>2. CASE n = N + 1
    <3>1. m = N + 1 \/ m \in 0..N
      BY <1>2
    <3> QED BY <3>1, <2>2, <1>4, <1>12
  <2> QED BY <2>1, <2>2, <1>2
<1>15. \A j, k \in DOMAIN new : j < k /\ new[k].once => new[j].once
  <2> SUFFICES ASSUME NEW j \in 1..N + 1, NEW k \in 1..N + 1, j < k, new[k].once
               PROVE  new[j].once
    BY <1>10
  <2>1. k \in 1..N /\ j \in 1..N
    BY <1>2, <1>8, <1>11
  <2>2. \A x, y \in DOMAIN list : x < y /\ list[y].once => list[x].once
    BY <1>1 DEF LaidAs
  <2> QED BY <2>1, <2>2, <1>2, <1>11
<1>16. ASSUME NEW k \in DOMAIN new, ~new[k].once
       PROVE  new[k].orig > 0 /\ new[k].interval = g[N + 1]
  <2>1. CASE k = N + 1
    BY <2>1, <1>9, <1>10, <1>11, <1>12, <1>16
  <2>2. CASE k \in 1..N
    <3>1. list[k].orig > 0
      BY <2>2, <1>1, <1>2, <1>11, <1>16 DEF LaidAs
    <3> QED BY <3>1, <2>2, <1>9, <1>10, <1>11, <1>12, <1>16
  <2> QED BY <2>1, <2>2, <1>8, <1>10
<1>17. ASSUME NEW j \in 1..N, ~list[j].once
       PROVE  /\ new[N + 1].due - new[j].due = g[N + 1] - g[j]
              /\ new[j].due - new[N + 1].due = g[j] - g[N + 1]
  <2>1. ~list[N].once /\ N \in 1..N
    <3>1. \A x, y \in DOMAIN list : x < y /\ list[y].once => list[x].once
      BY <1>1 DEF LaidAs
    <3>2. N \in 1..N /\ (j = N \/ j < N)
      BY <1>2
    <3> QED BY <3>1, <3>2, <1>2, <1>17
  <2>2. list[N].due - list[j].due = f[N] - f[j]
    BY <2>1, <1>1, <1>2, <1>17 DEF LaidAs
  <2>3. list[j].due \in Int /\ list[N].due \in Int /\ j \in 0..N /\ N \in 0..N
    BY <1>2, <1>5 DEF Timer
  <2>4. f[j] \in Nat /\ g[j] = f[j] /\ g[N + 1] = t.orig + f[N]
    BY <2>3, <1>3, <1>4, <1>12
  <2>5. new[N + 1].due = list[N].due + t.orig /\ new[j].due = list[j].due
    BY <1>11
  <2>6. PICK x \in Int, y \in Int, u \in Nat, v \in Nat :
          x = list[j].due /\ y = list[N].due /\ u = f[j] /\ v = f[N]
    BY <2>3, <2>4, <1>4
  <2>7. y - x = v - u
    BY <2>2, <2>6
  <2>8. /\ new[N + 1].due = y + t.orig /\ new[j].due = x
        /\ g[N + 1] = t.orig + v /\ g[j] = u
    BY <2>4, <2>5, <2>6
  <2>9. PICK o \in Nat : o = t.orig
    BY <1>4
  <2>10. (y + o) - x = (o + v) - u /\ x - (y + o) = u - (o + v)
    BY <2>7
  <2> QED BY <2>8, <2>9, <2>10
<1>18. \A j, k \in DOMAIN new :
         ~new[j].once /\ ~new[k].once => new[k].due - new[j].due = g[k] - g[j]
  <2> SUFFICES ASSUME NEW j \in 1..N + 1, NEW k \in 1..N + 1, ~new[j].once, ~new[k].once
               PROVE  new[k].due - new[j].due = g[k] - g[j]
    BY <1>10
  <2>1. CASE j = N + 1 /\ k = N + 1
    <3>1. new[k].due \in Int /\ g[k] \in Nat
      BY <2>1, <1>4, <1>9, <1>12 DEF Timer
    <3> QED BY <3>1, <2>1
  <2>2. CASE j \in 1..N /\ k = N + 1
    BY <2>2, <1>11, <1>17
  <2>3. CASE j = N + 1 /\ k \in 1..N
    BY <2>3, <1>11, <1>17
  <2>4. CASE j \in 1..N /\ k \in 1..N
    <3>1. list[k].due - list[j].due = f[k] - f[j]
      BY <2>4, <1>1, <1>2, <1>11 DEF LaidAs
    <3>2. g[k] = f[k] /\ g[j] = f[j]
      <4>1. j \in 0..N /\ k \in 0..N
        BY <2>4
      <4> QED BY <4>1, <1>12
    <3> QED BY <3>1, <3>2, <2>4, <1>11
  <2> QED BY <2>1, <2>2, <2>3, <2>4, <1>8
<1>19. LaidAs(new, g)
  BY <1>10, <1>13, <1>14, <1>15, <1>16, <1>18 DEF LaidAs
<1> QED BY <1>10, <1>19 DEF Laid, new

\* Shares are positive: no two due times are a cycle apart.
LEMMA LaidStaggered ==
  ASSUME NEW list \in Seq(Timer), Laid(list)
  PROVE  OneCycle(list) /\ Staggered(list)
<1> DEFINE N == Len(list)
<1>1. PICK g : LaidAs(list, g)
  BY DEF Laid
<1>2. /\ N \in Nat /\ DOMAIN list = 1..N /\ \A k \in 1..N : list[k] \in Timer
  OBVIOUS
<1>3. OneCycle(list)
  BY <1>1 DEF LaidAs, OneCycle
<1>4. ASSUME NEW j \in 1..N, NEW k \in 1..N, j < k, ~list[j].once, ~list[k].once
      PROVE  /\ (list[j].due - list[k].due) % list[j].interval # 0
             /\ (list[k].due - list[j].due) % list[k].interval # 0
  <2> HIDE DEF N
  <2>1. /\ g \in [0..N -> Nat]
        /\ \A n \in 1..N : g[n] = g[n - 1] + list[n].orig
        /\ \A m, n \in 0..N : m <= n => g[m] <= g[n]
    BY <1>1 DEF LaidAs, Sums, N
  <2>2. /\ list[j].orig > 0 /\ list[k].orig > 0
        /\ list[j].interval = g[N] /\ list[k].interval = g[N]
        /\ list[k].due - list[j].due = g[k] - g[j]
    BY <1>1, <1>2, <1>4 DEF LaidAs, N
  <2>3. /\ j \in 0..N /\ k \in 0..N /\ j - 1 \in 0..N /\ k - 1 \in 0..N /\ N \in 0..N
        /\ j <= k - 1 /\ k <= N /\ list[j].orig \in Nat /\ list[k].orig \in Nat
        /\ list[j].due \in Int /\ list[k].due \in Int
    <3>1. N \in Nat /\ j \in 1..N /\ k \in 1..N /\ j < k
      BY <1>2, <1>4 DEF N
    <3>2. /\ j \in 0..N /\ k \in 0..N /\ j - 1 \in 0..N /\ k - 1 \in 0..N /\ N \in 0..N
          /\ j <= k - 1 /\ k <= N
      BY <3>1
    <3>3. list[j] \in Timer /\ list[k] \in Timer
      BY <3>1, <1>2 DEF N
    <3> QED BY <3>2, <3>3 DEF Timer
  <2>4. /\ g[j] \in Nat /\ g[k] \in Nat /\ g[N] \in Nat /\ g[j - 1] \in Nat
        /\ g[j] <= g[k - 1] /\ g[k - 1] \in Nat /\ g[k] = g[k - 1] + list[k].orig
        /\ g[j] = g[j - 1] + list[j].orig /\ g[k] <= g[N]
    BY <2>1, <2>3
  <2>5. PICK x \in Int, y \in Int, u \in Nat, v \in Nat, c \in Nat :
          x = list[j].due /\ y = list[k].due /\ u = g[j] /\ v = g[k] /\ c = g[N]
    BY <2>3, <2>4
  <2>6. u < v /\ v <= c /\ 0 < u
    <3>1. PICK p \in Nat, q \in Nat, d \in Nat, e \in Nat :
            p = g[k - 1] /\ q = g[j - 1] /\ d = list[k].orig /\ e = list[j].orig
      BY <2>3, <2>4
    <3>2. v = p + d /\ u = q + e /\ u <= p /\ d > 0 /\ e > 0 /\ v <= c
      BY <2>2, <2>4, <2>5, <3>1
    <3> QED BY <3>2
  <2>7. y - x = v - u
    BY <2>2, <2>5
  <2>8. PICK a \in Int : a = y - x
    OBVIOUS
  <2>9. 0 < a /\ a < c /\ c \in Nat \ {0} /\ x - y = -a
    BY <2>6, <2>7, <2>8
  <2>10. a % c # 0 /\ (-a) % c # 0
    BY <2>9, CloseApart
  <2>11. (x - y) % c # 0 /\ (y - x) % c # 0
    BY <2>8, <2>9, <2>10
  <2> QED BY <2>2, <2>5, <2>11
<1>5. Staggered(list)
  <2> SUFFICES ASSUME NEW j \in 1..N, NEW k \in 1..N, ~list[j].once, ~list[k].once, j # k
               PROVE  (list[j].due - list[k].due) % list[j].interval # 0
    BY <1>2 DEF Staggered
  <2>1. CASE j < k
    BY <2>1, <1>4
  <2>2. CASE k < j
    BY <2>2, <1>4
  <2> QED BY <2>1, <2>2, <1>2
<1> QED BY <1>3, <1>5

\* Timers that move by whole cycles, and all by the same shift, stay apart.
LEMMA MovedStaggered ==
  ASSUME NEW list \in Seq(Timer), NEW new, new = [k \in DOMAIN list |-> new[k]],
         NEW shift \in Int,
         \A k \in DOMAIN list :
           /\ new[k] \in Timer /\ new[k].once = list[k].once /\ new[k].interval = list[k].interval
           /\ ~list[k].once =>
                \E m \in Int : new[k].due = list[k].due + list[k].interval * m + shift
  PROVE  /\ new \in Seq(Timer) /\ DOMAIN new = DOMAIN list /\ Len(new) = Len(list)
         /\ OneCycle(list) => OneCycle(new)
         /\ OneCycle(list) /\ Staggered(list) => Staggered(new)
<1>1. /\ Len(list) \in Nat /\ DOMAIN list = 1..Len(list) /\ DOMAIN new = DOMAIN list
      /\ \A k \in DOMAIN list : list[k] \in Timer
  OBVIOUS
<1>2. new \in Seq(Timer) /\ Len(new) = Len(list)
  BY <1>1
<1>3. OneCycle(list) => OneCycle(new)
  BY <1>1 DEF OneCycle
<1>4. ASSUME OneCycle(list), Staggered(list), NEW j \in DOMAIN list, NEW k \in DOMAIN list,
             ~list[j].once, ~list[k].once, j # k
      PROVE  (new[j].due - new[k].due) % new[j].interval # 0
  <2>1. PICK n \in Nat \ {0}, x \in Int, y \in Int :
          n = list[j].interval /\ n = list[k].interval /\ x = list[j].due /\ y = list[k].due
    <3>1. PICK a \in Timer, b \in Timer : a = list[j] /\ b = list[k]
      BY <1>1
    <3>2. a.interval = b.interval
      BY <3>1, <1>4 DEF OneCycle
    <3>3. a.interval \in Nat \ {0} /\ a.due \in Int /\ b.due \in Int
      BY DEF Timer
    <3> QED BY <3>1, <3>2, <3>3
  <2>2. (x - y) % n # 0
    BY <2>1, <1>4 DEF Staggered
  <2>3. PICK p \in Int, q \in Int : new[j].due = x + n * p + shift /\ new[k].due = y + n * q + shift
    <3>1. PICK p \in Int : new[j].due = list[j].due + list[j].interval * p + shift
      BY <1>4
    <3>2. PICK q \in Int : new[k].due = list[k].due + list[k].interval * q + shift
      BY <1>4
    <3>3. new[j].due = x + n * p + shift /\ new[k].due = y + n * q + shift
      BY ONLY <2>1, <3>1, <3>2
    <3> QED BY ONLY <3>3, p \in Int, q \in Int
  <2>4. PICK u \in Int, v \in Int : u = n * p /\ v = n * q
    OBVIOUS
  <2>5. n * (p - q) = u - v
    BY <2>4
  <2>6. new[j].due = x + u + shift /\ new[k].due = y + v + shift
    BY <2>3, <2>4
  <2>7. (x + u + shift) - (y + v + shift) = (x - y) + n * (p - q)
    BY <2>5
  <2>8. PICK a \in Int, d \in Int : a = x - y /\ d = p - q
    OBVIOUS
  <2>9. a % n # 0 /\ (x + u + shift) - (y + v + shift) = a + n * d
    BY <2>2, <2>7, <2>8
  <2>10. (a + n * d) % n # 0
    BY <2>9, ShiftedApart
  <2>11. ((x + u + shift) - (y + v + shift)) % n # 0
    BY <2>9, <2>10
  <2> QED BY <2>1, <2>6, <2>11
<1> QED BY <1>1, <1>2, <1>3, <1>4 DEF Staggered

-----------------------------------------------------------------------------
(***************************************************************************)
(* The sleep.                                                              *)
(***************************************************************************)

\* The sleep is the shortest of the times it may be.
LEMMA SleepSoonest ==
  ASSUME NEW list \in Seq(Timer), NEW out
  PROVE  /\ Sleep(list, out) \in Nat /\ Sleep(list, out) <= Ceiling
         /\ \A k \in DOMAIN list \ out : list[k].due >= 0 => Sleep(list, out) <= list[k].due
<1> DEFINE times == {Ceiling} \cup {list[k].due : k \in {j \in DOMAIN list \ out : list[j].due >= 0}}
           soonest(n) == \A m \in times : n <= m
<1>1. Ceiling \in Nat
  BY TimersAssumption
<1>2. \A k \in DOMAIN list : list[k].due \in Int
  <2>1. \A k \in DOMAIN list : list[k] \in Timer
    OBVIOUS
  <2> QED BY <2>1 DEF Timer
<1>3. /\ times \in SUBSET Nat /\ Ceiling \in times
      /\ \A k \in DOMAIN list \ out : list[k].due >= 0 => list[k].due \in times
  BY <1>1, <1>2
<1>4. Sleep(list, out) = CHOOSE n \in times : soonest(n)
  BY DEF Sleep
<1> HIDE DEF times
<1>5. \E n \in times : soonest(n)
  BY <1>3, LeastNumber
<1>6. Sleep(list, out) \in times /\ soonest(Sleep(list, out))
  <2> HIDE DEF soonest
  <2> QED BY <1>4, <1>5
<1> QED BY <1>3, <1>6

\* A batch in list order has a poll for each of its timers.
LEMMA BatchWhole ==
  ASSUME NEW n \in Nat, NEW P \in SUBSET (1..n), NEW batch \in InListOrder(P)
  PROVE  /\ P \subseteq Members(batch) /\ batch \in Seq(P)
<1>0. \A p \in P : p \in Int
  <2>1. \A p \in 1..n : p \in Int
    OBVIOUS
  <2> QED BY <2>1
<1>1. IsFiniteSet(P) /\ Cardinality(P) \in Nat
  <2>1. IsFiniteSet(1..n)
    BY FS_Interval
  <2> QED BY <2>1, FS_Subset, FS_CardinalityType
<1>2. PICK c \in Nat : c = Cardinality(P)
  BY <1>1
<1>3. batch \in [1..c -> P] /\ \A i, j \in 1..c : i < j => batch[i] < batch[j]
  BY <1>2 DEF InListOrder
<1>4. batch \in Injection(1..c, P)
  <2>1. ASSUME NEW i \in 1..c, NEW j \in 1..c, batch[i] = batch[j] PROVE i = j
    <3>1. PICK x \in Int : x = batch[i] /\ x = batch[j]
      <4>1. batch[i] \in P
        BY <1>3
      <4>2. batch[i] \in Int
        BY <4>1, <1>0
      <4> QED BY <2>1, <4>2
    <3>2. ~(x < x)
      OBVIOUS
    <3>3. ~(i < j) /\ ~(j < i)
      BY <3>1, <3>2, <1>3
    <3> QED BY <3>3
  <2> QED BY <2>1, <1>3 DEF Injection, IsInjective
<1>5. IsFiniteSet(1..c) /\ Cardinality(1..c) = c
  <2>1. 1 \in Int /\ c \in Int /\ (IF 1 > c THEN 0 ELSE c - 1 + 1) = c
    OBVIOUS
  <2> QED BY <2>1, FS_Interval
<1>6. batch \in Surjection(1..c, P)
  BY <1>1, <1>2, <1>4, <1>5, FS_Injection
<1>7. DOMAIN batch = 1..c
  BY <1>3
<1> QED BY <1>3, <1>6, <1>7 DEF Surjection, Members

-----------------------------------------------------------------------------
(***************************************************************************)
(* The schedule: before the program has subscribed to everything nothing   *)
(* runs, and a series list is laid; from then on its timers stay apart.    *)
(***************************************************************************)
NotYet == ~Subscribed => ~connected /\ queue = <<>> /\ done = {} /\ sleep = Returned

InSeries ==
  setup.mode = "series" =>
    OneCycle(timers) /\ Staggered(timers) /\ (~Subscribed => Laid(timers))

Schedule == TypeOK /\ NotYet /\ NoOversleep /\ InSeries

LEMMA InitSchedule == Init => Schedule
<1> SUFFICES ASSUME Init PROVE Schedule
  OBVIOUS
<1> USE DEF Init
<1>1. TypeOK
  <2>1. TimersInv
    BY InitInv
  <2>2. timers \in Seq(Timer) /\ queue \in Seq(Places)
    BY DEF Places
  <2> QED BY <2>1, <2>2 DEF TypeOK, TimersInv, Returned, Places
<1>2. NotYet /\ NoOversleep
  BY DEF NotYet, NoOversleep
<1>3. OneCycle(timers) /\ Staggered(timers)
  BY DEF OneCycle, Staggered
<1> QED BY <1>1, <1>2, <1>3, LaidEmpty DEF Schedule, InSeries

\* A once timer retries after OnceRetry and takes no share.
LEMMA NewTimerTyped ==
  ASSUME setup \in Setups, Len(timers) \in Nat, Len(timers) < Len(setup.inputs),
         NEW t, t = NewTimer(setup.inputs[Len(timers) + 1])
  PROVE  /\ t \in Timer /\ t.due = 0
         /\ t.once => t.orig = 0
         /\ ~t.once => t.interval = t.orig /\ t.orig > 0
<1>1. setup.inputs \in Seq([slave : 0..255, interval : {Once} \cup (Nat \ {0})])
  BY TimersAssumption
<1>2. PICK n \in DOMAIN setup.inputs : n = Len(timers) + 1
  BY <1>1
<1>3. PICK i \in [slave : 0..255, interval : {Once} \cup (Nat \ {0})] : i = setup.inputs[n]
  <2>1. PICK S : S = [slave : 0..255, interval : {Once} \cup (Nat \ {0})]
    OBVIOUS
  <2>2. PICK q \in Seq(S) : q = setup.inputs
    BY <1>1, <2>1
  <2>3. q[n] \in S
    BY <1>2, <2>2
  <2> QED BY <2>1, <2>2, <2>3
<1>4. i.slave \in Slaves
  BY <1>2, <1>3 DEF Slaves
<1>5. OnceRetry \in Nat \ {0}
  BY TimersAssumption
<1>6. t = NewTimer(i)
  BY <1>2, <1>3
<1>7. i.interval \in {Once} \cup (Nat \ {0}) /\ Once \notin Nat
  BY DEF Once
<1>8. CASE i.interval = Once
  <2>1. t = [slave |-> i.slave, once |-> TRUE, interval |-> OnceRetry, orig |-> 0, due |-> 0]
    BY <1>6, <1>8 DEF NewTimer
  <2> QED BY <2>1, <1>4, <1>5 DEF Timer
<1>9. CASE i.interval # Once
  <2>1. PICK d \in Nat \ {0} : d = i.interval
    BY <1>7, <1>9
  <2>2. t = [slave |-> i.slave, once |-> FALSE, interval |-> d, orig |-> d, due |-> 0]
    BY <1>6, <1>9, <2>1 DEF NewTimer
  <2> QED BY <2>1, <2>2, <1>4 DEF Timer
<1> QED BY <1>8, <1>9

LEMMA SubscribeSchedule ==
  ASSUME Schedule, TimersInv', Subscribe
  PROVE  Schedule'
<1> DEFINE t == NewTimer(setup.inputs[Len(timers) + 1])
<1>1. /\ timers \in Seq(Timer) /\ Len(timers) \in Nat /\ Len(timers) < Len(setup.inputs)
      /\ setup \in Setups
      /\ UNCHANGED <<setup, done, health, queue, connected, sleep, troubled, since>>
  BY DEF Schedule, TypeOK, Subscribe
<1>2. ~Subscribed /\ ~connected /\ queue = <<>> /\ done = {} /\ sleep = Returned
  <2>1. Len(setup.inputs) \in Nat
    BY <1>1, TimersAssumption
  <2> QED BY <1>1, <2>1 DEF Schedule, NotYet, Subscribed
<1>3. /\ t \in Timer /\ t.due = 0
      /\ t.once => t.orig = 0
      /\ ~t.once => t.interval = t.orig /\ t.orig > 0
  BY <1>1, NewTimerTyped
<1>4. \/ (timers = <<>> \/ t.once) /\ timers' = <<t>> \o timers
      \/ timers # <<>> /\ ~t.once /\ setup.mode = "series" /\ timers' = Chained(timers, t)
      \/ setup.mode # "series" /\ \E n \in LongerFrom(timers, t) : timers' = InsertAt(timers, n, t)
  BY DEF Subscribe
<1> HIDE DEF t
<1>5. timers' \in Seq(Timer) /\ (setup.mode = "series" => Laid(timers'))
  <2>1. setup.mode = "series" => Laid(timers)
    BY <1>2 DEF Schedule, InSeries
  <2>2. CASE t.once /\ timers' = <<t>> \o timers
    BY <2>1, <2>2, <1>1, <1>3, LaidOnce
  <2>3. CASE timers = <<>> /\ ~t.once /\ timers' = <<t>> \o timers
    <3>1. timers' = <<t>>
      BY <2>3
    <3> QED BY <3>1, <2>3, <1>3, LaidSingle
  <2>4. CASE timers # <<>> /\ ~t.once /\ setup.mode = "series" /\ timers' = Chained(timers, t)
    BY <2>1, <2>4, <1>1, <1>3, LaidChained
  <2>5. CASE setup.mode # "series" /\ \E n \in LongerFrom(timers, t) : timers' = InsertAt(timers, n, t)
    <3>1. PICK n \in 1..Len(timers) + 1 : timers' = InsertAt(timers, n, t)
      BY <2>5 DEF LongerFrom
    <3>2. PICK a, b : a = SubSeq(timers, 1, n - 1) /\ b = SubSeq(timers, n, Len(timers))
      OBVIOUS
    <3>3. a \in Seq(Timer) /\ b \in Seq(Timer) /\ <<t>> \in Seq(Timer)
      BY <1>1, <1>3, <3>2
    <3>4. timers' = (a \o <<t>>) \o b
      BY <3>1, <3>2 DEF InsertAt
    <3>5. a \o <<t>> \in Seq(Timer)
      BY <3>3
    <3> QED BY <2>5, <3>3, <3>4, <3>5
  <2> QED BY <1>4, <2>2, <2>3, <2>4, <2>5
<1>6. TypeOK'
  BY <1>1, <1>2, <1>5 DEF Schedule, TypeOK, TimersInv
<1>7. NotYet' /\ NoOversleep'
  BY <1>1, <1>2 DEF NotYet, NoOversleep
<1>8. InSeries'
  BY <1>1, <1>5, LaidStaggered DEF InSeries
<1> QED BY <1>6, <1>7, <1>8 DEF Schedule

\* The timers may move by whole cycles, and all by the same shift.
Moved(shift) ==
  /\ timers' = [k \in Places |-> timers'[k]]
  /\ \A k \in Places :
       /\ timers'[k] \in Timer /\ timers'[k].once = timers[k].once
       /\ timers'[k].slave = timers[k].slave /\ timers'[k].interval = timers[k].interval
       /\ ~timers[k].once =>
            \E m \in Int : timers'[k].due = timers[k].due + timers[k].interval * m + shift

LEMMA MovedSchedule ==
  ASSUME Schedule, NEW shift \in Int, Moved(shift), setup' = setup
  PROVE  /\ timers' \in Seq(Timer) /\ Places' = Places /\ Subscribed' = Subscribed
         /\ Subscribed => InSeries'
<1>1. timers \in Seq(Timer)
  BY DEF Schedule, TypeOK
<1>2. /\ timers' \in Seq(Timer) /\ DOMAIN timers' = DOMAIN timers /\ Len(timers') = Len(timers)
      /\ OneCycle(timers) => OneCycle(timers')
      /\ OneCycle(timers) /\ Staggered(timers) => Staggered(timers')
  BY <1>1, MovedStaggered DEF Moved, Places
<1>3. Places' = Places /\ Subscribed' = Subscribed
  BY <1>2 DEF Places, Subscribed
<1>4. Subscribed => InSeries'
  BY <1>2, <1>3 DEF Schedule, InSeries
<1> QED BY <1>2, <1>3, <1>4

\* Once timers are due now, the others stay where they are.
LEMMA RearmedMoved ==
  ASSUME Schedule, NEW K, K \subseteq {k \in Places : timers[k].once}, timers' = Rearmed(K)
  PROVE  Moved(0)
<1>1. timers' = [k \in Places |-> IF k \in K THEN [timers[k] EXCEPT !.due = 0] ELSE timers[k]]
  BY DEF Rearmed
<1>2. ASSUME NEW k \in Places
      PROVE  /\ timers'[k] \in Timer /\ timers'[k].once = timers[k].once
             /\ timers'[k].slave = timers[k].slave /\ timers'[k].interval = timers[k].interval
             /\ ~timers[k].once =>
                  \E m \in Int : timers'[k].due = timers[k].due + timers[k].interval * m + 0
  <2>1. PICK old \in Timer : old = timers[k]
    BY DEF Schedule, TypeOK, Places
  <2>2. CASE k \in K
    <3>1. timers'[k] = [old EXCEPT !.due = 0] /\ old.once
      BY <1>1, <2>1, <2>2
    <3>2. PICK new : new = [old EXCEPT !.due = 0]
      OBVIOUS
    <3>3. new \in Timer /\ new.once /\ new.slave = old.slave /\ new.interval = old.interval
      BY <3>1, <3>2 DEF Timer
    <3> QED BY <2>1, <3>1, <3>2, <3>3
  <2>3. CASE k \notin K
    <3>1. timers'[k] = old
      BY <1>1, <2>1, <2>3
    <3>2. PICK d \in Int, i \in Nat : d = old.due /\ i = old.interval
      BY DEF Timer
    <3>3. d = d + i * 0 + 0
      OBVIOUS
    <3> QED BY <2>1, <3>1, <3>2, <3>3
  <2> QED BY <2>2, <2>3
<1> QED BY <1>1, <1>2 DEF Moved

\* When poll() returns there is no sleep to outlast a timer.
LEMMA ReturnedSchedule ==
  ASSUME Schedule, TimersInv', Subscribed, Moved(0), sleep' = Returned,
         done' \subseteq {k \in Places : timers[k].once}, connected' \in BOOLEAN,
         UNCHANGED <<setup, troubled>>
  PROVE  Schedule'
<1>1. /\ timers' \in Seq(Timer) /\ Places' = Places /\ Subscribed' = Subscribed
      /\ Subscribed => InSeries'
  <2>1. 0 \in Int /\ setup' = setup
    OBVIOUS
  <2> QED BY <2>1, MovedSchedule
<1>2. done' \subseteq {k \in Places' : timers'[k].once}
  BY <1>1 DEF Moved
<1>3. TypeOK'
  BY <1>1, <1>2 DEF Schedule, TypeOK, TimersInv
<1>4. NotYet' /\ NoOversleep'
  BY <1>1 DEF NotYet, NoOversleep
<1> QED BY <1>1, <1>3, <1>4 DEF Schedule

LEMMA AnsweredSchedule ==
  ASSUME Schedule, TimersInv', NEW good \in BOOLEAN, Answered(good)
  PROVE  Schedule'
<1>1. Subscribed
  BY DEF Schedule, NotYet, Answered
<1>2. RearmedByAnswer \subseteq {k \in Places : timers[k].once}
  BY DEF RearmedByAnswer, OnceOf
<1>3. Moved(0)
  BY <1>2, RearmedMoved DEF Answered
<1>4. done' \subseteq {k \in Places : timers[k].once}
  BY DEF Answered, OnceOf, Schedule, TypeOK
<1>5. sleep' = Returned /\ connected' \in BOOLEAN /\ UNCHANGED <<setup, troubled>>
  BY DEF Answered, Schedule, TypeOK
<1> QED BY <1>1, <1>3, <1>4, <1>5, ReturnedSchedule

LEMMA RejectedSchedule ==
  ASSUME Schedule, TimersInv', Rejected
  PROVE  Schedule'
<1>1. Subscribed /\ sleep' = Returned /\ UNCHANGED <<setup, timers, done, connected, troubled>>
  BY DEF Schedule, NotYet, Rejected
<1>2. Moved(0)
  <2>1. timers' = Rearmed({})
    BY <1>1 DEF Rearmed, Schedule, TypeOK, Places
  <2> QED BY <2>1, RearmedMoved
<1>3. done' \subseteq {k \in Places : timers[k].once} /\ connected' \in BOOLEAN
  BY <1>1 DEF Schedule, TypeOK
<1> QED BY <1>1, <1>2, <1>3, ReturnedSchedule

LEMMA LinkLostSchedule ==
  ASSUME Schedule, TimersInv', LinkLost
  PROVE  Schedule'
<1>1. /\ Subscribed /\ sleep' = Returned /\ connected' \in BOOLEAN /\ done' = {}
      /\ UNCHANGED <<setup, troubled>>
      /\ timers' = Rearmed(UNION {OnceOf(s) : s \in Slaves})
  BY DEF Schedule, NotYet, LinkLost
<1>2. UNION {OnceOf(s) : s \in Slaves} \subseteq {k \in Places : timers[k].once}
  BY DEF OnceOf
<1>3. Moved(0)
  BY <1>1, <1>2, RearmedMoved
<1> QED BY <1>1, <1>3, ReturnedSchedule

\* Time passes: every timer that is not done comes a tick closer, and so does
\* the end of the sleep.
LEMMA TickSchedule ==
  ASSUME Schedule, TimersInv, TimersInv', Tick
  PROVE  Schedule'
<1>1. /\ Subscribed
      /\ timers' = [k \in Places |-> IF k \in done THEN timers[k] ELSE [timers[k] EXCEPT !.due = @ - 1]]
      /\ health' = [s \in Slaves |-> [health[s] EXCEPT !.left = LessOne(@)]]
      /\ sleep' = IF sleep = Returned THEN Returned ELSE sleep - 1
      /\ UNCHANGED <<setup, done, queue, connected, troubled>>
  BY DEF Tick
<1>2. \A k \in Places : timers[k] \in Timer
  BY DEF Schedule, TypeOK, Places
<1>3. \A k \in done : k \in Places /\ timers[k].once
  BY DEF Schedule, TypeOK
<1>4. ASSUME NEW k \in Places
      PROVE  /\ timers'[k] \in Timer /\ timers'[k].once = timers[k].once
             /\ timers'[k].slave = timers[k].slave /\ timers'[k].interval = timers[k].interval
             /\ k \notin done => timers'[k].due = timers[k].due - 1
  <2>1. PICK old \in Timer : old = timers[k]
    BY <1>2
  <2>2. CASE k \in done
    BY <1>1, <2>1, <2>2
  <2>3. CASE k \notin done
    <3>1. PICK d \in Int : d = old.due - 1
      BY DEF Timer
    <3>2. timers'[k] = [old EXCEPT !.due = d]
      BY <1>1, <2>1, <2>3, <3>1
    <3> QED BY <2>1, <2>3, <3>1, <3>2 DEF Timer
  <2> QED BY <2>2, <2>3
<1>5. Moved(-1)
  <2>1. ASSUME NEW k \in Places, ~timers[k].once
        PROVE  \E m \in Int : timers'[k].due = timers[k].due + timers[k].interval * m + (-1)
    <3>1. timers'[k].due = timers[k].due - 1
      BY <1>3, <1>4, <2>1
    <3>2. PICK d \in Int, i \in Nat : d = timers[k].due /\ i = timers[k].interval
      BY <1>2 DEF Timer
    <3>3. d - 1 = d + i * 0 + (-1)
      OBVIOUS
    <3> QED BY <3>1, <3>2, <3>3
  <2> QED BY <1>1, <1>4, <2>1 DEF Moved
<1>6. /\ timers' \in Seq(Timer) /\ Places' = Places /\ Subscribed' = Subscribed /\ InSeries'
  <2>1. -1 \in Int /\ setup' = setup
    BY <1>1
  <2> QED BY <2>1, <1>1, <1>5, MovedSchedule
<1>7. sleep \in {Returned} \cup Nat /\ sleep' \in {Returned} \cup Nat
  BY <1>1 DEF Schedule, TypeOK, Returned
<1>8. TypeOK'
  BY <1>1, <1>3, <1>4, <1>6, <1>7 DEF Schedule, TypeOK, TimersInv
<1>9. NotYet'
  BY <1>1, <1>6 DEF NotYet
<1>10. NoOversleep'
  <2> SUFFICES ASSUME sleep' # Returned
               PROVE  /\ sleep' <= Ceiling
                      /\ \A k \in Places \ (done \cup Queued) :
                           (health[timers[k].slave].unresponsive)' \/ sleep' <= timers'[k].due
    BY <1>1, <1>6 DEF NoOversleep, Queued
  <2>1. sleep \in Nat /\ sleep' = sleep - 1 /\ Ceiling \in Nat
    BY <1>1, <1>7, TimersAssumption
  <2>2. sleep # Returned
    BY <1>1
  <2>3. sleep <= Ceiling /\ \A k \in Places \ (done \cup Queued) :
          health[timers[k].slave].unresponsive \/ sleep <= timers[k].due
    BY <2>2 DEF Schedule, NoOversleep
  <2>4. ASSUME NEW k \in Places \ (done \cup Queued)
        PROVE  (health[timers[k].slave].unresponsive)' \/ sleep' <= timers'[k].due
    <3>1. PICK s \in Slaves, d \in Int : s = timers[k].slave /\ d = timers[k].due
      BY <1>2 DEF Timer
    <3>2. timers'[k].slave = s /\ timers'[k].due = d - 1
      BY <1>4, <2>4, <3>1
    <3>3. health[s] \in Health /\ health'[s] = [health[s] EXCEPT !.left = LessOne(@)]
      BY <1>1 DEF Schedule, TypeOK
    <3>4. health'[s].unresponsive = health[s].unresponsive
      BY <3>3 DEF Health
    <3>5. CASE health[s].unresponsive
      BY <3>2, <3>4, <3>5
    <3>6. CASE sleep <= d
      BY <2>1, <3>2, <3>6
    <3> QED BY <2>3, <3>1, <3>5, <3>6
  <2> QED BY <2>1, <2>3, <2>4
<1> QED BY <1>6, <1>8, <1>9, <1>10 DEF Schedule

\* A turn of the loop: a timer that is due moves on by its interval, and the
\* loop sleeps until the first of those that may post next.
LEMMA LoopPrepareSchedule ==
  ASSUME Schedule, TimersInv, TimersInv', NEW evict \in BOOLEAN, LoopPrepare(evict)
  PROVE  Schedule'
<1>1. PICK q : q = IF evict THEN Tail(queue) ELSE queue
  OBVIOUS
<1>2. PICK h : h = IF evict THEN [health EXCEPT ![HeadSlave] = Missed(@)] ELSE health
  OBVIOUS
<1>3. PICK due : due = Due(q)
  OBVIOUS
<1>4. PICK P : P = Passed(h, due)
  OBVIOUS
<1>5. PICK probed : probed = ProbedBy(h, P)
  OBVIOUS
<1>6. PICK batch \in InListOrder(P) : queue' = q \o batch
  BY <1>1, <1>2, <1>3, <1>4 DEF LoopPrepare
<1>7. /\ timers' = [k \in Places |-> IF k \in due
                                     THEN [timers[k] EXCEPT !.due = @ + timers[k].interval]
                                     ELSE timers[k]]
      /\ sleep' = Sleep(timers', done)
      /\ Subscribed /\ UNCHANGED <<setup, done, connected, troubled>>
      /\ evict => queue # <<>>
  BY <1>1, <1>3 DEF LoopPrepare
<1>8. health' = [s \in Slaves |-> IF s \in probed THEN [h[s] EXCEPT !.left = h[s].retry] ELSE h[s]]
  BY <1>1, <1>2, <1>3, <1>4, <1>5 DEF LoopPrepare
<1>9. /\ q \in Seq(Places) /\ h \in [Slaves -> Health]
      /\ Places = 1..Len(timers) /\ Len(timers) \in Nat
  <2>1. q \in Seq(Places) /\ h \in [Slaves -> Health]
    BY <1>1, <1>2, <1>7, EvictInv
  <2> QED BY <2>1, PlacesFinite DEF TimersInv
<1>10. /\ due \subseteq Places /\ P \subseteq due
       /\ \A k \in due \ P : h[timers[k].slave].unresponsive
  BY <1>3, <1>4 DEF Due, Passed
<1>11. P \subseteq Queued' /\ Members(q) \subseteq Queued'
  <2>1. P \in SUBSET (1..Len(timers))
    BY <1>9, <1>10
  <2>2. P \subseteq Members(batch) /\ batch \in Seq(P)
    BY <1>9, <2>1, BatchWhole
  <2>3. DOMAIN queue' = 1..Len(q) + Len(batch) /\ Len(q) \in Nat /\ Len(batch) \in Nat
    BY <1>6, <1>9, <2>2
  <2>4. ASSUME NEW k \in DOMAIN batch PROVE batch[k] \in Queued'
    <3>1. queue'[Len(q) + k] = batch[k] /\ Len(q) + k \in DOMAIN queue'
      BY <1>6, <1>9, <2>2, <2>3
    <3> QED BY <3>1 DEF Queued
  <2>5. ASSUME NEW k \in DOMAIN q PROVE q[k] \in Queued'
    <3>1. queue'[k] = q[k] /\ k \in DOMAIN queue'
      BY <1>6, <1>9, <2>2, <2>3
    <3> QED BY <3>1 DEF Queued
  <2> QED BY <2>2, <2>4, <2>5 DEF Members
<1>12. \A k \in Places : timers[k] \in Timer
  BY DEF Schedule, TypeOK, Places
<1>13. ASSUME NEW k \in Places
       PROVE  /\ timers'[k] \in Timer /\ timers'[k].once = timers[k].once
              /\ timers'[k].slave = timers[k].slave /\ timers'[k].interval = timers[k].interval
              /\ k \notin due => timers'[k].due = timers[k].due
              /\ \E m \in Int : timers'[k].due = timers[k].due + timers[k].interval * m + 0
  <2>1. PICK old \in Timer : old = timers[k]
    BY <1>12
  <2>2. PICK d \in Int, i \in Nat : d = old.due /\ i = old.interval
    BY DEF Timer
  <2>3. CASE k \notin due
    <3>1. timers'[k] = old
      BY <1>7, <2>1, <2>3
    <3>2. d = d + i * 0 + 0
      OBVIOUS
    <3> QED BY <2>1, <2>2, <2>3, <3>1, <3>2
  <2>4. CASE k \in due
    <3>1. PICK e \in Int : e = d + i
      OBVIOUS
    <3>2. PICK new : new = [old EXCEPT !.due = e]
      OBVIOUS
    <3>3. timers'[k] = new
      BY <1>7, <2>1, <2>2, <2>4, <3>1, <3>2
    <3>4. /\ new \in Timer /\ new.due = e /\ new.once = old.once
          /\ new.slave = old.slave /\ new.interval = i
      BY <2>2, <3>2 DEF Timer
    <3>5. e = d + i * 1 + 0
      BY <3>1
    <3> QED BY <2>1, <2>2, <2>4, <3>3, <3>4, <3>5
  <2> QED BY <2>3, <2>4
<1>14. Moved(0)
  BY <1>7, <1>13 DEF Moved
<1>15. /\ timers' \in Seq(Timer) /\ Places' = Places /\ Subscribed' = Subscribed /\ InSeries'
  <2>1. 0 \in Int /\ setup' = setup
    BY <1>7
  <2> QED BY <2>1, <1>7, <1>14, MovedSchedule
<1>16. /\ sleep' \in Nat /\ sleep' <= Ceiling
       /\ \A k \in Places \ done : timers'[k].due >= 0 => sleep' <= timers'[k].due
  <2>1. PICK list \in Seq(Timer) : list = timers'
    BY <1>15
  <2>2. DOMAIN list = Places /\ sleep' = Sleep(list, done)
    BY <1>7, <1>15, <2>1 DEF Places
  <2> QED BY <2>1, <2>2, SleepSoonest
<1>17. TypeOK'
  <2>1. done' \subseteq {k \in Places' : timers'[k].once}
    BY <1>7, <1>13, <1>15 DEF Schedule, TypeOK
  <2> QED BY <2>1, <1>7, <1>15, <1>16 DEF Schedule, TypeOK, TimersInv
<1>18. NotYet'
  BY <1>7, <1>15 DEF NotYet
<1>19. ASSUME NEW k \in Places, k \notin done, k \notin Queued'
       PROVE  (health[timers[k].slave].unresponsive)' \/ sleep' <= timers'[k].due
  <2>1. PICK s \in Slaves, d \in Int : s = timers[k].slave /\ d = timers[k].due
    BY <1>12 DEF Timer
  <2>2. timers'[k].slave = s /\ (k \notin due => timers'[k].due = d)
    BY <1>13, <2>1
  <2>3. health'[s].unresponsive = h[s].unresponsive
    <3>1. PICK g \in Health : g = h[s]
      BY <1>9
    <3>2. [g EXCEPT !.left = g.retry].unresponsive = g.unresponsive
      BY DEF Health
    <3> QED BY <1>8, <3>1, <3>2
  <2>4. CASE k \in due
    <3>1. h[s].unresponsive
      BY <1>10, <1>11, <1>19, <2>1, <2>4
    <3> QED BY <2>2, <2>3, <3>1
  <2>5. CASE k \notin due
    <3>1. \A j \in DOMAIN q : q[j] # k
      BY <1>11, <1>19 DEF Members
    <3>2. ~(d <= 0)
      BY <1>3, <1>19, <2>1, <2>5, <3>1 DEF Due
    <3>3. d >= 0 /\ timers'[k].due = d
      BY <2>2, <2>5, <3>2
    <3>4. sleep' <= timers'[k].due
      BY <1>16, <1>19, <3>3
    <3> QED BY <3>4
  <2> QED BY <2>4, <2>5
<1>20. NoOversleep'
  BY <1>7, <1>15, <1>16, <1>19 DEF NoOversleep
<1> QED BY <1>7, <1>15, <1>17, <1>18, <1>20 DEF Schedule

\* The schedule holds in the initial states and every step keeps it.
LEMMA ScheduleStep ==
  ASSUME Schedule, TimersInv, TimersInv', [Next]_vars
  PROVE  Schedule'
<1>1. CASE \E evict \in BOOLEAN : LoopPrepare(evict)
  BY <1>1, LoopPrepareSchedule
<1>2. CASE \E good \in BOOLEAN : Answered(good)
  BY <1>2, AnsweredSchedule
<1>3. CASE Rejected
  BY <1>3, RejectedSchedule
<1>4. CASE LinkLost
  BY <1>4, LinkLostSchedule
<1>5. CASE Subscribe
  BY <1>5, SubscribeSchedule
<1>6. CASE Tick
  BY <1>6, TickSchedule
<1>7. CASE Connect \/ (\E s \in Fallible : FailOrRepair(s)) \/ UNCHANGED vars
  <2>1. /\ UNCHANGED <<setup, timers, done, health, queue, sleep, since>>
        /\ connected' \in BOOLEAN /\ troubled' \subseteq Fallible
        /\ connected' => Subscribed \/ connected
    <3>1. connected \in BOOLEAN /\ troubled \subseteq Fallible
      BY DEF Schedule, TypeOK
    <3>2. CASE Connect
      BY <3>1, <3>2 DEF Connect
    <3>3. CASE \E s \in Fallible : FailOrRepair(s)
      BY <3>1, <3>3 DEF FailOrRepair
    <3>4. CASE UNCHANGED vars
      BY <3>1, <3>4 DEF vars
    <3> QED BY <1>7, <3>2, <3>3, <3>4
  <2>2. TypeOK' /\ NotYet'
    BY <2>1 DEF Schedule, TypeOK, NotYet, Subscribed, Places
  <2>3. NoOversleep' /\ InSeries'
    BY <2>1 DEF Schedule, NoOversleep, InSeries, Subscribed, Places, Queued
  <2> QED BY <2>2, <2>3 DEF Schedule
<1> QED
  BY <1>1, <1>2, <1>3, <1>4, <1>5, <1>6, <1>7 DEF Next, Resolve

LEMMA ScheduleInvariant == Spec => []Schedule
<1>1. TimersInv /\ TimersInv' /\ Schedule /\ [Next]_vars => Schedule'
  BY ScheduleStep
<1> QED
  BY <1>1, InitSchedule, TimersInvariant, PTL DEF Spec

-----------------------------------------------------------------------------
\* The variables keep their types: the list modbusmq_subscribe() builds holds
\* timers, polls in the queue name timers of it, and what counts as done is a
\* once timer.
THEOREM TypeCorrect == Spec => []TypeOK
<1>1. Schedule => TypeOK
  BY DEF Schedule
<1> QED
  BY <1>1, ScheduleInvariant, PTL

\* The sleep modbusmq_loop_prepare() asks for never outlasts a timer that may
\* post: late timers wrap, but were moved on or have their poll queued.
THEOREM NoOversleepProved == Spec => []NoOversleep
<1>1. Schedule => NoOversleep
  BY DEF Schedule
<1> QED
  BY <1>1, ScheduleInvariant, PTL

\* However many inputs a series configuration has and whatever their
\* intervals, the chaining of modbusmq_subscribe() and the catch-up of
\* modbusmq_loop_prepare() never bring two of them to the same due time.
THEOREM SeriesStaggeredProved == Spec => []SeriesStaggered
<1>1. Schedule => SeriesStaggered
  BY DEF Schedule, InSeries, Staggered, SeriesStaggered, Places
<1> QED
  BY <1>1, ScheduleInvariant, PTL
=============================================================================
