------------------------- MODULE RequestQueueProofs -------------------------
(***************************************************************************)
(* Proofs about RequestQueue, for any number of requests and timers.  The  *)
(* type invariant, HeadStays, GapHoldsRequest and that writes go ahead of  *)
(* polls hold whatever caller and callbacks do; that each kind is finished *)
(* in order, that every request is reported once, that only the head       *)
(* is on the wire, that the raw slot matches the queue and that the        *)
(* promise of RequestService is kept are proved for callbacks that may     *)
(* post, but not while modbusmq_reset_queue() empties the queue.           *)
(***************************************************************************)
EXTENDS RequestQueue, SequenceTheorems, TLAPS

-----------------------------------------------------------------------------
(***************************************************************************)
(* What the operators on queues do.                                        *)
(***************************************************************************)

\* Inserting behind element n: the first n elements stay, the others shift.
LEMMA InsertAtProperties ==
  ASSUME NEW S, NEW q \in Seq(S), NEW r \in S, NEW n \in 0..Len(q)
  PROVE  /\ InsertAt(q, n + 1, r) \in Seq(S)
         /\ Len(InsertAt(q, n + 1, r)) = Len(q) + 1
         /\ \A k \in 1..(Len(q) + 1) :
              InsertAt(q, n + 1, r)[k] = IF k <= n THEN q[k]
                                         ELSE IF k = n + 1 THEN r ELSE q[k - 1]
<1> DEFINE a == SubSeq(q, 1, n)
           c == SubSeq(q, n + 1, Len(q))
<1>1. /\ a \in Seq(S) /\ Len(a) = n
      /\ \A i \in 1..n : a[i] = q[i]
  <2>1. \A i \in 1..n : q[i] \in S
    OBVIOUS
  <2> QED BY <2>1, SubSeqProperties
<1>2. /\ c \in Seq(S) /\ Len(c) = Len(q) - n
      /\ \A i \in 1..(Len(q) - n) : c[i] = q[n + i]
  <2>1. \A i \in (n + 1)..Len(q) : q[i] \in S
    OBVIOUS
  <2> QED BY <2>1, SubSeqProperties
<1> HIDE DEF a, c
<1> DEFINE ab == a \o <<r>>
<1>4. /\ ab \in Seq(S) /\ Len(ab) = n + 1
      /\ \A i \in 1..(n + 1) : ab[i] = IF i <= n THEN q[i] ELSE r
  <2> DEFINE one == <<r>>
  <2>1. one \in Seq(S) /\ Len(one) = 1 /\ one[1] = r
    OBVIOUS
  <2> HIDE DEF one
  <2>2. /\ a \o one \in Seq(S) /\ Len(a \o one) = Len(a) + Len(one)
        /\ \A i \in 1..(Len(a) + Len(one)) :
             (a \o one)[i] = IF i <= Len(a) THEN a[i] ELSE one[i - Len(a)]
    BY <1>1, <2>1, ConcatProperties
  <2> DEFINE aone == a \o one
  <2> HIDE DEF aone
  <2>3. /\ aone \in Seq(S) /\ Len(aone) = n + 1
        /\ \A i \in 1..(n + 1) : aone[i] = IF i <= n THEN a[i] ELSE one[i - n]
    BY <2>2, <2>1, <1>1 DEF aone
  <2>4. \A i \in 1..(n + 1) : aone[i] = IF i <= n THEN q[i] ELSE r
    BY <2>3, <2>1, <1>1
  <2> QED BY <2>3, <2>4 DEF aone, one
<1> HIDE DEF ab
<1>5. /\ ab \o c \in Seq(S) /\ Len(ab \o c) = Len(ab) + Len(c)
      /\ \A i \in 1..(Len(ab) + Len(c)) :
           (ab \o c)[i] = IF i <= Len(ab) THEN ab[i] ELSE c[i - Len(ab)]
  BY <1>4, <1>2, ConcatProperties
<1> DEFINE abc == ab \o c
<1> HIDE DEF abc
<1>6. /\ abc \in Seq(S) /\ Len(abc) = Len(q) + 1
      /\ \A i \in 1..(Len(q) + 1) : abc[i] = IF i <= n + 1 THEN ab[i] ELSE c[i - (n + 1)]
  BY <1>5, <1>4, <1>2 DEF abc
<1>7. \A k \in 1..(Len(q) + 1) :
        abc[k] = IF k <= n THEN q[k] ELSE IF k = n + 1 THEN r ELSE q[k - 1]
  <2> SUFFICES ASSUME NEW k \in 1..(Len(q) + 1)
               PROVE  abc[k] = IF k <= n THEN q[k] ELSE IF k = n + 1 THEN r ELSE q[k - 1]
    OBVIOUS
  <2>1. CASE k <= n + 1
    BY <2>1, <1>6, <1>4
  <2>2. CASE k > n + 1
    <3>1. k - (n + 1) \in 1..(Len(q) - n) /\ n + (k - (n + 1)) = k - 1
      BY <2>2
    <3>2. c[k - (n + 1)] = q[k - 1]
      BY <3>1, <1>2
    <3> QED BY <2>2, <3>2, <1>6
  <2> QED BY <2>1, <2>2
<1>8. InsertAt(q, n + 1, r) = abc
  <2>1. PICK i : i = n + 1 /\ i - 1 = n
    OBVIOUS
  <2>2. InsertAt(q, i, r) = SubSeq(q, 1, i - 1) \o <<r>> \o SubSeq(q, i, Len(q))
    BY DEF InsertAt
  <2> QED BY <2>1, <2>2, Zenon DEF abc, ab, a, c
<1> QED BY <1>6, <1>7, <1>8

\* A write takes one place of the queue; what was queued keeps its order and,
\* unless the queue was empty, its head.
LEMMA PostedProperties ==
  ASSUME NEW q \in Seq(Wrapper), NEW r \in Wrapper, NEW p \in Posted(q, r)
  PROVE  /\ p \in Seq(Wrapper)
         /\ Len(p) = Len(q) + 1
         /\ \E n \in 0..Len(q) :
              /\ q # <<>> => n # 0
              /\ \A k \in 1..Len(p) : p[k] = IF k <= n THEN q[k]
                                             ELSE IF k = n + 1 THEN r ELSE q[k - 1]
<1>1. CASE q = <<>>
  <2>1. p = <<r>>
    BY <1>1 DEF Posted
  <2>2. Len(q) = 0
    BY <1>1
  <2> QED BY <2>1, <2>2, <1>1
<1>2. CASE q # <<>>
  <2>1. PICK n \in 1..Len(q) : p = InsertAt(q, n + 1, r)
    BY <1>2 DEF Posted
  <2>2. n \in 0..Len(q)
    OBVIOUS
  <2> DEFINE i == InsertAt(q, n + 1, r)
  <2>3. /\ i \in Seq(Wrapper)
        /\ Len(i) = Len(q) + 1
        /\ \A k \in 1..(Len(q) + 1) : i[k] = IF k <= n THEN q[k]
                                             ELSE IF k = n + 1 THEN r ELSE q[k - 1]
    BY <2>2, InsertAtProperties
  <2> HIDE DEF i
  <2> QED BY <2>1, <2>2, <2>3 DEF i
<1> QED BY <1>1, <1>2

\* The ids of a queue a write was posted to.
LEMMA PostedIds ==
  ASSUME NEW q \in Seq(Wrapper), NEW r \in Wrapper, NEW p \in Posted(q, r)
  PROVE  /\ QueuedIds(p) = QueuedIds(q) \cup {r.id}
         /\ p # <<>>
         /\ q # <<>> => Head(p) = Head(q)
         /\ q = <<>> => Head(p) = r
<1>1. PICK n \in 0..Len(q) :
        /\ q # <<>> => n # 0
        /\ \A k \in 1..Len(p) : p[k] = IF k <= n THEN q[k]
                                       ELSE IF k = n + 1 THEN r ELSE q[k - 1]
  BY PostedProperties
<1>2. p \in Seq(Wrapper) /\ Len(p) = Len(q) + 1
  BY PostedProperties
<1>3. DOMAIN p = 1..(Len(q) + 1) /\ DOMAIN q = 1..Len(q)
  BY <1>2
<1>4. ASSUME NEW k \in DOMAIN p PROVE p[k].id \in QueuedIds(q) \cup {r.id}
  <2>1. k <= n => k \in DOMAIN q /\ p[k] = q[k]
    BY <1>1, <1>2, <1>3
  <2>2. k > n + 1 => (k - 1) \in DOMAIN q /\ p[k] = q[k - 1]
    BY <1>1, <1>2, <1>3
  <2>3. k = n + 1 => p[k] = r
    BY <1>1, <1>2, <1>3
  <2>4. k \in Nat
    BY <1>3
  <2> QED BY <2>1, <2>2, <2>3, <2>4 DEF QueuedIds
<1>5. ASSUME NEW k \in DOMAIN q PROVE q[k].id \in QueuedIds(p)
  <2>1. CASE k <= n
    <3>1. k \in DOMAIN p /\ p[k] = q[k]
      BY <1>1, <1>2, <1>3, <2>1
    <3> QED BY <3>1 DEF QueuedIds
  <2>2. CASE k > n
    <3>1. (k + 1) \in DOMAIN p /\ p[k + 1] = q[k]
      BY <1>1, <1>2, <1>3, <2>2
    <3> QED BY <3>1 DEF QueuedIds
  <2> QED BY <2>1, <2>2, <1>3
<1>6. r.id \in QueuedIds(p)
  <2>1. (n + 1) \in DOMAIN p /\ p[n + 1] = r
    BY <1>1, <1>2, <1>3
  <2> QED BY <2>1 DEF QueuedIds
<1>7. QueuedIds(p) = QueuedIds(q) \cup {r.id}
  BY <1>4, <1>5, <1>6 DEF QueuedIds
<1>8. p # <<>> /\ Head(p) = p[1]
  BY <1>2
<1>9. q # <<>> => Head(p) = Head(q)
  BY <1>1, <1>2, <1>8
<1>10. q = <<>> => Head(p) = r
  BY <1>1, <1>2, <1>8
<1> QED BY <1>7, <1>8, <1>9, <1>10

\* The poll requests of a batch of due timers.
LEMMA PollsProperties ==
  ASSUME NEW q \in Seq(Wrapper), NEW b \in DueBatches(q), NEW n \in 1..(MaxReq + 1),
         n + Len(b) <= MaxReq + 1
  PROVE  /\ b \in Seq(1..NTimers)
         /\ Len(b) \in Nat
         /\ Polls(b, n) \in Seq(Wrapper)
         /\ Len(Polls(b, n)) = Len(b)
         /\ \A i \in 1..Len(b) : Polls(b, n)[i] = PollRequest(n + i - 1, b[i])
<1> USE QueueAssumption
<1>1. PICK k \in 0..NTimers : b \in [1..k -> (1..NTimers) \ QueuedTimers(q)]
  BY DEF DueBatches
<1>2. b \in Seq(1..NTimers) /\ Len(b) = k
  BY <1>1
<1>3. ASSUME NEW i \in 1..Len(b) PROVE PollRequest(n + i - 1, b[i]) \in Wrapper
  <2>1. b[i] \in 0..NTimers
    BY <1>2
  <2>2. n + i - 1 \in Ids
    BY <1>2 DEF Ids
  <2> QED BY <2>1, <2>2 DEF PollRequest, PostRequest, Wrapper
<1>4. Polls(b, n) = [i \in 1..Len(b) |-> PollRequest(n + i - 1, b[i])]
  BY DEF Polls
<1> DEFINE p == Polls(b, n)
<1>5. p \in [1..Len(b) -> Wrapper]
  BY <1>3, <1>4
<1>6. p \in Seq(Wrapper) /\ Len(p) = Len(b)
  <2> HIDE DEF p
  <2> QED BY <1>5, <1>2
<1> QED BY <1>2, <1>4, <1>6

-----------------------------------------------------------------------------
(***************************************************************************)
(* Type correctness.                                                       *)
(***************************************************************************)
PartType == [queue : Seq(Wrapper), raw : {NoId} \cup Ids, next : 1..(MaxReq + 1)]

LEMMA PostRequestType ==
  ASSUME NEW n \in 1..MaxReq, NEW b \in BOOLEAN
  PROVE  /\ PostRequest(n, b) \in Wrapper
         /\ PostRequest(n, b).id = n
         /\ PostRequest(n, b).xmit = "none"
         /\ ~PostRequest(n, b).seen
BY QueueAssumption DEF PostRequest, Wrapper, Ids

\* Reporting may add one raw request and takes nothing out of the queue.
LEMMA ReportedType ==
  ASSUME NEW s \in PartType, NEW id, NEW posts, NEW t \in Reported(s, id, posts)
  PROVE  /\ t \in PartType
         /\ s.next <= t.next
         /\ s.queue # <<>> => t.queue # <<>> /\ Head(t.queue) = Head(s.queue)
<1> USE QueueAssumption
<1>1. CASE t = s \/ t = [s EXCEPT !.raw = NoId]
  BY <1>1 DEF PartType
<1>2. CASE /\ posts /\ s.next <= MaxReq
           /\ \E q \in Posted(s.queue, PostRequest(s.next, FALSE)) :
                t = [queue |-> q, raw |-> s.next, next |-> s.next + 1]
  <2>1. s.next \in 1..MaxReq /\ s.queue \in Seq(Wrapper)
    BY <1>2 DEF PartType
  <2>2. PICK q \in Posted(s.queue, PostRequest(s.next, FALSE)) :
          t = [queue |-> q, raw |-> s.next, next |-> s.next + 1]
    BY <1>2
  <2>3. PostRequest(s.next, FALSE) \in Wrapper
    BY <2>1, PostRequestType
  <2>4. /\ q \in Seq(Wrapper) /\ q # <<>>
        /\ s.queue # <<>> => Head(q) = Head(s.queue)
    BY <2>1, <2>3, PostedProperties, PostedIds
  <2> QED BY <2>1, <2>2, <2>4 DEF PartType, Ids
<1> QED BY <1>1, <1>2 DEF Reported

LEMMA UnlinkedType ==
  ASSUME NEW s \in PartType, s.queue # <<>>, NEW t \in Unlinked(s)
  PROVE  t \in PartType /\ s.next <= t.next
<1>1. PICK u \in Reported(s, Head(s.queue).id, CallbackPosts) : t = [u EXCEPT !.queue = Tail(@)]
  BY DEF Unlinked
<1>2. u \in PartType /\ s.next <= u.next /\ u.queue # <<>>
  BY <1>1, ReportedType
<1>3. u.queue \in Seq(Wrapper)
  BY <1>2 DEF PartType
<1>4. Tail(u.queue) \in Seq(Wrapper)
  BY <1>2, <1>3
<1> QED BY <1>1, <1>2, <1>4 DEF PartType

LEMMA ResetType ==
  ASSUME NEW s \in PartType, NEW t \in Reset(s)
  PROVE  t \in PartType /\ s.next <= t.next /\ t.queue = <<>>
<1>1. PICK u : /\ u = s \/ u \in Reported(s, s.raw, CallbackPosts /\ ResetPosts)
               /\ t = [u EXCEPT !.queue = <<>>]
  BY DEF Reset
<1>2. u \in PartType /\ s.next <= u.next
  <2>1. CASE u = s
    BY <2>1, QueueAssumption DEF PartType
  <2>2. CASE u \in Reported(s, s.raw, CallbackPosts /\ ResetPosts)
    BY <2>2, ReportedType
  <2> QED BY <1>1, <2>1, <2>2
<1>3. <<>> \in Seq(Wrapper)
  OBVIOUS
<1>4. t = [queue |-> <<>>, raw |-> u.raw, next |-> u.next]
  BY <1>1, <1>2 DEF PartType
<1> QED BY <1>2, <1>3, <1>4 DEF PartType

LEMMA NowType == TypeOK => Now \in PartType /\ Now.queue = queue /\ Now.raw = raw /\ Now.next = next
BY DEF TypeOK, Now, PartType

\* What Commit leaves behind is well typed.
LEMMA CommitType ==
  ASSUME TypeOK, NEW s \in PartType, NEW ids, NEW w \in SUBSET Ids, Commit(s, ids, w)
  PROVE  /\ queue' \in Seq(Wrapper)
         /\ raw' \in {NoId} \cup Ids
         /\ next' \in 1..(MaxReq + 1)
         /\ writes' \subseteq Ids
         /\ answers' \in [Ids -> Nat]
<1>1. queue' = s.queue /\ raw' = s.raw /\ next' = s.next /\ writes' = writes \cup w
  BY DEF Commit
<1>2. answers' = [i \in Ids |-> answers[i] + (IF i \in ids THEN 1 ELSE 0)]
  BY DEF Commit
<1>3. answers' \in [Ids -> Nat]
  BY <1>2 DEF TypeOK
<1> QED BY <1>1, <1>3 DEF PartType, TypeOK

LEMMA FinishType ==
  ASSUME TypeOK, queue # <<>>, Finish
  PROVE  /\ queue' \in Seq(Wrapper)
         /\ raw' \in {NoId} \cup Ids
         /\ next' \in 1..(MaxReq + 1)
         /\ writes' \subseteq Ids
         /\ answers' \in [Ids -> Nat]
         /\ expired' = FALSE
<1>1. PICK s \in Unlinked(Now) : /\ Commit(s, {Head(queue).id}, next..(s.next - 1))
                                 /\ expired' = FALSE
  BY DEF Finish
<1>2. s \in PartType /\ next <= s.next
  BY <1>1, NowType, UnlinkedType
<1>3. next..(s.next - 1) \in SUBSET Ids
  BY <1>2, QueueAssumption DEF PartType, TypeOK, Ids
<1> QED BY <1>1, <1>2, <1>3, CommitType

LEMMA HeadReplaced ==
  ASSUME NEW q \in Seq(Wrapper), q # <<>>, NEW w \in Wrapper
  PROVE  LET p == [q EXCEPT ![1] = w]
         IN /\ p \in Seq(Wrapper)
            /\ Len(p) = Len(q)
            /\ p[1] = w
            /\ \A k \in 1..Len(q) : k # 1 => p[k] = q[k]
BY ExceptSeq

LEMMA SeenType ==
  ASSUME NEW q \in Seq(Wrapper)
  PROVE  /\ Seen(q) \in Seq(Wrapper)
         /\ Len(Seen(q)) = Len(q)
         /\ \A k \in 1..Len(q) : Seen(q)[k].id = q[k].id
         /\ \A k \in 1..Len(q) : Seen(q)[k].xmit = q[k].xmit
         /\ \A k \in 1..Len(q) : k # 1 => Seen(q)[k] = q[k]
<1>1. CASE q = <<>>
  BY <1>1 DEF Seen
<1>2. CASE q # <<>>
  <2> DEFINE w == [q[1] EXCEPT !.seen = TRUE]
  <2>1. 1 \in 1..Len(q) /\ q[1] \in Wrapper
    BY <1>2
  <2>2. w \in Wrapper /\ w.id = q[1].id /\ w.xmit = q[1].xmit
    BY <2>1 DEF Wrapper
  <2>3. Seen(q) = [q EXCEPT ![1] = w]
    BY <1>2 DEF Seen
  <2> HIDE DEF w
  <2> QED BY <2>1, <2>2, <2>3, HeadReplaced
<1> QED BY <1>1, <1>2

LEMMA WantedType ==
  ASSUME NEW q, NEW b PROVE Wanted(q, b) \subseteq {"POLLIN", "POLLOUT"}
BY DEF Wanted

\* The part of the state LoopPrepare appends the polls to, and what it leaves.
LEMMA LoopPrepareType ==
  ASSUME TypeOK, LoopPrepare
  PROVE  TypeOK'
<1> USE QueueAssumption
<1> DEFINE evict == queue # <<>> /\ expired
           quiet == gap \/ (FrameDelay /\ evict /\ Head(queue).xmit = "all")
<1> DEFINE Took(s, b) ==
          /\ s.next + Len(b) <= MaxReq + 1
          /\ Commit([queue |-> s.queue \o Polls(b, s.next), raw |-> s.raw, next |-> s.next + Len(b)],
                    IF evict THEN {Head(queue).id} ELSE {}, next..(s.next - 1))
          /\ expired' = (expired /\ ~evict)
          /\ gap' = quiet
          /\ events' = Wanted(s.queue \o Polls(b, s.next), quiet)
<1>0. PICK s \in (IF evict THEN Unlinked(Now) ELSE {[Now EXCEPT !.queue = Seen(@)]}) :
        \E b \in DueBatches(s.queue) : Took(s, b)
  BY DEF LoopPrepare
<1>1. PICK b \in DueBatches(s.queue) : Took(s, b)
  BY <1>0
<1>2. s \in PartType /\ next <= s.next
  <2>1. CASE evict
    BY <2>1, <1>0, NowType, UnlinkedType
  <2>2. CASE ~evict
    <3>1. s = [queue |-> Seen(queue), raw |-> raw, next |-> next]
      BY <2>2, <1>0 DEF Now
    <3> QED BY <3>1, SeenType DEF PartType, TypeOK
  <2> QED BY <2>1, <2>2
<1> DEFINE p == Polls(b, s.next)
<1>3. p \in Seq(Wrapper) /\ Len(p) = Len(b) /\ Len(b) \in Nat
  BY <1>1, <1>2, PollsProperties DEF PartType
<1>4. s.queue \o p \in Seq(Wrapper)
  <2> HIDE DEF p
  <2> QED BY <1>2, <1>3 DEF PartType
<1>5. [queue |-> s.queue \o p, raw |-> s.raw, next |-> s.next + Len(b)] \in PartType
  <2> HIDE DEF p
  <2> QED BY <1>1, <1>2, <1>3, <1>4 DEF PartType
<1>6. next..(s.next - 1) \in SUBSET Ids
  BY <1>2 DEF PartType, TypeOK, Ids
<1>7. /\ queue' \in Seq(Wrapper)
      /\ raw' \in {NoId} \cup Ids
      /\ next' \in 1..(MaxReq + 1)
      /\ writes' \subseteq Ids
      /\ answers' \in [Ids -> Nat]
  BY <1>1, <1>5, <1>6, CommitType
<1>8. expired' \in BOOLEAN /\ gap' \in BOOLEAN
  BY <1>1 DEF TypeOK
<1>9. events' \subseteq {"POLLIN", "POLLOUT"} /\ connected' = connected
  BY <1>1, WantedType DEF LoopPrepare
<1> QED BY <1>7, <1>8, <1>9 DEF TypeOK

LEMMA NextType ==
  ASSUME TypeOK, [Next]_vars
  PROVE  TypeOK'
<1> USE QueueAssumption
<1>1. ASSUME NEW b \in BOOLEAN, Post(b) \/ RawRequest(b) PROVE TypeOK'
  <2>1. next \in 1..MaxReq /\ next' = next + 1 /\ queue' \in Posted(queue, PostRequest(next, b))
    BY <1>1 DEF Post, RawRequest, TypeOK
  <2>2. PostRequest(next, b) \in Wrapper
    BY <2>1, PostRequestType
  <2>3. queue' \in Seq(Wrapper)
    BY <2>1, <2>2, PostedProperties DEF TypeOK
  <2>4. raw' \in {NoId} \cup Ids /\ writes' \subseteq Ids
    BY <1>1, <2>1 DEF Post, RawRequest, TypeOK, Ids
  <2>5. next' \in 1..(MaxReq + 1)
    BY <2>1
  <2>6. UNCHANGED <<connected, events, expired, gap, answers>>
    BY <1>1 DEF Post, RawRequest, bus
  <2> QED BY <2>3, <2>4, <2>5, <2>6 DEF TypeOK
<1>2. CASE LoopPrepare
  BY <1>2, LoopPrepareType
<1>3. ASSUME NEW x \in {"none", "part", "all"}, WriteRequest(x) PROVE TypeOK'
  <2>1. CASE x = "all" /\ Head(queue).bcast
    BY <1>3, <2>1, FinishType DEF WriteRequest, TypeOK
  <2>2. CASE ~(x = "all" /\ Head(queue).bcast)
    <3> DEFINE w == [queue[1] EXCEPT !.xmit = x]
    <3>2. queue \in Seq(Wrapper) /\ queue # <<>>
      BY <1>3 DEF WriteRequest, TypeOK
    <3>3. w \in Wrapper
      <4>1. queue[1] \in Wrapper
        BY <3>2
      <4> QED BY <4>1 DEF Wrapper
    <3>4. queue' = [queue EXCEPT ![1] = w]
      BY <1>3, <2>2 DEF WriteRequest
    <3>1. queue' \in Seq(Wrapper)
      <4> HIDE DEF w
      <4> QED BY <3>2, <3>3, <3>4, HeadReplaced
    <3> QED BY <1>3, <2>2, <3>1 DEF WriteRequest, TypeOK
  <2> QED BY <2>1, <2>2
<1>4. CASE WriteInGap
  BY <1>4, FinishType DEF WriteInGap, TypeOK
<1>5. CASE ReadMore
  BY <1>5 DEF ReadMore, TypeOK
<1>6. CASE ReadAnswer
  BY <1>6, FinishType DEF ReadAnswer, TypeOK
<1>7. CASE LinkLost
  <2>0. PICK s \in (IF queue = <<>> THEN {Now} ELSE Unlinked(Now)) : \E t \in Reset(s) :
          Commit(t, QueuedIds(queue) \cup QueuedIds(s.queue), next..(t.next - 1))
    BY <1>7 DEF LinkLost
  <2>1. PICK t \in Reset(s) :
          Commit(t, QueuedIds(queue) \cup QueuedIds(s.queue), next..(t.next - 1))
    BY <2>0
  <2>2. s \in PartType /\ next <= s.next
    BY <2>0, NowType, UnlinkedType DEF TypeOK
  <2>3. t \in PartType /\ s.next <= t.next
    BY <2>1, <2>2, ResetType
  <2>4. next..(t.next - 1) \in SUBSET Ids
    <3>1. PICK n \in 1..(MaxReq + 1) : n = t.next
      BY <2>3 DEF PartType
    <3>2. next \in 1..(MaxReq + 1) /\ MaxReq \in Nat
      BY QueueAssumption DEF TypeOK
    <3>3. next..(n - 1) \subseteq 1..MaxReq
      BY <3>2
    <3> QED BY <3>1, <3>3 DEF Ids
  <2>5. /\ queue' \in Seq(Wrapper)
        /\ raw' \in {NoId} \cup Ids
        /\ next' \in 1..(MaxReq + 1)
        /\ writes' \subseteq Ids
        /\ answers' \in [Ids -> Nat]
    BY <2>1, <2>3, <2>4, CommitType
  <2> QED BY <1>7, <2>5 DEF LinkLost, TypeOK
<1>8. CASE Connect \/ TimeoutElapses \/ GapElapses
  BY <1>8 DEF Connect, TimeoutElapses, GapElapses, TypeOK
<1>9. CASE UNCHANGED vars
  BY <1>9 DEF vars, TypeOK
<1> QED BY <1>1, <1>2, <1>3, <1>4, <1>5, <1>6, <1>7, <1>8, <1>9 DEF Next

\* Every variable keeps its type, whatever the callbacks and the caller do.
THEOREM TypeCorrect == Spec => []TypeOK
<1>1. Init => TypeOK
  <2> HAVE Init
  <2>1. <<>> \in Seq(Wrapper) /\ [i \in Ids |-> 0] \in [Ids -> Nat] /\ 1 \in 1..(MaxReq + 1)
    BY QueueAssumption
  <2> QED BY <2>1 DEF Init, TypeOK
<1>2. TypeOK /\ [Next]_vars => TypeOK'
  BY NextType
<1> QED BY <1>1, <1>2, PTL DEF Spec

-----------------------------------------------------------------------------
(***************************************************************************)
(* The head: it stays while its request is out, and while the gap holds it.*)
(***************************************************************************)
LEMMA HeadIn ==
  ASSUME NEW q \in Seq(Wrapper), q # <<>>
  PROVE  /\ 1 \in 1..Len(q) /\ Head(q) = q[1] /\ Head(q) \in Wrapper
         /\ Head(q).id \in Ids /\ Head(q).id \in QueuedIds(q)
<1>1. 1 \in 1..Len(q) /\ Head(q) = q[1] /\ Head(q) \in Wrapper /\ 1 \in DOMAIN q
  OBVIOUS
<1>2. Head(q).id \in Ids
  BY <1>1 DEF Wrapper
<1>3. q[1].id \in QueuedIds(q)
  BY <1>1 DEF QueuedIds
<1> QED BY <1>1, <1>2, <1>3

LEMMA ConcatHead ==
  ASSUME NEW q \in Seq(Wrapper), NEW p \in Seq(Wrapper), q # <<>>
  PROVE  q \o p # <<>> /\ Head(q \o p) = Head(q)
<1>1. Len(q) > 0 /\ Len(q) \in Nat /\ Len(p) \in Nat
  OBVIOUS
<1>2. /\ q \o p \in Seq(Wrapper) /\ Len(q \o p) = Len(q) + Len(p)
      /\ (q \o p)[1] = q[1]
  BY <1>1, ConcatProperties
<1> DEFINE c == q \o p
<1> HIDE DEF c
<1>3. c \in Seq(Wrapper) /\ Len(c) > 0 /\ c[1] = q[1]
  BY <1>1, <1>2 DEF c
<1>4. c # <<>> /\ Head(c) = q[1]
  BY <1>3
<1> QED BY <1>4 DEF c

\* A reported request is one answer richer.
LEMMA CommitAnswers ==
  ASSUME TypeOK, NEW s, NEW ids, NEW w, Commit(s, ids, w), NEW id \in Ids, id \in ids
  PROVE  answers'[id] # answers[id]
<1>1. answers' = [i \in Ids |-> answers[i] + (IF i \in ids THEN 1 ELSE 0)]
  BY DEF Commit
<1>2. answers'[id] = answers[id] + 1 /\ answers[id] \in Nat
  BY <1>1 DEF TypeOK
<1> QED BY <1>2

LEMMA FinishAnswers ==
  ASSUME TypeOK, queue # <<>>, Finish
  PROVE  answers'[Head(queue).id] # answers[Head(queue).id]
<1>1. PICK s \in Unlinked(Now) : Commit(s, {Head(queue).id}, next..(s.next - 1))
  BY DEF Finish
<1>2. Head(queue).id \in Ids
  BY HeadIn DEF TypeOK
<1> QED BY <1>1, <1>2, CommitAnswers

\* LoopPrepare without an eviction leaves the head where and what it is.
LEMMA LoopPrepareHead ==
  ASSUME TypeOK, LoopPrepare, queue # <<>>
  PROVE  \/ answers'[Head(queue).id] # answers[Head(queue).id] /\ expired
         \/ /\ queue' # <<>>
            /\ Head(queue').id = Head(queue).id
            /\ Head(queue').xmit = Head(queue).xmit
<1> USE QueueAssumption
<1>1. CASE expired
  <2>1. \E s : Commit(s, {Head(queue).id}, next..(s.next - 1))
           \/ \E t, n : Commit(t, {Head(queue).id}, n)
    BY <1>1 DEF LoopPrepare
  <2>2. Head(queue).id \in Ids
    BY HeadIn DEF TypeOK
  <2>3. answers'[Head(queue).id] # answers[Head(queue).id]
    BY <2>1, <2>2, CommitAnswers
  <2> QED BY <1>1, <2>3
<1>2. CASE ~expired
  <2> DEFINE s == [queue |-> Seen(queue), raw |-> raw, next |-> next]
  <2>1. [Now EXCEPT !.queue = Seen(@)] = s
    BY DEF Now
  <2>2. PICK b \in DueBatches(s.queue) :
          /\ s.next + Len(b) <= MaxReq + 1
          /\ queue' = s.queue \o Polls(b, s.next)
    BY <1>2, <2>1 DEF LoopPrepare, Commit
  <2>3. PICK p \in Seq(Wrapper) : queue' = Seen(queue) \o p
    BY <2>2, PollsProperties, SeenType DEF TypeOK
  <2>4. Seen(queue) \in Seq(Wrapper) /\ Seen(queue) # <<>>
    BY SeenType DEF TypeOK
  <2>5. queue' # <<>> /\ Head(queue') = Head(Seen(queue))
    BY <2>3, <2>4, ConcatHead
  <2>6. Head(Seen(queue)).id = Head(queue).id /\ Head(Seen(queue)).xmit = Head(queue).xmit
    <3>1. queue \in Seq(Wrapper) /\ 1 \in 1..Len(queue) /\ Len(Seen(queue)) = Len(queue)
      BY SeenType, HeadIn DEF TypeOK
    <3>2. Head(Seen(queue)) = Seen(queue)[1] /\ Head(queue) = queue[1]
      BY <3>1, <2>4, HeadIn
    <3>3. Seen(queue)[1].id = queue[1].id /\ Seen(queue)[1].xmit = queue[1].xmit
      <4>1. /\ \A k \in 1..Len(queue) : Seen(queue)[k].id = queue[k].id
            /\ \A k \in 1..Len(queue) : Seen(queue)[k].xmit = queue[k].xmit
        BY <3>1, SeenType, Zenon
      <4> QED BY <3>1, <4>1
    <3> QED BY <3>2, <3>3
  <2> QED BY <2>5, <2>6
<1> QED BY <1>1, <1>2 DEF TypeOK

\* A write posted to a queue that is not empty leaves its head.
LEMMA PostHead ==
  ASSUME TypeOK, queue # <<>>, NEW b \in BOOLEAN, Post(b) \/ RawRequest(b)
  PROVE  queue' # <<>> /\ Head(queue') = Head(queue)
<1>1. next \in 1..MaxReq /\ queue' \in Posted(queue, PostRequest(next, b))
  BY QueueAssumption DEF Post, RawRequest, TypeOK
<1>2. PostRequest(next, b) \in Wrapper
  BY <1>1, PostRequestType
<1> QED BY <1>1, <1>2, PostedIds DEF TypeOK

\* The first byte of a request pins it to the head until it is reported,
\* whatever is posted meanwhile and whichever way the exchange ends.
THEOREM HeadStaysProved == Spec => HeadStays
<1> DEFINE Stays == /\ queue # <<>>
                    /\ Head(queue).xmit # "none"
                    /\ answers'[Head(queue).id] = answers[Head(queue).id]
                    => queue' # <<>> /\ Head(queue').id = Head(queue).id
<1>1. TypeOK /\ [Next]_vars => [Stays]_vars
  <2> SUFFICES ASSUME TypeOK, Next, queue # <<>>,
                      answers'[Head(queue).id] = answers[Head(queue).id]
               PROVE  queue' # <<>> /\ Head(queue').id = Head(queue).id
    OBVIOUS
  <2>1. ASSUME NEW b \in BOOLEAN, Post(b) \/ RawRequest(b)
        PROVE  queue' # <<>> /\ Head(queue').id = Head(queue).id
    BY <2>1, PostHead
  <2>2. CASE LoopPrepare
    BY <2>2, LoopPrepareHead
  <2>3. ASSUME NEW x \in {"none", "part", "all"}, WriteRequest(x)
        PROVE  queue' # <<>> /\ Head(queue').id = Head(queue).id
    <3>1. queue' = [queue EXCEPT ![1].xmit = x]
      BY <2>3, FinishAnswers DEF WriteRequest
    <3>2. queue \in Seq(Wrapper) /\ queue[1] \in Wrapper
      BY DEF TypeOK
    <3>3. [queue[1] EXCEPT !.xmit = x] \in Wrapper
      BY <3>2 DEF Wrapper
    <3>4. PICK w \in Wrapper : queue' = [queue EXCEPT ![1] = w] /\ w.id = queue[1].id
      BY <3>1, <3>2, <3>3 DEF Wrapper
    <3>5. queue' \in Seq(Wrapper) /\ Len(queue') = Len(queue) /\ queue'[1] = w
      BY <3>2, <3>4, HeadReplaced
    <3> QED BY <3>2, <3>4, <3>5
  <2>4. CASE WriteInGap
    BY <2>4, FinishAnswers DEF WriteInGap
  <2>5. CASE ReadAnswer
    BY <2>5, FinishAnswers DEF ReadAnswer
  <2>6. CASE LinkLost
    <3>1. PICK t, w, ids : Commit(t, ids, w) /\ QueuedIds(queue) \subseteq ids
      BY <2>6 DEF LinkLost
    <3>2. Head(queue).id \in Ids /\ Head(queue).id \in QueuedIds(queue)
      BY HeadIn DEF TypeOK
    <3> QED BY <3>1, <3>2, CommitAnswers
  <2>7. CASE ReadMore \/ Connect \/ TimeoutElapses \/ GapElapses
    BY <2>7 DEF ReadMore, Connect, TimeoutElapses, GapElapses
  <2> QED BY <2>1, <2>2, <2>3, <2>4, <2>5, <2>6, <2>7 DEF Next
<1> QED BY <1>1, TypeCorrect, PTL DEF Spec, HeadStays

\* loop_prepare asks for POLLOUT only when the head may be written at once,
\* and whatever happens before poll() returns keeps it so.
OnlyAsked ==
  "POLLOUT" \in events => queue # <<>> /\ ~(Head(queue).xmit = "none" /\ gap)

LEMMA WantedAsked ==
  ASSUME NEW q, NEW b \in BOOLEAN, "POLLOUT" \in Wanted(q, b)
  PROVE  q # <<>> /\ ~(Head(q).xmit = "none" /\ b)
BY DEF Wanted

LEMMA OnlyAskedStep ==
  ASSUME TypeOK, OnlyAsked, [Next]_vars
  PROVE  OnlyAsked'
<1>1. ASSUME NEW b \in BOOLEAN, Post(b) \/ RawRequest(b) PROVE OnlyAsked'
  <2>1. events' = events /\ gap' = gap
    BY <1>1 DEF Post, RawRequest, bus
  <2> QED BY <2>1, <1>1, PostHead DEF OnlyAsked
<1>2. CASE LoopPrepare
  <2>1. PICK q : queue' = q /\ events' = Wanted(q, gap')
    BY <1>2 DEF LoopPrepare, Commit
  <2>2. gap' \in BOOLEAN
    BY <1>2, LoopPrepareType DEF TypeOK
  <2> QED BY <2>1, <2>2, WantedAsked DEF OnlyAsked
<1>3. ASSUME NEW x \in {"none", "part", "all"}, WriteRequest(x) PROVE OnlyAsked'
  BY <1>3 DEF WriteRequest, OnlyAsked
<1>4. CASE WriteInGap \/ ReadMore \/ ReadAnswer \/ LinkLost
  BY <1>4 DEF WriteInGap, ReadMore, ReadAnswer, LinkLost, OnlyAsked
<1>5. CASE Connect \/ TimeoutElapses
  BY <1>5 DEF Connect, TimeoutElapses, OnlyAsked
<1>6. CASE GapElapses
  BY <1>6 DEF GapElapses, OnlyAsked
<1>7. CASE UNCHANGED vars
  BY <1>7 DEF vars, OnlyAsked
<1> QED BY <1>1, <1>2, <1>3, <1>4, <1>5, <1>6, <1>7 DEF Next

\* With a caller that polls only what loop_prepare asks for, the quiet gap
\* delays a request and never costs one; a caller that does not may lose the
\* request in WriteInGap and nowhere else.
THEOREM GapHoldsRequestProved == Spec => GapHoldsRequest
<1> DEFINE Holds == /\ queue # <<>> /\ Head(queue).xmit = "none" /\ gap /\ gap'
                    /\ ~expired /\ connected /\ connected' /\ ~UnaskedWrite
                    => /\ queue' # <<>>
                       /\ Head(queue').id = Head(queue).id
                       /\ Head(queue').xmit = "none"
<1>1. Init => OnlyAsked
  BY DEF Init, OnlyAsked
<1>2. TypeOK /\ OnlyAsked /\ [Next]_vars => OnlyAsked'
  BY OnlyAskedStep
<1>3. TypeOK /\ OnlyAsked /\ [Next]_vars => [Holds]_vars
  <2> SUFFICES ASSUME TypeOK, OnlyAsked, Next,
                      queue # <<>>, Head(queue).xmit = "none",
                      gap, gap', ~expired, connected, connected', ~UnaskedWrite
               PROVE  /\ queue' # <<>>
                      /\ Head(queue').id = Head(queue).id
                      /\ Head(queue').xmit = "none"
    OBVIOUS
  <2>1. "POLLOUT" \notin events
    BY DEF OnlyAsked
  <2>2. ASSUME NEW b \in BOOLEAN, Post(b) \/ RawRequest(b)
        PROVE  queue' # <<>> /\ Head(queue') = Head(queue)
    BY <2>2, PostHead
  <2>3. CASE LoopPrepare
    BY <2>3, LoopPrepareHead
  <2>4. ASSUME NEW x \in {"none", "part", "all"}, WriteRequest(x) PROVE FALSE
    BY <2>4 DEF WriteRequest
  <2>5. ~WriteInGap /\ ~ReadMore /\ ~ReadAnswer /\ ~LinkLost /\ ~Connect
    BY <2>1 DEF UnaskedWrite, ReadMore, ReadAnswer, LinkLost, Connect
  <2>6. CASE TimeoutElapses \/ GapElapses
    BY <2>6 DEF TimeoutElapses, GapElapses
  <2> QED BY <2>2, <2>3, <2>4, <2>5, <2>6 DEF Next
<1> QED BY <1>1, <1>2, <1>3, TypeCorrect, PTL DEF Spec, GapHoldsRequest

-----------------------------------------------------------------------------
(***************************************************************************)
(* Every request is reported once.  The invariant: the queue holds         *)
(* distinct requests that were stamped before, only its head is out, and   *)
(* the raw slot names one of them.                                         *)
(***************************************************************************)
Distinct(q) == \A j, k \in 1..Len(q) : q[j].id = q[k].id => j = k
Unsent(q, from) == \A k \in from..Len(q) : q[k].xmit = "none" /\ ~q[k].seen
Clean(s) ==
  /\ Distinct(s.queue)
  /\ QueuedIds(s.queue) \subseteq 1..(s.next - 1)
  /\ s.raw # NoId <=> s.raw \in QueuedIds(s.queue)
  /\ Unsent(s.queue, 2)

LEMMA IdsOf ==
  ASSUME NEW q \in Seq(Wrapper)
  PROVE  /\ \A k \in 1..Len(q) : q[k].id \in QueuedIds(q)
         /\ \A i \in QueuedIds(q) : \E k \in 1..Len(q) : q[k].id = i
         /\ QueuedIds(q) \subseteq Ids
         /\ QueuedIds(<<>>) = {}
<1>1. DOMAIN q = 1..Len(q)
  OBVIOUS
<1>2. \A k \in 1..Len(q) : q[k].id \in Ids
  <2>1. \A k \in 1..Len(q) : q[k] \in Wrapper
    OBVIOUS
  <2> QED BY <2>1 DEF Wrapper
<1>3. DOMAIN <<>> = {}
  OBVIOUS
<1> QED BY <1>1, <1>2, <1>3 DEF QueuedIds

\* A callback that posts nothing only frees the raw slot.
LEMMA ReportedQuietly ==
  ASSUME NEW s \in PartType, NEW id, NEW posts, ~posts, NEW t \in Reported(s, id, posts)
  PROVE  /\ t.queue = s.queue
         /\ t.next = s.next
         /\ t.raw = IF id = s.raw THEN NoId ELSE s.raw
         /\ t \in PartType
<1>1. t = IF id = s.raw THEN [s EXCEPT !.raw = NoId] ELSE s
  BY DEF Reported
<1> QED BY <1>1, ReportedType DEF PartType

LEMMA TailClean ==
  ASSUME NEW q \in Seq(Wrapper), q # <<>>, Distinct(q), Unsent(q, 2)
  PROVE  /\ Tail(q) \in Seq(Wrapper)
         /\ QueuedIds(Tail(q)) = QueuedIds(q) \ {Head(q).id}
         /\ Distinct(Tail(q))
         /\ Unsent(Tail(q), 1)
<1> DEFINE p == Tail(q)
<1>1. /\ p \in Seq(Wrapper) /\ Len(p) = Len(q) - 1
      /\ \A k \in 1..Len(p) : p[k] = q[k + 1]
      /\ Head(q) = q[1] /\ Len(q) \in Nat /\ Len(q) > 0
  BY HeadTailProperties
<1> HIDE DEF p
<1>2. \A k \in 1..Len(p) : (k + 1) \in 2..Len(q)
  BY <1>1
<1>3. ASSUME NEW i \in QueuedIds(p) PROVE i \in QueuedIds(q) /\ i # Head(q).id
  <2>1. PICK k \in 1..Len(p) : p[k].id = i
    BY <1>1, IdsOf
  <2>2. (k + 1) \in 1..Len(q) /\ q[k + 1].id = i /\ k + 1 # 1 /\ 1 \in 1..Len(q)
    BY <2>1, <1>1, <1>2
  <2> QED BY <2>2, <1>1, IdsOf DEF Distinct
<1>4. ASSUME NEW i \in QueuedIds(q), i # Head(q).id PROVE i \in QueuedIds(p)
  <2>1. PICK k \in 1..Len(q) : q[k].id = i
    BY IdsOf
  <2>2. (k - 1) \in 1..Len(p) /\ (k - 1) + 1 = k
    BY <2>1, <1>1, <1>4
  <2>3. p[k - 1].id = i
    BY <2>1, <2>2, <1>1
  <2> QED BY <2>2, <2>3, <1>1, IdsOf
<1>5. QueuedIds(p) = QueuedIds(q) \ {Head(q).id}
  BY <1>3, <1>4
<1>6. Distinct(p)
  <2> SUFFICES ASSUME NEW j \in 1..Len(p), NEW k \in 1..Len(p), p[j].id = p[k].id
               PROVE  j = k
    BY DEF Distinct
  <2>1. (j + 1) \in 1..Len(q) /\ (k + 1) \in 1..Len(q) /\ q[j + 1].id = q[k + 1].id
    BY <1>1, <1>2
  <2>2. j + 1 = k + 1
    BY <2>1 DEF Distinct
  <2> QED BY <2>2
<1>7. Unsent(p, 1)
  BY <1>1, <1>2 DEF Unsent
<1> QED BY <1>1, <1>5, <1>6, <1>7 DEF p

\* A new write among distinct older requests; raw is the slot afterwards.
LEMMA PostedClean ==
  ASSUME NEW s \in PartType, Clean(s), s.next <= MaxReq, NEW b \in BOOLEAN,
         NEW q \in Posted(s.queue, PostRequest(s.next, b)),
         NEW r, r = s.raw \/ (s.raw = NoId /\ r = s.next)
  PROVE  /\ Clean([queue |-> q, raw |-> r, next |-> s.next + 1])
         /\ QueuedIds(q) = QueuedIds(s.queue) \cup {s.next}
         /\ q \in Seq(Wrapper)
<1> DEFINE o == s.queue
           w == PostRequest(s.next, b)
<1>1. o \in Seq(Wrapper) /\ s.next \in 1..MaxReq /\ s.raw \in {NoId} \cup Ids
  BY QueueAssumption DEF PartType
<1>2. w \in Wrapper /\ w.id = s.next /\ w.xmit = "none" /\ ~w.seen
  BY <1>1, PostRequestType
<1> HIDE DEF w
<1>3. /\ q \in Seq(Wrapper) /\ Len(q) = Len(o) + 1
      /\ QueuedIds(q) = QueuedIds(o) \cup {s.next}
  BY <1>1, <1>2, PostedProperties, PostedIds DEF w
<1>4. PICK n \in 0..Len(o) :
        /\ o # <<>> => n # 0
        /\ \A k \in 1..Len(q) : q[k] = IF k <= n THEN o[k]
                                       ELSE IF k = n + 1 THEN w ELSE o[k - 1]
  BY <1>1, <1>2, PostedProperties DEF w
<1>5. \A k \in 1..Len(o) : o[k].id < s.next
  BY <1>1, IdsOf DEF Clean
<1>6. Distinct(q)
  <2> SUFFICES ASSUME NEW j \in 1..Len(q), NEW k \in 1..Len(q), q[j].id = q[k].id
               PROVE  j = k
    BY DEF Distinct
  <2> DEFINE old(i) == IF i <= n THEN i ELSE i - 1
  <2>1. ASSUME NEW i \in 1..Len(q), i # n + 1
        PROVE  old(i) \in 1..Len(o) /\ q[i] = o[old(i)]
    BY <2>1, <1>3, <1>4
  <2>2. q[n + 1].id = s.next /\ n + 1 \in 1..Len(q)
    <3>1. PICK i : i = n + 1 /\ i \in 1..Len(q) /\ ~(i <= n)
      BY <1>3, <1>1
    <3>2. q[i] = w
      BY <3>1, <1>4
    <3> QED BY <3>1, <3>2, <1>2
  <2>3. CASE j = n + 1 \/ k = n + 1
    <3>1. ASSUME NEW i \in 1..Len(q), i # n + 1 PROVE q[i].id # s.next
      <4>1. old(i) \in 1..Len(o) /\ q[i] = o[old(i)]
        BY <3>1, <2>1
      <4>2. o[old(i)].id < s.next
        BY <4>1, <1>5
      <4> QED BY <4>1, <4>2, <1>1
    <3> QED BY <2>2, <2>3, <3>1
  <2>4. CASE j # n + 1 /\ k # n + 1
    <3>1. old(j) \in 1..Len(o) /\ old(k) \in 1..Len(o) /\ o[old(j)].id = o[old(k)].id
      BY <2>1, <2>4
    <3>2. old(j) = old(k)
      <4> HIDE DEF old
      <4> QED BY <3>1 DEF Clean, Distinct
    <3> QED BY <3>2, <2>4, <1>3
  <2> QED BY <2>3, <2>4
<1>7. Unsent(q, 2)
  <2> SUFFICES ASSUME NEW k \in 2..Len(q) PROVE q[k].xmit = "none" /\ ~q[k].seen
    BY DEF Unsent
  <2>0. k \in 1..Len(q)
    BY <1>3
  <2>1. CASE k = n + 1
    BY <2>0, <2>1, <1>2, <1>4
  <2>2. CASE k <= n
    <3>1. k \in 2..Len(o) /\ q[k] = o[k]
      BY <2>0, <2>2, <1>4, <1>3
    <3> QED BY <3>1 DEF Clean, Unsent
  <2>3. CASE k > n + 1
    <3>1. (k - 1) \in 1..Len(o) /\ q[k] = o[k - 1]
      BY <2>0, <2>3, <1>4, <1>3
    <3>2. k - 1 # 1
      <4>1. o # <<>>
        BY <3>1
      <4> QED BY <4>1, <1>4, <2>3
    <3> QED BY <3>1, <3>2 DEF Clean, Unsent
  <2> QED BY <2>0, <2>1, <2>2, <2>3
<1>8. QueuedIds(q) \subseteq 1..s.next
  BY <1>1, <1>3 DEF Clean
<1>9. r # NoId <=> r \in QueuedIds(q)
  <2>1. CASE r = s.raw
    <3>1. s.raw # s.next
      BY <1>1 DEF Clean, NoId
    <3> QED BY <2>1, <3>1, <1>3 DEF Clean
  <2>2. CASE s.raw = NoId /\ r = s.next
    BY <2>2, <1>1, <1>3 DEF NoId
  <2> QED BY <2>1, <2>2
<1>10. (s.next + 1) - 1 = s.next
  BY <1>1
<1> QED BY <1>3, <1>6, <1>7, <1>8, <1>9, <1>10 DEF Clean

\* The head is reported, then unlinked; its callback may have posted a write.
LEMMA UnlinkedClean ==
  ASSUME NEW s \in PartType, Clean(s), s.queue # <<>>, NEW t \in Unlinked(s)
  PROVE  /\ t \in PartType /\ Clean(t) /\ t.next \in s.next..(MaxReq + 1)
         /\ QueuedIds(t.queue) = (QueuedIds(s.queue) \ {Head(s.queue).id}) \cup (s.next..(t.next - 1))
         /\ Unsent(t.queue, 1)
<1> USE QueueAssumption
<1> DEFINE h == Head(s.queue).id
<1>1. PICK u \in Reported(s, h, CallbackPosts) : t = [u EXCEPT !.queue = Tail(@)]
  BY DEF Unlinked
<1>2. /\ s.queue \in Seq(Wrapper) /\ s.next \in 1..(MaxReq + 1)
      /\ h \in QueuedIds(s.queue) /\ h \in 1..(s.next - 1)
      /\ s.raw \in {NoId} \cup Ids
  BY HeadIn DEF PartType, Clean
\* The part before the head is unlinked.
<1> DEFINE Told == /\ u.queue \in Seq(Wrapper) /\ u.queue # <<>> /\ Head(u.queue) = Head(s.queue)
                   /\ Distinct(u.queue) /\ Unsent(u.queue, 2)
                   /\ u.next \in s.next..(MaxReq + 1)
                   /\ QueuedIds(u.queue) = QueuedIds(s.queue) \cup (s.next..(u.next - 1))
                   /\ u.raw \in {NoId} \cup (QueuedIds(u.queue) \ {h})
                   /\ \A i \in QueuedIds(u.queue) : i < u.next
<1>3. Told
  <2>1. ASSUME u = IF h = s.raw THEN [s EXCEPT !.raw = NoId] ELSE s
        PROVE  Told
    <3>1. u.queue = s.queue /\ u.next = s.next /\ u.raw = IF h = s.raw THEN NoId ELSE s.raw
      BY <2>1 DEF PartType
    <3>2. s.next..(s.next - 1) = {} /\ s.next \in s.next..(MaxReq + 1)
      BY <1>2
    <3> QED BY <1>2, <3>1, <3>2 DEF Clean
  <2>2. ASSUME h = s.raw, s.next <= MaxReq,
               NEW q \in Posted(s.queue, PostRequest(s.next, FALSE)),
               u = [queue |-> q, raw |-> s.next, next |-> s.next + 1]
        PROVE  Told
    <3> DEFINE f == [s EXCEPT !.raw = NoId]
    <3> DEFINE w == PostRequest(s.next, FALSE)
    <3>0. s.next \in 1..MaxReq
      BY <1>2, <2>2
    <3>1. w \in Wrapper /\ w.id = s.next
      BY <3>0, PostRequestType
    <3>2. /\ q \in Seq(Wrapper) /\ q # <<>> /\ Head(q) = Head(s.queue)
          /\ QueuedIds(q) = QueuedIds(s.queue) \cup {s.next}
      <4>1. q \in Posted(s.queue, w) /\ s.queue # <<>>
        BY <2>2
      <4> HIDE DEF w
      <4> QED BY <1>2, <3>1, <4>1, PostedProperties, PostedIds
    <3>3. /\ f \in PartType /\ f.queue = s.queue /\ f.next = s.next /\ f.raw = NoId
      BY DEF PartType
    <3>4. Clean(f)
      <4>1. NoId \notin QueuedIds(s.queue)
        BY DEF Clean, NoId
      <4> QED BY <3>3, <4>1 DEF Clean
    <3> HIDE DEF f
    <3>5. Clean([queue |-> q, raw |-> s.next, next |-> s.next + 1])
      <4>1. /\ q \in Posted(f.queue, PostRequest(f.next, FALSE)) /\ f.next <= MaxReq
            /\ s.next = f.raw \/ (f.raw = NoId /\ s.next = f.next)
        BY <2>2, <3>3
      <4>2. Clean([queue |-> q, raw |-> s.next, next |-> f.next + 1])
        BY <3>3, <3>4, <4>1, PostedClean
      <4> QED BY <3>3, <4>2
    <3>6. Distinct(q) /\ Unsent(q, 2) /\ QueuedIds(q) \subseteq 1..((s.next + 1) - 1)
      BY <3>5 DEF Clean
    <3>7. /\ s.next + 1 \in s.next..(MaxReq + 1) /\ s.next..((s.next + 1) - 1) = {s.next}
          /\ s.next # h
          /\ \A i \in 1..((s.next + 1) - 1) : i < s.next + 1
      BY <1>2, <2>2
    <3> QED BY <2>2, <3>2, <3>6, <3>7
  <2> QED BY <1>1, <2>1, <2>2 DEF Reported
<1>4. t.queue = Tail(u.queue) /\ t.next = u.next /\ t.raw = u.raw
  <2>1. u \in PartType
    BY <1>1, ReportedType
  <2> QED BY <1>1, <2>1 DEF PartType
<1>5. /\ t.queue \in Seq(Wrapper)
      /\ QueuedIds(t.queue) = QueuedIds(u.queue) \ {h}
      /\ Distinct(t.queue) /\ Unsent(t.queue, 1)
  BY <1>3, <1>4, TailClean
<1>6. Unsent(t.queue, 2)
  BY <1>5 DEF Unsent
<1>7. h \notin s.next..(t.next - 1)
  BY <1>2
<1>8. QueuedIds(t.queue) = (QueuedIds(s.queue) \ {h}) \cup (s.next..(t.next - 1))
  BY <1>3, <1>4, <1>5, <1>7, Zenon
<1>9. QueuedIds(t.queue) \subseteq 1..(t.next - 1)
  <2> SUFFICES ASSUME NEW i \in QueuedIds(t.queue) PROVE i \in 1..(t.next - 1)
    OBVIOUS
  <2>1. i \in Ids /\ i < t.next
    BY <1>3, <1>4, <1>5, IdsOf
  <2> QED BY <2>1, <1>2, <1>3, <1>4 DEF Ids
<1>10. t.raw # NoId <=> t.raw \in QueuedIds(t.queue)
  <2>1. NoId \notin QueuedIds(t.queue)
    BY <1>9 DEF NoId
  <2> QED BY <2>1, <1>3, <1>4, <1>5
<1>11. t \in PartType
  BY UnlinkedType
<1> QED BY <1>3, <1>4, <1>5, <1>6, <1>8, <1>9, <1>10, <1>11 DEF Clean

LEMMA ResetClean ==
  ASSUME ~(CallbackPosts /\ ResetPosts), NEW s \in PartType, Clean(s), NEW t \in Reset(s)
  PROVE  t \in PartType /\ Clean(t) /\ t.next = s.next /\ QueuedIds(t.queue) = {}
<1>1. t \in PartType /\ t.queue = <<>>
  BY ResetType
<1>2. t.next = s.next /\ t.raw = NoId
  <2>1. CASE s.raw \in QueuedIds(s.queue)
    <3> DEFINE posts == CallbackPosts /\ ResetPosts
    <3>1. PICK u \in Reported(s, s.raw, posts) : t = [u EXCEPT !.queue = <<>>]
      BY <2>1 DEF Reset
    <3>2. ~posts
      OBVIOUS
    <3> HIDE DEF posts
    <3>3. u.next = s.next /\ u.raw = NoId /\ u \in PartType
      BY <3>1, <3>2, ReportedQuietly
    <3> QED BY <3>1, <3>3 DEF PartType
  <2>2. CASE s.raw \notin QueuedIds(s.queue)
    <3>1. t = [s EXCEPT !.queue = <<>>] /\ s.raw = NoId
      BY <2>2 DEF Reset, Clean
    <3> QED BY <3>1 DEF PartType
  <2> QED BY <2>1, <2>2
<1>3. QueuedIds(t.queue) = {}
  BY <1>1, IdsOf DEF PartType
<1>4. Distinct(t.queue) /\ Unsent(t.queue, 2)
  BY <1>1 DEF Distinct, Unsent
<1> QED BY <1>1, <1>2, <1>3, <1>4 DEF Clean

\* Fresh polls behind distinct older requests.
LEMMA PollsClean ==
  ASSUME NEW s \in PartType, Clean(s), NEW b \in DueBatches(s.queue),
         s.next + Len(b) <= MaxReq + 1
  PROVE  /\ Clean([queue |-> s.queue \o Polls(b, s.next), raw |-> s.raw, next |-> s.next + Len(b)])
         /\ QueuedIds(s.queue \o Polls(b, s.next)) = QueuedIds(s.queue) \cup (s.next..(s.next + Len(b) - 1))
         /\ s.queue \o Polls(b, s.next) \in Seq(Wrapper)
         /\ Unsent(s.queue, 1) => Unsent(s.queue \o Polls(b, s.next), 1)
         /\ Len(b) \in Nat
<1> DEFINE o == s.queue
           p == Polls(b, s.next)
           c == o \o p
           m == s.next
<1>1. o \in Seq(Wrapper) /\ m \in 1..(MaxReq + 1) /\ s.raw \in {NoId} \cup Ids
  BY DEF PartType
<1>2. /\ p \in Seq(Wrapper) /\ Len(p) = Len(b) /\ Len(b) \in Nat
      /\ \A i \in 1..Len(b) : p[i] = PollRequest(m + i - 1, b[i])
  BY <1>1, PollsProperties
<1>3. \A i \in 1..Len(b) : p[i].id = m + i - 1 /\ p[i].xmit = "none" /\ ~p[i].seen
  <2>1. ASSUME NEW n, NEW t
        PROVE  /\ PollRequest(n, t).id = n /\ PollRequest(n, t).xmit = "none"
               /\ ~PollRequest(n, t).seen
    BY DEF PollRequest, PostRequest
  <2> HIDE DEF o, p, m
  <2> SUFFICES ASSUME NEW i \in 1..Len(b)
               PROVE  p[i].id = m + i - 1 /\ p[i].xmit = "none" /\ ~p[i].seen
    OBVIOUS
  <2>2. p[i] = PollRequest(m + i - 1, b[i])
    BY <1>2
  <2> QED BY <2>1, <2>2
<1> HIDE DEF o, p, m
<1>4. /\ c \in Seq(Wrapper) /\ Len(c) = Len(o) + Len(b)
      /\ \A i \in 1..(Len(o) + Len(b)) : c[i] = IF i <= Len(o) THEN o[i] ELSE p[i - Len(o)]
  <2>1. /\ c \in Seq(Wrapper) /\ Len(c) = Len(o) + Len(p)
        /\ \A i \in 1..(Len(o) + Len(p)) : c[i] = IF i <= Len(o) THEN o[i] ELSE p[i - Len(o)]
    BY <1>1, <1>2, ConcatProperties
  <2> HIDE DEF c
  <2> QED BY <2>1, <1>2
<1> HIDE DEF c
<1>5. ASSUME NEW i \in 1..Len(c)
      PROVE  \/ i \in 1..Len(o) /\ c[i] = o[i]
             \/ /\ i > Len(o) /\ (i - Len(o)) \in 1..Len(b)
                /\ c[i] = p[i - Len(o)] /\ c[i].id = m + (i - Len(o)) - 1
  BY <1>1, <1>2, <1>3, <1>4
<1>6. \A k \in 1..Len(o) : o[k].id < m /\ o[k].id \in Nat
  BY <1>1, IdsOf DEF Clean, o, m
<1>7. QueuedIds(c) = QueuedIds(o) \cup (m..(m + Len(b) - 1))
  <2>1. ASSUME NEW i \in QueuedIds(c) PROVE i \in QueuedIds(o) \cup (m..(m + Len(b) - 1))
    <3>1. PICK k \in 1..Len(c) : c[k].id = i
      BY <1>4, IdsOf
    <3>2. CASE k \in 1..Len(o) /\ c[k] = o[k]
      BY <3>1, <3>2, <1>1, IdsOf
    <3>3. CASE (k - Len(o)) \in 1..Len(b) /\ c[k].id = m + (k - Len(o)) - 1
      BY <3>1, <3>3, <1>1, <1>2
    <3> QED BY <3>2, <3>3, <1>5
  <2>2. ASSUME NEW i \in QueuedIds(o) PROVE i \in QueuedIds(c)
    <3>1. PICK k \in 1..Len(o) : o[k].id = i
      BY <1>1, IdsOf
    <3>2. k \in 1..Len(c) /\ c[k] = o[k]
      BY <1>1, <1>2, <1>4
    <3> QED BY <3>1, <3>2, <1>4, IdsOf
  <2>3. ASSUME NEW i \in m..(m + Len(b) - 1) PROVE i \in QueuedIds(c)
    <3> DEFINE k == Len(o) + (i - m + 1)
    <3>1. (i - m + 1) \in 1..Len(b) /\ k \in 1..Len(c) /\ k - Len(o) = i - m + 1 /\ k > Len(o)
      BY <1>1, <1>2, <1>4
    <3>2. c[k] = p[k - Len(o)]
      BY <3>1, <1>4
    <3>3. p[i - m + 1].id = m + (i - m + 1) - 1
      BY <3>1, <1>3
    <3>4. c[k].id = i
      BY <3>1, <3>2, <3>3, <1>1
    <3> HIDE DEF k
    <3>5. \E j \in 1..Len(c) : c[j].id = i
      BY <3>1, <3>4
    <3> QED BY <3>5, <1>4, IdsOf
  <2> QED BY <2>1, <2>2, <2>3
<1>8. Distinct(c)
  <2> SUFFICES ASSUME NEW j \in 1..Len(c), NEW k \in 1..Len(c), c[j].id = c[k].id
               PROVE  j = k
    BY DEF Distinct
  <2>1. CASE j \in 1..Len(o) /\ c[j] = o[j] /\ k \in 1..Len(o) /\ c[k] = o[k]
    BY <2>1 DEF Clean, Distinct, o
  <2>2. CASE j > Len(o) /\ c[j].id = m + (j - Len(o)) - 1 /\ k > Len(o) /\ c[k].id = m + (k - Len(o)) - 1
    <3>1. m + (j - Len(o)) - 1 = m + (k - Len(o)) - 1
      BY <2>2
    <3>2. Len(o) \in Nat /\ m \in Int /\ j \in Int /\ k \in Int
      BY <1>1
    <3> QED BY <3>1, <3>2
  <2>3. CASE j \in 1..Len(o) /\ c[j] = o[j] /\ k > Len(o) /\ c[k].id = m + (k - Len(o)) - 1
    BY <2>3, <1>1, <1>4, <1>6
  <2>4. CASE k \in 1..Len(o) /\ c[k] = o[k] /\ j > Len(o) /\ c[j].id = m + (j - Len(o)) - 1
    BY <2>4, <1>1, <1>4, <1>6
  <2> QED BY <2>1, <2>2, <2>3, <2>4, <1>5
<1>9. ASSUME NEW f \in 1..2, Unsent(o, f) PROVE Unsent(c, f)
  <2> SUFFICES ASSUME NEW k \in f..Len(c) PROVE c[k].xmit = "none" /\ ~c[k].seen
    BY DEF Unsent
  <2>1. k \in 1..Len(c)
    BY <1>4
  <2>2. CASE k \in 1..Len(o) /\ c[k] = o[k]
    BY <2>2, <1>9 DEF Unsent
  <2>3. CASE (k - Len(o)) \in 1..Len(b) /\ c[k] = p[k - Len(o)]
    BY <2>3, <1>3
  <2> QED BY <2>1, <2>2, <2>3, <1>5
<1>10. Unsent(c, 2)
  BY <1>9 DEF Clean, o
<1>11. Unsent(o, 1) => Unsent(c, 1)
  BY <1>9
<1>12. ASSUME NEW n, n = m + Len(b) PROVE QueuedIds(c) \subseteq 1..(n - 1)
  <2>1. QueuedIds(o) \subseteq 1..(m - 1)
    BY DEF Clean, o, m
  <2>2. 1..(m - 1) \subseteq 1..(n - 1) /\ m..(m + Len(b) - 1) \subseteq 1..(n - 1)
    BY <1>1, <1>2, <1>12
  <2> QED BY <2>1, <2>2, <1>7, Zenon
<1>13. s.raw # NoId <=> s.raw \in QueuedIds(c)
  <2>1. s.raw # NoId <=> s.raw \in QueuedIds(o)
    BY DEF Clean, o
  <2>2. QueuedIds(o) \subseteq 1..(m - 1)
    BY DEF Clean, o, m
  <2> QED BY <2>1, <2>2, <1>1, <1>2, <1>7 DEF NoId
<1>14. Clean([queue |-> c, raw |-> s.raw, next |-> m + Len(b)])
  <2>1. PICK n : n = m + Len(b)
    OBVIOUS
  <2>2. QueuedIds(c) \subseteq 1..(n - 1)
    BY <2>1, <1>12
  <2>3. Clean([queue |-> c, raw |-> s.raw, next |-> n])
    BY <1>8, <1>10, <1>13, <2>2 DEF Clean
  <2> QED BY <2>1, <2>3
<1> QED BY <1>2, <1>4, <1>7, <1>11, <1>14 DEF c, o, p, m

-----------------------------------------------------------------------------
(***************************************************************************)
(* What a step does to the requests: those in done are reported, those     *)
(* from next to next' - 1 are accepted, the one in go goes out.            *)
(***************************************************************************)
Out(q) == IF q # <<>> /\ Head(q).xmit # "none" THEN {Head(q).id} ELSE {}
QueueInv == TypeOK /\ Clean(Now) /\ ReportedOnce

Moves(done, go) ==
  /\ next' \in next..(MaxReq + 1)
  /\ done \subseteq QueuedIds(queue) \cup (next..(next' - 1))
  /\ QueuedIds(queue') = (QueuedIds(queue) \cup (next..(next' - 1))) \ done
  /\ Out(queue') = (Out(queue) \ done) \cup go
  /\ answers' = [i \in Ids |-> answers[i] + (IF i \in done THEN 1 ELSE 0)]
  /\ Clean(Now)'

LEMMA CleanNow ==
  ASSUME NEW t, Clean(t), queue' = t.queue, raw' = t.raw, next' = t.next
  PROVE  Clean(Now)'
BY DEF Clean, Now

LEMMA NowClean ==
  ASSUME TypeOK, Clean(Now)
  PROVE  /\ Now \in PartType /\ Now.queue = queue /\ Now.raw = raw /\ Now.next = next
         /\ Distinct(queue) /\ Unsent(queue, 2) /\ QueuedIds(queue) \subseteq 1..(next - 1)
         /\ raw # NoId <=> raw \in QueuedIds(queue)
         /\ queue \in Seq(Wrapper) /\ next \in 1..(MaxReq + 1)
BY NowType DEF Clean, Now, TypeOK

LEMMA OutUnsent ==
  ASSUME NEW q \in Seq(Wrapper), Unsent(q, 1)
  PROVE  Out(q) = {}
BY HeadIn DEF Out, Unsent

LEMMA OutHead ==
  ASSUME NEW q \in Seq(Wrapper)
  PROVE  /\ Out(q) \subseteq QueuedIds(q)
         /\ q # <<>> => Out(q) \ {Head(q).id} = {}
         /\ Out(q) \ QueuedIds(q) = {}
BY HeadIn DEF Out

\* The head is finished.
LEMMA FinishMoves ==
  ASSUME QueueInv, queue # <<>>, Finish
  PROVE  Moves({Head(queue).id}, {})
<1> USE QueueAssumption
<1> DEFINE h == Head(queue).id
<1>1. PICK t \in Unlinked(Now) : Commit(t, {h}, next..(t.next - 1))
  BY DEF Finish
<1>2. /\ Now \in PartType /\ Clean(Now) /\ Now.queue = queue /\ Now.next = next
      /\ queue \in Seq(Wrapper) /\ next \in 1..(MaxReq + 1)
  BY NowClean DEF QueueInv
<1>3. /\ t \in PartType /\ Clean(t) /\ t.next \in next..(MaxReq + 1)
      /\ QueuedIds(t.queue) = (QueuedIds(queue) \ {h}) \cup (next..(t.next - 1))
      /\ Unsent(t.queue, 1)
  BY <1>1, <1>2, UnlinkedClean
<1>4. queue' = t.queue /\ raw' = t.raw /\ next' = t.next
  BY <1>1 DEF Commit
<1>5. answers' = [i \in Ids |-> answers[i] + (IF i \in {h} THEN 1 ELSE 0)]
  BY <1>1 DEF Commit
<1>6. {h} \subseteq QueuedIds(queue) /\ h \in 1..(next - 1)
  BY <1>2, HeadIn DEF Clean
<1>7. next' \in next..(MaxReq + 1) /\ h \notin next..(next' - 1)
  BY <1>2, <1>3, <1>4, <1>6
<1>8. QueuedIds(queue') = (QueuedIds(queue) \cup (next..(next' - 1))) \ {h}
  BY <1>3, <1>4, <1>7, Zenon
<1>9. Out(queue') = {} /\ Out(queue) \ {h} = {}
  <2>1. queue' \in Seq(Wrapper)
    BY <1>3, <1>4 DEF PartType
  <2> QED BY <2>1, <1>2, <1>3, <1>4, OutUnsent, OutHead
<1>10. Clean(Now)'
  BY <1>3, <1>4, CleanNow
<1> QED BY <1>5, <1>6, <1>7, <1>8, <1>9, <1>10 DEF Moves

LEMMA PostMoves ==
  ASSUME QueueInv, NEW b \in BOOLEAN, Post(b) \/ RawRequest(b)
  PROVE  Moves({}, {})
<1> USE QueueAssumption
<1>1. /\ Now \in PartType /\ Clean(Now) /\ Now.queue = queue /\ Now.next = next /\ Now.raw = raw
      /\ queue \in Seq(Wrapper) /\ next \in 1..(MaxReq + 1)
  BY NowClean DEF QueueInv
<1>2. /\ next \in 1..MaxReq /\ next' = next + 1 /\ queue' \in Posted(queue, PostRequest(next, b))
      /\ answers' = answers
      /\ raw' = raw \/ (raw = NoId /\ raw' = next)
  BY <1>1, <1>1 DEF Post, RawRequest
<1>3. /\ Clean([queue |-> queue', raw |-> raw', next |-> next + 1])
      /\ QueuedIds(queue') = QueuedIds(queue) \cup {next}
      /\ queue' \in Seq(Wrapper)
  <2>1. /\ Now \in PartType /\ Clean(Now) /\ Now.next <= MaxReq
        /\ queue' \in Posted(Now.queue, PostRequest(Now.next, b))
        /\ raw' = Now.raw \/ (Now.raw = NoId /\ raw' = Now.next)
    BY <1>1, <1>2
  <2>2. /\ Clean([queue |-> queue', raw |-> raw', next |-> Now.next + 1])
        /\ QueuedIds(queue') = QueuedIds(Now.queue) \cup {Now.next}
        /\ queue' \in Seq(Wrapper)
    BY <2>1, PostedClean
  <2> QED BY <2>2, <1>1
<1>4. Clean(Now)'
  BY <1>2, <1>3, CleanNow
<1>5. next..(next' - 1) = {next} /\ next' \in next..(MaxReq + 1)
  BY <1>2
<1>6. Out(queue') = Out(queue)
  <2>1. PostRequest(next, b) \in Wrapper /\ PostRequest(next, b).xmit = "none"
    BY <1>2, PostRequestType
  <2>2. /\ queue' # <<>>
        /\ queue # <<>> => Head(queue') = Head(queue)
        /\ queue = <<>> => Head(queue') = PostRequest(next, b)
    BY <2>1, <1>1, <1>2, PostedIds
  <2> QED BY <2>1, <2>2 DEF Out
<1>7. answers' = [i \in Ids |-> answers[i] + (IF i \in {} THEN 1 ELSE 0)]
  BY <1>2 DEF QueueInv, TypeOK
<1>8. QueuedIds(queue') = (QueuedIds(queue) \cup (next..(next' - 1))) \ {}
  BY <1>3, <1>5
<1> QED BY <1>4, <1>5, <1>6, <1>7, <1>8 DEF Moves

\* Two queues that hold the same requests and differ at the head only.
LEMMA SameIds ==
  ASSUME NEW q \in Seq(Wrapper), NEW p \in Seq(Wrapper), Len(p) = Len(q),
         \A k \in 1..Len(q) : p[k].id = q[k].id,
         \A k \in 1..Len(q) : k # 1 => p[k] = q[k],
         Distinct(q), Unsent(q, 2)
  PROVE  QueuedIds(p) = QueuedIds(q) /\ Distinct(p) /\ Unsent(p, 2)
<1>1. DOMAIN p = 1..Len(q) /\ DOMAIN q = 1..Len(q)
  OBVIOUS
<1>2. QueuedIds(p) = QueuedIds(q)
  BY <1>1 DEF QueuedIds
<1>3. Distinct(p)
  BY DEF Distinct
<1>4. Unsent(p, 2)
  <2> SUFFICES ASSUME NEW k \in 2..Len(q) PROVE p[k] = q[k]
    BY DEF Unsent
  <2>1. k \in 1..Len(q) /\ k # 1
    OBVIOUS
  <2> QED BY <2>1
<1> QED BY <1>2, <1>3, <1>4

\* The link goes down: what the head's callback posted meanwhile is dropped
\* with the rest, and reported like it.
LEMMA LinkLostMoves ==
  ASSUME ~(CallbackPosts /\ ResetPosts), QueueInv, LinkLost
  PROVE  \E done : Moves(done, {})
<1> USE QueueAssumption
<1> DEFINE all == QueuedIds(queue)
<1>1. /\ Now \in PartType /\ Clean(Now) /\ Now.queue = queue /\ Now.next = next
      /\ queue \in Seq(Wrapper) /\ next \in 1..(MaxReq + 1)
  BY NowClean DEF QueueInv
<1>2. PICK s \in (IF queue = <<>> THEN {Now} ELSE Unlinked(Now)) : \E t \in Reset(s) :
        Commit(t, all \cup QueuedIds(s.queue), next..(t.next - 1))
  BY DEF LinkLost
<1> DEFINE done == all \cup QueuedIds(s.queue)
           fresh == next..(s.next - 1)
<1>3. /\ s \in PartType /\ Clean(s) /\ s.next \in next..(MaxReq + 1)
      /\ QueuedIds(s.queue) \subseteq all \cup fresh
      /\ fresh \subseteq QueuedIds(s.queue)
  <2>1. CASE queue = <<>>
    <3>1. s = Now /\ fresh = {}
      BY <2>1, <1>1, <1>2
    <3> QED BY <3>1, <1>1
  <2>2. CASE queue # <<>>
    <3>1. /\ s \in PartType /\ Clean(s) /\ s.next \in next..(MaxReq + 1)
          /\ QueuedIds(s.queue) = (all \ {Head(queue).id}) \cup fresh
      BY <2>2, <1>1, <1>2, UnlinkedClean
    <3> QED BY <3>1, Zenon
  <2> QED BY <2>1, <2>2
<1>4. PICK t \in Reset(s) : Commit(t, done, next..(t.next - 1))
  BY <1>2
<1>5. t \in PartType /\ Clean(t) /\ t.next = s.next /\ QueuedIds(t.queue) = {} /\ t.queue = <<>>
  BY <1>3, <1>4, ResetClean, ResetType
<1>6. /\ queue' = t.queue /\ raw' = t.raw /\ next' = t.next
      /\ answers' = [i \in Ids |-> answers[i] + (IF i \in done THEN 1 ELSE 0)]
  BY <1>4 DEF Commit
<1>7. next' \in next..(MaxReq + 1) /\ next..(next' - 1) = fresh
  BY <1>3, <1>5, <1>6
<1>8. Clean(Now)'
  BY <1>5, <1>6, CleanNow
<1>9. /\ done \subseteq all \cup (next..(next' - 1))
      /\ QueuedIds(queue') = (all \cup (next..(next' - 1))) \ done
  <2>1. QueuedIds(queue') = {}
    BY <1>5, <1>6
  <2> HIDE DEF fresh, all
  <2>2. done \subseteq all \cup fresh /\ (all \cup fresh) \ done = {}
    BY <1>3, Zenon
  <2> QED BY <2>1, <2>2, <1>7, Zenon
<1>10. Out(queue') = (Out(queue) \ done) \cup {}
  <2>1. Out(queue') = {}
    BY <1>5, <1>6 DEF Out
  <2>2. Out(queue) \ all = {}
    BY <1>1, OutHead
  <2> QED BY <2>1, <2>2
<1>11. Moves(done, {})
  BY <1>6, <1>7, <1>8, <1>9, <1>10 DEF Moves
<1> QED BY <1>11

LEMMA LoopPrepareMoves ==
  ASSUME QueueInv, LoopPrepare
  PROVE  \E done : Moves(done, {})
<1> USE QueueAssumption
<1> DEFINE evict == queue # <<>> /\ expired
           start == IF evict THEN Unlinked(Now) ELSE {[Now EXCEPT !.queue = Seen(@)]}
           done == IF evict THEN {Head(queue).id} ELSE {}
<1>1. /\ Now \in PartType /\ Clean(Now) /\ Now.queue = queue /\ Now.next = next /\ Now.raw = raw
      /\ queue \in Seq(Wrapper) /\ next \in 1..(MaxReq + 1) /\ raw \in {NoId} \cup Ids
      /\ Distinct(queue) /\ Unsent(queue, 2) /\ QueuedIds(queue) \subseteq 1..(next - 1)
      /\ raw # NoId <=> raw \in QueuedIds(queue)
  BY NowClean DEF QueueInv, TypeOK
<1> DEFINE Took(s, b) ==
        /\ s.next + Len(b) <= MaxReq + 1
        /\ Commit([queue |-> s.queue \o Polls(b, s.next), raw |-> s.raw, next |-> s.next + Len(b)],
                  done, next..(s.next - 1))
<1>2. PICK s \in start : \E b \in DueBatches(s.queue) : Took(s, b)
  BY DEF LoopPrepare
<1>3. PICK b \in DueBatches(s.queue) : Took(s, b)
  BY <1>2
<1>4. /\ s \in PartType /\ Clean(s) /\ s.next \in next..(MaxReq + 1)
      /\ QueuedIds(s.queue) = (QueuedIds(queue) \ done) \cup (next..(s.next - 1))
      /\ done \subseteq QueuedIds(queue)
  <2>1. CASE evict
    BY <2>1, <1>1, <1>2, UnlinkedClean, HeadIn
  <2>2. CASE ~evict
    <3>1. s = [queue |-> Seen(queue), raw |-> raw, next |-> next]
      BY <2>2, <1>2 DEF Now
    <3>2. /\ Seen(queue) \in Seq(Wrapper) /\ Len(Seen(queue)) = Len(queue)
          /\ \A k \in 1..Len(queue) : Seen(queue)[k].id = queue[k].id
          /\ \A k \in 1..Len(queue) : k # 1 => Seen(queue)[k] = queue[k]
      BY <1>1, SeenType
    <3>3. QueuedIds(Seen(queue)) = QueuedIds(queue) /\ Distinct(Seen(queue)) /\ Unsent(Seen(queue), 2)
      BY <3>2, <1>1, SameIds
    <3>4. s \in PartType
      BY <3>1, <3>2, <1>1 DEF PartType
    <3>5. Clean(s)
      BY <3>1, <3>3, <1>1 DEF Clean
    <3>6. s.next = next /\ next..(next - 1) = {} /\ next \in next..(MaxReq + 1)
      BY <3>1, <1>1
    <3> QED BY <2>2, <3>1, <3>3, <3>4, <3>5, <3>6
  <2> QED BY <2>1, <2>2
<1> DEFINE c == s.queue \o Polls(b, s.next)
           t == [queue |-> c, raw |-> s.raw, next |-> s.next + Len(b)]
<1>5. /\ Clean(t) /\ c \in Seq(Wrapper) /\ Len(b) \in Nat
      /\ QueuedIds(c) = QueuedIds(s.queue) \cup (s.next..(s.next + Len(b) - 1))
      /\ Unsent(s.queue, 1) => Unsent(c, 1)
  BY <1>3, <1>4, PollsClean
<1>6. /\ queue' = c /\ raw' = s.raw /\ next' = s.next + Len(b)
      /\ answers' = [i \in Ids |-> answers[i] + (IF i \in done THEN 1 ELSE 0)]
  BY <1>3, <1>4 DEF Commit
<1>7. Clean(Now)'
  <2>1. queue' = t.queue /\ raw' = t.raw /\ next' = t.next
    <3> HIDE DEF c
    <3> QED BY <1>4, <1>6
  <2> HIDE DEF t
  <2> QED BY <2>1, <1>5, CleanNow
<1>8. next' \in next..(MaxReq + 1)
  BY <1>1, <1>3, <1>4, <1>5, <1>6
<1>9. /\ QueuedIds(queue') = (QueuedIds(queue) \cup (next..(next' - 1))) \ done
      /\ done \subseteq QueuedIds(queue) \cup (next..(next' - 1))
  <2>1. QueuedIds(queue') = QueuedIds(s.queue) \cup (s.next..(s.next + Len(b) - 1))
    BY <1>5, <1>6, Zenon
  <2>2. (next..(s.next - 1)) \cup (s.next..(s.next + Len(b) - 1)) = next..(next' - 1)
    <3>1. /\ next' = s.next + Len(b) /\ Len(b) \in Nat /\ next \in Int
          /\ s.next \in next..(MaxReq + 1)
      BY <1>1, <1>4, <1>5, <1>6, QueueAssumption
    <3> HIDE DEF c
    <3>2. PICK m \in Int : m = s.next /\ next <= m
      BY <3>1
    <3>3. \A n \in Nat : (next..(m - 1)) \cup (m..(m + n - 1)) = next..(m + n - 1)
      BY <3>1, <3>2
    <3>4. (next..(m - 1)) \cup (m..(m + Len(b) - 1)) = next..(m + Len(b) - 1)
      BY <3>1, <3>3
    <3> QED BY <3>1, <3>2, <3>4
  <2>3. done \cap (next..(next' - 1)) = {}
    <3>1. \A i \in QueuedIds(queue) : i < next /\ i \in Int
      BY <1>1
    <3> QED BY <3>1, <1>1, <1>4, <1>8
  <2> HIDE DEF done
  <2>4. QueuedIds(queue') = (QueuedIds(queue) \ done) \cup (next..(next' - 1))
    BY <2>1, <2>2, <1>4, Zenon
  <2> QED BY <2>3, <2>4, <1>4, Zenon
<1>10. Out(queue') = (Out(queue) \ done) \cup {}
  <2>1. CASE evict
    <3>1. Unsent(s.queue, 1)
      BY <2>1, <1>1, <1>2, UnlinkedClean
    <3>2. Out(queue') = {}
      BY <3>1, <1>5, <1>6, OutUnsent
    <3> QED BY <2>1, <3>2, <1>1, OutHead
  <2>2. CASE ~evict /\ queue # <<>>
    <3>1. queue' # <<>> /\ Head(queue').id = Head(queue).id /\ Head(queue').xmit = Head(queue).xmit
      BY <2>2, LoopPrepareHead DEF QueueInv
    <3> QED BY <2>2, <3>1 DEF Out
  <2>3. CASE queue = <<>>
    <3>1. s.queue = <<>>
      BY <2>3, <1>1, <1>2 DEF Now, Seen
    <3>2. Unsent(s.queue, 1)
      BY <3>1 DEF Unsent
    <3>3. Out(queue') = {} /\ Out(queue) = {}
      BY <2>3, <3>2, <1>5, <1>6, OutUnsent DEF Out
    <3> QED BY <2>3, <3>3
  <2> QED BY <2>1, <2>2, <2>3
<1>11. Moves(done, {})
  BY <1>4, <1>6, <1>7, <1>8, <1>9, <1>10 DEF Moves
<1> QED BY <1>11

\* Bytes of the request are written: nobody is told anything, the first one
\* sends the request.
LEMMA WriteMoves ==
  ASSUME QueueInv, NEW x \in {"none", "part", "all"}, WriteRequest(x)
  PROVE  \E done, go : /\ Moves(done, go)
                       /\ go # {} => /\ go = {Head(queue).id} /\ queue # <<>>
                                     /\ done = {} /\ next' = next /\ Out(queue) = {}
<1>1. /\ queue \in Seq(Wrapper) /\ next \in 1..(MaxReq + 1) /\ queue # <<>>
      /\ Distinct(queue) /\ Unsent(queue, 2) /\ QueuedIds(queue) \subseteq 1..(next - 1)
      /\ raw # NoId <=> raw \in QueuedIds(queue)
  BY NowClean DEF QueueInv, WriteRequest
<1>2. CASE x = "all" /\ Head(queue).bcast
  <2>1. Moves({Head(queue).id}, {})
    BY <1>1, <1>2, FinishMoves DEF WriteRequest
  <2> QED BY <2>1
<1>3. CASE ~(x = "all" /\ Head(queue).bcast)
  <2> DEFINE w == [queue[1] EXCEPT !.xmit = x]
  <2>1. queue[1] \in Wrapper
    BY <1>1
  <2>2. w \in Wrapper /\ w.id = queue[1].id /\ w.xmit = x
    BY <2>1 DEF Wrapper
  <2>3. /\ queue' = [queue EXCEPT ![1] = w] /\ UNCHANGED <<raw, next, answers>>
        /\ Head(queue).xmit = "part" => x # "none"
    BY <1>3 DEF WriteRequest
  <2> HIDE DEF w
  <2>4. /\ queue' \in Seq(Wrapper) /\ Len(queue') = Len(queue) /\ queue'[1] = w
        /\ \A k \in 1..Len(queue) : k # 1 => queue'[k] = queue[k]
    BY <1>1, <2>2, <2>3, HeadReplaced
  <2>5. \A k \in 1..Len(queue) : queue'[k].id = queue[k].id
    BY <2>2, <2>4
  <2>6. QueuedIds(queue') = QueuedIds(queue) /\ Distinct(queue') /\ Unsent(queue', 2)
    BY <1>1, <2>4, <2>5, SameIds
  <2>7. Clean(Now)'
    BY <2>3, <2>6, <1>1 DEF Clean, Now
  <2>8. queue' # <<>> /\ Head(queue') = w /\ Head(queue) = queue[1]
    BY <1>1, <2>4
  <2> DEFINE go == IF Head(queue).xmit = "none" /\ x # "none" THEN {Head(queue).id} ELSE {}
  <2>9. Out(queue') = (Out(queue) \ {}) \cup go
    <3>1. Head(queue).xmit = "none" \/ x # "none"
      BY <2>1, <2>3, <2>8 DEF WriteRequest, Wrapper
    <3>2. Out(queue') = IF x # "none" THEN {Head(queue).id} ELSE {}
      BY <2>2, <2>8 DEF Out
    <3>3. Out(queue) = IF Head(queue).xmit # "none" THEN {Head(queue).id} ELSE {}
      BY <1>1 DEF Out
    <3> QED BY <3>1, <3>2, <3>3
  <2>10. answers' = [i \in Ids |-> answers[i] + (IF i \in {} THEN 1 ELSE 0)]
    BY <2>3 DEF QueueInv, TypeOK
  <2>11. next..(next' - 1) = {} /\ next' \in next..(MaxReq + 1)
    BY <1>1, <2>3
  <2>12. Moves({}, go)
    BY <2>6, <2>7, <2>9, <2>10, <2>11 DEF Moves
  <2>13. go # {} => Out(queue) = {}
    BY DEF Out
  <2> QED BY <1>1, <2>3, <2>12, <2>13
<1> QED BY <1>2, <1>3

LEMMA StepMoves ==
  ASSUME ~(CallbackPosts /\ ResetPosts), QueueInv, [Next]_vars
  PROVE  \E done, go : /\ Moves(done, go)
                       /\ go # {} => /\ go = {Head(queue).id} /\ queue # <<>>
                                     /\ done = {} /\ next' = next /\ Out(queue) = {}
<1>1. ASSUME NEW b \in BOOLEAN, Post(b) \/ RawRequest(b) PROVE Moves({}, {})
  BY <1>1, PostMoves
<1>2. CASE LoopPrepare
  BY <1>2, LoopPrepareMoves
<1>3. ASSUME NEW x \in {"none", "part", "all"}, WriteRequest(x)
      PROVE  \E done, go : /\ Moves(done, go)
                           /\ go # {} => /\ go = {Head(queue).id} /\ queue # <<>>
                                         /\ done = {} /\ next' = next /\ Out(queue) = {}
  BY <1>3, WriteMoves
<1>4. CASE WriteInGap \/ ReadAnswer
  <2>1. Moves({Head(queue).id}, {})
    BY <1>4, FinishMoves DEF WriteInGap, ReadAnswer
  <2> QED BY <2>1
<1>5. CASE LinkLost
  BY <1>5, LinkLostMoves
<1>6. CASE UNCHANGED <<queue, raw, next, answers>>
  <2>1. next..(next' - 1) = {} /\ next' \in next..(MaxReq + 1)
    BY <1>6, NowClean, QueueAssumption DEF QueueInv
  <2>2. Clean(Now)'
    BY <1>6 DEF QueueInv, Clean, Now
  <2>3. answers' = [i \in Ids |-> answers[i] + (IF i \in {} THEN 1 ELSE 0)]
    BY <1>6 DEF QueueInv, TypeOK
  <2>4. Moves({}, {})
    BY <1>6, <2>1, <2>2, <2>3 DEF Moves
  <2> QED BY <2>4
<1>7. ReadMore \/ Connect \/ TimeoutElapses \/ GapElapses \/ UNCHANGED vars
      => UNCHANGED <<queue, raw, next, answers>>
  BY DEF ReadMore, Connect, TimeoutElapses, GapElapses, vars
<1> QED BY <1>1, <1>2, <1>3, <1>4, <1>5, <1>6, <1>7 DEF Next

LEMMA InInterval == \A a, b, i \in Int : i \in a..(b - 1) <=> i >= a /\ i < b
  OBVIOUS

LEMMA IntervalWithin ==
  ASSUME NEW a \in Nat \ {0}, NEW b \in Int, NEW n \in Nat, b <= n
  PROVE  a..b \subseteq 1..n
OBVIOUS

LEMMA QueueInvStep ==
  ASSUME ~(CallbackPosts /\ ResetPosts), QueueInv, [Next]_vars
  PROVE  QueueInv'
<1>1. PICK done, go : Moves(done, go)
  BY StepMoves
<1>2. /\ TypeOK' /\ next \in 1..(MaxReq + 1)
      /\ QueuedIds(queue) \subseteq 1..(next - 1)
  BY NextType, NowClean DEF QueueInv
<1>3. ReportedOnce'
  <2> SUFFICES ASSUME NEW i \in Ids
               PROVE  answers'[i] = IF i < next' /\ i \notin QueuedIds(queue') THEN 1 ELSE 0
    BY DEF ReportedOnce
  <2>1. answers[i] = IF i < next /\ i \notin QueuedIds(queue) THEN 1 ELSE 0
    BY DEF QueueInv, ReportedOnce
  <2>2. answers'[i] = answers[i] + (IF i \in done THEN 1 ELSE 0)
    BY <1>1 DEF Moves
  <2> DEFINE fresh == next..(next' - 1)
  <2>3. i \in QueuedIds(queue') <=> (i \in QueuedIds(queue) \/ i \in fresh) /\ i \notin done
    BY <1>1 DEF Moves
  <2>4. i \in done => i \in QueuedIds(queue) \/ i \in fresh
    BY <1>1 DEF Moves
  <2>5. i \in QueuedIds(queue) => i < next
    BY <1>2
  <2>6. next' >= next /\ next' \in Int /\ next \in Int /\ i \in Int
    BY <1>1, <1>2, QueueAssumption DEF Moves, Ids
  <2>7. i \in fresh <=> i >= next /\ i < next'
    BY <2>6, InInterval
  <2> HIDE DEF fresh
  <2>8. CASE i \in done
    <3>1. answers[i] = 0 /\ i < next' /\ i \notin QueuedIds(queue')
      BY <2>8, <2>1, <2>3, <2>4, <2>5, <2>6, <2>7
    <3> QED BY <3>1, <2>2, <2>8
  <2>9. CASE i \notin done
    <3>1. (i < next' /\ i \notin QueuedIds(queue')) <=> (i < next /\ i \notin QueuedIds(queue))
      BY <2>9, <2>3, <2>5, <2>6, <2>7
    <3>2. answers'[i] = answers[i]
      BY <2>2, <2>9 DEF QueueInv, TypeOK
    <3> QED BY <3>1, <3>2, <2>1
  <2> QED BY <2>8, <2>9
<1>4. Clean(Now)'
  BY <1>1 DEF Moves
<1> QED BY <1>2, <1>3, <1>4 DEF QueueInv

LEMMA QueueInvInit == Init => QueueInv
<1> SUFFICES ASSUME Init PROVE QueueInv
  OBVIOUS
<1>1. TypeOK
  <2>1. <<>> \in Seq(Wrapper) /\ [i \in Ids |-> 0] \in [Ids -> Nat] /\ 1 \in 1..(MaxReq + 1)
    BY QueueAssumption
  <2> QED BY <2>1 DEF Init, TypeOK
<1>2. QueuedIds(queue) = {} /\ queue = <<>>
  <2>1. DOMAIN <<>> = {}
    OBVIOUS
  <2> QED BY <2>1 DEF Init, QueuedIds
<1>3. Clean(Now)
  <2>1. Now = [queue |-> <<>>, raw |-> NoId, next |-> 1]
    BY DEF Now, Init
  <2>2. QueuedIds(<<>>) = {}
    BY <1>2
  <2> QED BY <2>1, <2>2 DEF Clean, Distinct, Unsent
<1>4. ReportedOnce
  BY <1>2 DEF Init, ReportedOnce, Ids
<1> QED BY <1>1, <1>3, <1>4 DEF QueueInv

\* No request is forgotten and none is reported twice, on any way out of the
\* queue; the raw slot names a queued request; only the head is on the wire.
THEOREM QueueCorrect ==
  ~(CallbackPosts /\ ResetPosts) => (Spec => [](ReportedOnce /\ OnlyHeadOnWire /\ RawSlotQueued))
<1> SUFFICES ASSUME ~(CallbackPosts /\ ResetPosts)
             PROVE  Spec => [](ReportedOnce /\ OnlyHeadOnWire /\ RawSlotQueued)
  OBVIOUS
<1>1. Init => QueueInv
  BY QueueInvInit
<1>2. QueueInv /\ [Next]_vars => QueueInv'
  BY QueueInvStep
<1>3. QueueInv => ReportedOnce /\ OnlyHeadOnWire /\ RawSlotQueued
  <2> SUFFICES ASSUME QueueInv PROVE OnlyHeadOnWire /\ RawSlotQueued
    BY DEF QueueInv
  <2>1. /\ Unsent(queue, 2) /\ queue \in Seq(Wrapper)
        /\ raw # NoId <=> raw \in QueuedIds(queue)
    BY NowClean DEF QueueInv
  <2>2. raw \in QueuedIds(queue) <=> \E k \in 1..Len(queue) : queue[k].id = raw
    BY <2>1, IdsOf
  <2> QED BY <2>1, <2>2 DEF OnlyHeadOnWire, RawSlotQueued, Unsent
<1> QED BY <1>1, <1>2, <1>3, PTL DEF Spec

\* Any way a raw request leaves the queue, raw_cb is cleared before its
\* callback runs: the slot is taken exactly while the request is queued.
THEOREM RawSlotQueuedProved ==
  ~(CallbackPosts /\ ResetPosts) => (Spec => []RawSlotQueued)
<1> SUFFICES ASSUME ~(CallbackPosts /\ ResetPosts) PROVE Spec => []RawSlotQueued
  OBVIOUS
<1>1. Spec => [](ReportedOnce /\ OnlyHeadOnWire /\ RawSlotQueued)
  BY QueueCorrect
<1> QED BY <1>1, PTL

-----------------------------------------------------------------------------
(***************************************************************************)
(* The queue implements RequestService.                                    *)
(***************************************************************************)
LEMMA StatusOf ==
  ASSUME NEW i \in Ids
  PROVE  Status[i] = IF i >= next THEN "new"
                     ELSE IF i \notin QueuedIds(queue) THEN "done"
                     ELSE IF i \in Out(queue) THEN "sent" ELSE "waiting"
<1>1. i \in QueuedIds(queue) => queue # <<>>
  BY DEF QueuedIds
<1> QED BY <1>1 DEF Status, Out

\* Init maps to Service!Init and a step to one of its steps or a stutter.
THEOREM QueueServesRequests == ~(CallbackPosts /\ ResetPosts) => (Spec => ServesRequests)
<1> SUFFICES ASSUME ~(CallbackPosts /\ ResetPosts) PROVE Spec => ServesRequests
  OBVIOUS
<1>1. Init => QueueInv
  BY QueueInvInit
<1>2. QueueInv /\ [Next]_vars => QueueInv'
  BY QueueInvStep
<1>3. Init => Service!Init
  <2> SUFFICES ASSUME Init PROVE Service!Init
    OBVIOUS
  <2>1. \A i \in Ids : Status[i] = "new"
    BY DEF Init, Status, Ids
  <2> QED BY <2>1 DEF Service!Init, Status
<1>4. QueueInv /\ [Next]_vars => [Service!Next]_Status
  <2> SUFFICES ASSUME QueueInv, [Next]_vars PROVE Service!Next
    OBVIOUS
  <2>1. PICK done, go : /\ Moves(done, go)
                        /\ go # {} => /\ go = {Head(queue).id} /\ queue # <<>>
                                      /\ done = {} /\ next' = next /\ Out(queue) = {}
    BY StepMoves
  <2>2. /\ QueuedIds(queue) \subseteq 1..(next - 1) /\ next \in 1..(MaxReq + 1)
        /\ queue \in Seq(Wrapper)
    BY NowClean DEF QueueInv
  <2>3. /\ next' \in next..(MaxReq + 1)
        /\ done \subseteq QueuedIds(queue) \cup (next..(next' - 1))
        /\ QueuedIds(queue') = (QueuedIds(queue) \cup (next..(next' - 1))) \ done
        /\ Out(queue') = (Out(queue) \ done) \cup go
    BY <2>1 DEF Moves
  <2>4. next' \in Int /\ next \in Int /\ next' >= next /\ QueuedIds(queue) \subseteq Ids
    BY <2>2, <2>3, IdsOf, QueueAssumption
  <2>5. Out(queue) \subseteq QueuedIds(queue)
    BY <2>2, OutHead
  <2> DEFINE accepted == next..(next' - 1)
  <2>6. ASSUME NEW i \in Ids
        PROVE  Status'[i] = IF i >= next' THEN "new"
                            ELSE IF i \notin QueuedIds(queue') THEN "done"
                            ELSE IF i \in Out(queue') THEN "sent" ELSE "waiting"
    <3>1. i \in QueuedIds(queue') => queue' # <<>>
      BY DEF QueuedIds
    <3> QED BY <3>1 DEF Status, Out
  <2>7. ASSUME NEW i \in Ids
        PROVE  /\ i \in Int
               /\ i \in accepted <=> i >= next /\ i < next'
               /\ i \in QueuedIds(queue) => i < next
               /\ i \in QueuedIds(queue') <=> (i \in QueuedIds(queue) \/ i \in accepted) /\ i \notin done
               /\ i \in Out(queue') <=> (i \in Out(queue) /\ i \notin done) \/ i \in go
    <3>1. i \in Int
      BY QueueAssumption DEF Ids
    <3>2. i \in accepted <=> i >= next /\ i < next'
      BY <3>1, <2>4, InInterval
    <3>3. i \in QueuedIds(queue) => i < next
      BY <2>2, <3>1
    <3>4. /\ i \in QueuedIds(queue') <=> (i \in QueuedIds(queue) \/ i \in accepted) /\ i \notin done
          /\ i \in Out(queue') <=> (i \in Out(queue) /\ i \notin done) \/ i \in go
      BY <2>3, Zenon
    <3> QED BY <3>1, <3>2, <3>3, <3>4
  <2> HIDE DEF accepted
  <2>8. CASE go = {}
    <3>1. accepted \subseteq Ids
      <4>1. next' \in next..(MaxReq + 1) /\ next \in 1..(MaxReq + 1)
        BY <2>2, <2>3, Zenon
      <4>2. PICK n : n = next' - 1 /\ n \in Int /\ n <= MaxReq /\ next \in Nat \ {0}
        BY <4>1, QueueAssumption
      <4>3. next..n \subseteq 1..MaxReq
        BY <4>2, QueueAssumption, IntervalWithin
      <4> QED BY <4>2, <4>3, Zenon DEF Ids, accepted
    <3>2. accepted \subseteq Service!Is("new")
      <4> SUFFICES ASSUME NEW i \in accepted PROVE i \in Service!Is("new")
        OBVIOUS
      <4>1. i \in Ids /\ i >= next
        BY <3>1, <2>7
      <4>2. Status[i] = "new"
        BY <4>1, StatusOf
      <4> QED BY <4>1, <4>2 DEF Service!Is
    <3>3. done \subseteq accepted \cup Service!Is("waiting") \cup Service!Is("sent")
      <4> SUFFICES ASSUME NEW i \in done, i \notin accepted
                   PROVE  i \in Service!Is("waiting") \cup Service!Is("sent")
        OBVIOUS
      <4>1. i \in Ids /\ i \in QueuedIds(queue)
        BY <2>3, <2>4 DEF accepted
      <4>2. ~(i >= next)
        BY <4>1, <2>4, <2>7
      <4>3. Status[i] = "waiting" \/ Status[i] = "sent"
        BY <4>1, <4>2, StatusOf
      <4> QED BY <4>1, <4>3 DEF Service!Is
    <3>4. ASSUME NEW i \in Ids
          PROVE  Status'[i] = IF i \in done THEN "done"
                              ELSE IF i \in accepted THEN "waiting" ELSE Status[i]
      <4>1. i \in Out(queue) => i \in QueuedIds(queue)
        BY <2>5
      <4>2. i \in done => i \in QueuedIds(queue) \/ i \in accepted
        BY <2>3 DEF accepted
      <4> QED BY <4>1, <4>2, <2>4, <2>6, <2>7, <2>8, StatusOf
    <3>5. Status' = [i \in Ids |-> IF i \in done THEN "done"
                                   ELSE IF i \in accepted THEN "waiting" ELSE Status[i]]
      BY <3>4, Zenon DEF Status
    <3>6. Service!Turn(accepted, done)
      BY <3>5 DEF Service!Turn
    <3> QED BY <3>2, <3>3, <3>6 DEF Service!Next
  <2>9. CASE go # {}
    <3> DEFINE h == Head(queue).id
    <3>1. go = {h} /\ queue # <<>> /\ done = {} /\ next' = next /\ Out(queue) = {}
      BY <2>1, <2>9
    <3>2. h \in QueuedIds(queue) /\ h \in Ids
      BY <3>1, <2>2, HeadIn
    <3> HIDE DEF h
    <3>3. Status[h] = "waiting"
      BY <3>1, <3>2, <2>4, <2>7, StatusOf
    <3>4. Service!Is("sent") = {}
      BY <3>1, StatusOf DEF Service!Is
    <3>5. ASSUME NEW i \in Ids PROVE Status'[i] = IF i = h THEN "sent" ELSE Status[i]
      <4>1. i \notin accepted
        BY <3>1, <2>4, <2>7
      <4>2. CASE i = h
        BY <4>1, <4>2, <3>1, <3>2, <2>4, <2>6, <2>7
      <4>3. CASE i # h
        BY <4>1, <4>3, <3>1, <2>4, <2>6, <2>7, StatusOf
      <4> QED BY <4>2, <4>3
    <3>6. Status' = [Status EXCEPT ![h] = "sent"]
      BY <3>5, <3>2 DEF Status
    <3>7. Service!Send(h)
      BY <3>3, <3>4, <3>6 DEF Service!Send
    <3> QED BY <3>2, <3>7 DEF Service!Next
  <2> QED BY <2>8, <2>9
<1> QED BY <1>1, <1>2, <1>3, <1>4, PTL DEF Spec, ServesRequests, Service!Spec

-----------------------------------------------------------------------------
(***************************************************************************)
(* The order of the queue: writes ahead of the waiting polls, and each     *)
(* kind first in, first out, whatever caller and callbacks do.             *)
(***************************************************************************)

\* Writes and polls of a queue, told apart by the set w of all writes.
Marked(q, w) == \A k \in 1..Len(q) : (q[k].flags = "POST") <=> (q[k].id \in w)
Rising(q) ==
  \A j, k \in 1..Len(q) : j < k /\ q[j].flags = q[k].flags => q[j].id < q[k].id
WritesAhead(q) ==
  \A j, k \in 2..Len(q) : j < k /\ q[k].flags = "POST" => q[j].flags = "POST"

\* Whoever waits, all that came after it and are of its kind wait as well.
Behind(q, n, w) ==
  \A i \in QueuedIds(q), j \in 1..(n - 1) :
    i < j /\ (i \in w <=> j \in w) => j \in QueuedIds(q)

Orderly(q, n, w) ==
  /\ w \subseteq 1..(n - 1)
  /\ QueuedIds(q) \subseteq 1..(n - 1)
  /\ Marked(q, w)
  /\ Rising(q)
  /\ WritesAhead(q)
  /\ Behind(q, n, w)

-----------------------------------------------------------------------------
(***************************************************************************)
(* What the operators on queues do to the order.                           *)
(***************************************************************************)

\* Where a write goes: behind the head and the writes that follow it, in
\* front of a poll.
LEMMA PostedPlace ==
  ASSUME NEW q \in Seq(Wrapper), NEW r \in Wrapper, NEW p \in Posted(q, r)
  PROVE  \E n \in 0..Len(q) :
           /\ \A k \in 2..n : q[k].flags = "POST"
           /\ n < Len(q) => n > 0 /\ q[n + 1].flags # "POST"
           /\ Len(p) = Len(q) + 1
           /\ \A k \in 1..Len(p) : p[k] = IF k <= n THEN q[k]
                                          ELSE IF k = n + 1 THEN r ELSE q[k - 1]
<1>1. CASE q = <<>>
  <2>1. p = <<r>> /\ Len(q) = 0
    BY <1>1 DEF Posted
  <2>2. Len(p) = 1 /\ p[1] = r
    BY <2>1
  <2>3. WITNESS 0 \in 0..Len(q)
  <2> QED BY <2>1, <2>2
<1>2. CASE q # <<>>
  <2>1. PICK n \in 1..Len(q) : PostSlot(q, n) /\ p = InsertAt(q, n + 1, r)
    BY <1>2 DEF Posted
  <2>2. n \in 0..Len(q)
    OBVIOUS
  <2> DEFINE i == InsertAt(q, n + 1, r)
  <2>3. /\ Len(i) = Len(q) + 1
        /\ \A k \in 1..(Len(q) + 1) : i[k] = IF k <= n THEN q[k]
                                             ELSE IF k = n + 1 THEN r ELSE q[k - 1]
    BY <2>2, InsertAtProperties
  <2> HIDE DEF i
  <2>4. /\ \A k \in 2..n : q[k].flags = "POST"
        /\ n < Len(q) => n > 0 /\ q[n + 1].flags # "POST"
    BY <2>1 DEF PostSlot
  <2>5. /\ Len(p) = Len(q) + 1
        /\ \A k \in 1..Len(p) : p[k] = IF k <= n THEN q[k]
                                       ELSE IF k = n + 1 THEN r ELSE q[k - 1]
    BY <2>1, <2>3 DEF i
  <2> QED BY <2>2, <2>4, <2>5
<1> QED BY <1>1, <1>2

LEMMA PostedOrderly ==
  ASSUME NEW q \in Seq(Wrapper), NEW m \in 1..MaxReq, NEW w, Orderly(q, m, w),
         NEW b \in BOOLEAN, NEW p \in Posted(q, PostRequest(m, b))
  PROVE  p \in Seq(Wrapper) /\ Orderly(p, m + 1, w \cup {m})
<1> USE QueueAssumption
<1> DEFINE r == PostRequest(m, b)
<1>1. r \in Wrapper /\ r.id = m /\ r.flags = "POST"
  <2>1. r.flags = "POST"
    BY DEF PostRequest
  <2> QED BY <2>1, PostRequestType
<1> HIDE DEF r
<1>2. p \in Seq(Wrapper) /\ QueuedIds(p) = QueuedIds(q) \cup {m}
  BY <1>1, PostedProperties, PostedIds DEF r
<1>3. PICK n \in 0..Len(q) :
           /\ \A k \in 2..n : q[k].flags = "POST"
           /\ n < Len(q) => n > 0 /\ q[n + 1].flags # "POST"
           /\ Len(p) = Len(q) + 1
           /\ \A k \in 1..Len(p) : p[k] = IF k <= n THEN q[k]
                                          ELSE IF k = n + 1 THEN r ELSE q[k - 1]
  BY <1>1, PostedPlace DEF r
<1>4. Len(q) \in Nat /\ n \in Nat /\ n <= Len(q) /\ m \in Nat /\ (m + 1) - 1 = m
  <2>1. Len(q) \in Nat
    OBVIOUS
  <2>2. m \in Nat
    OBVIOUS
  <2> QED BY <2>1, <2>2
<1>5. w \subseteq 1..(m - 1) /\ QueuedIds(q) \subseteq 1..(m - 1)
  BY DEF Orderly
<1>6. w \cup {m} \subseteq 1..m /\ QueuedIds(p) \subseteq 1..m
  <2>1. 1..(m - 1) \subseteq 1..m /\ m \in 1..m
    BY <1>4
  <2> QED BY <2>1, <1>2, <1>5
<1>7. ASSUME NEW k \in 1..Len(q) PROVE q[k].id \in Nat /\ q[k].id < m
  BY <1>5, IdsOf
\* Old elements by their new place; no write follows the new one.
<1>8. ASSUME NEW k \in 1..Len(p)
      PROVE  \/ k <= n /\ k \in 1..Len(q) /\ p[k] = q[k]
             \/ k = n + 1 /\ p[k] = r
             \/ k > n + 1 /\ (k - 1) \in (n + 1)..Len(q) /\ (k - 1) \in 1..Len(q) /\ p[k] = q[k - 1]
  BY <1>3, <1>4
<1>9. ASSUME NEW k \in (n + 1)..Len(q) PROVE q[k].flags # "POST"
  <2>1. n > 0 /\ q[n + 1].flags # "POST" /\ n + 1 \in 2..Len(q)
    BY <1>3, <1>4
  <2>2. k # n + 1 => k \in 2..Len(q) /\ n + 1 < k
    BY <1>4, <2>1
  <2> QED BY <2>1, <2>2 DEF Orderly, WritesAhead
<1>10. Marked(p, w \cup {m})
  <2> SUFFICES ASSUME NEW k \in 1..Len(p)
               PROVE  (p[k].flags = "POST") <=> (p[k].id \in w \cup {m})
    BY DEF Marked
  <2>1. ASSUME NEW i \in 1..Len(q) PROVE (q[i].flags = "POST") <=> (q[i].id \in w \cup {m})
    BY <1>7 DEF Orderly, Marked
  <2> QED BY <1>1, <1>8, <2>1
<1>11. Rising(p)
  <2> SUFFICES ASSUME NEW j \in 1..Len(p), NEW k \in 1..Len(p), j < k, p[j].flags = p[k].flags
               PROVE  p[j].id < p[k].id
    BY DEF Rising
  <2>1. CASE k = n + 1
    <3>1. j \in 1..Len(q) /\ p[j] = q[j] /\ p[k] = r
      BY <2>1, <1>4, <1>8
    <3> QED BY <3>1, <1>1, <1>7
  <2>2. CASE j = n + 1
    <3>1. (k - 1) \in (n + 1)..Len(q) /\ p[k] = q[k - 1] /\ p[j] = r
      BY <2>2, <1>4, <1>8
    <3> QED BY <3>1, <1>1, <1>9
  <2>3. CASE j # n + 1 /\ k # n + 1
    <3> DEFINE old(i) == IF i <= n THEN i ELSE i - 1
    <3>1. old(j) \in 1..Len(q) /\ p[j] = q[old(j)]
      BY <2>3, <1>4, <1>8
    <3>2. old(k) \in 1..Len(q) /\ p[k] = q[old(k)]
      BY <2>3, <1>4, <1>8
    <3>3. old(j) < old(k)
      BY <2>3, <1>4
    <3> HIDE DEF old
    <3> QED BY <3>1, <3>2, <3>3 DEF Orderly, Rising
  <2> QED BY <2>1, <2>2, <2>3
<1>12. WritesAhead(p)
  <2> SUFFICES ASSUME NEW j \in 2..Len(p), NEW k \in 2..Len(p), j < k, p[k].flags = "POST"
               PROVE  p[j].flags = "POST"
    BY DEF WritesAhead
  <2>0. j \in 1..Len(p) /\ k \in 1..Len(p) /\ Len(p) \in Nat
    BY <1>3, <1>4
  <2>1. k <= n + 1
    BY <2>0, <1>8, <1>9
  <2>2. j <= n /\ j \in 2..n /\ p[j] = q[j]
    BY <2>0, <2>1, <1>4, <1>8
  <2> QED BY <2>2, <1>3
<1>13. Behind(p, m + 1, w \cup {m})
  <2> SUFFICES ASSUME NEW i \in QueuedIds(p), NEW j \in 1..((m + 1) - 1),
                      i < j, i \in w \cup {m} <=> j \in w \cup {m}
               PROVE  j \in QueuedIds(p)
    BY DEF Behind
  <2>1. CASE j = m
    BY <2>1, <1>2
  <2>2. CASE j # m
    <3>1. i \in QueuedIds(q) /\ j \in 1..(m - 1) /\ i # m
      BY <2>2, <1>2, <1>4, <1>5
    <3>2. i \in w <=> j \in w
      BY <2>2, <3>1
    <3> QED BY <3>1, <3>2, <1>2 DEF Orderly, Behind
  <2> QED BY <2>1, <2>2
<1> QED BY <1>2, <1>4, <1>6, <1>10, <1>11, <1>12, <1>13 DEF Orderly

\* Polls join at the tail, behind all that waits.
LEMMA PollsOrderly ==
  ASSUME NEW s \in PartType, NEW w, Orderly(s.queue, s.next, w),
         NEW b \in DueBatches(s.queue), s.next + Len(b) <= MaxReq + 1
  PROVE  /\ s.queue \o Polls(b, s.next) \in Seq(Wrapper)
         /\ Len(b) \in Nat
         /\ Orderly(s.queue \o Polls(b, s.next), s.next + Len(b), w)
<1> DEFINE o == s.queue
           p == Polls(b, s.next)
           c == o \o p
           m == s.next
<1>1. o \in Seq(Wrapper) /\ m \in 1..(MaxReq + 1) /\ MaxReq \in Nat
  BY QueueAssumption DEF PartType
<1>2. /\ p \in Seq(Wrapper) /\ Len(p) = Len(b) /\ Len(b) \in Nat
      /\ \A i \in 1..Len(b) : p[i] = PollRequest(m + i - 1, b[i])
  BY <1>1, PollsProperties
<1>3. \A i \in 1..Len(b) : p[i].id = m + i - 1 /\ p[i].flags = "SUBSCRIBE"
  <2>1. ASSUME NEW n, NEW t
        PROVE  PollRequest(n, t).id = n /\ PollRequest(n, t).flags = "SUBSCRIBE"
    BY DEF PollRequest, PostRequest
  <2> HIDE DEF o, p, m
  <2> SUFFICES ASSUME NEW i \in 1..Len(b)
               PROVE  p[i].id = m + i - 1 /\ p[i].flags = "SUBSCRIBE"
    OBVIOUS
  <2>2. p[i] = PollRequest(m + i - 1, b[i])
    BY <1>2
  <2> QED BY <2>1, <2>2
<1>4. Orderly(o, m, w)
  OBVIOUS
<1> HIDE DEF o, p, m
<1>5. /\ c \in Seq(Wrapper) /\ Len(c) = Len(o) + Len(b)
      /\ \A i \in 1..(Len(o) + Len(b)) : c[i] = IF i <= Len(o) THEN o[i] ELSE p[i - Len(o)]
  <2>1. /\ c \in Seq(Wrapper) /\ Len(c) = Len(o) + Len(p)
        /\ \A i \in 1..(Len(o) + Len(p)) : c[i] = IF i <= Len(o) THEN o[i] ELSE p[i - Len(o)]
    BY <1>1, <1>2, ConcatProperties
  <2> HIDE DEF c
  <2> QED BY <2>1, <1>2
<1> HIDE DEF c
<1>6. Len(o) \in Nat /\ m \in Nat /\ m > 0
  <2>1. Len(o) \in Nat
    BY <1>1
  <2> QED BY <2>1, <1>1
<1>7. ASSUME NEW i \in 1..Len(c)
      PROVE  \/ i \in 1..Len(o) /\ c[i] = o[i]
             \/ /\ i > Len(o) /\ c[i].id = m + (i - Len(o)) - 1
                /\ c[i].flags = "SUBSCRIBE" /\ i - Len(o) <= Len(b)
  BY <1>2, <1>3, <1>5, <1>6
<1>8. ASSUME NEW k \in 1..Len(o) PROVE o[k].id \in Nat /\ o[k].id < m
  BY <1>1, <1>4, <1>6, IdsOf DEF Orderly
<1>9. PICK n \in Nat : n = m + Len(b)
  BY <1>2, <1>6
<1>10. w \subseteq 1..(m - 1) /\ 1..(m - 1) \subseteq 1..(n - 1)
  BY <1>2, <1>4, <1>6, <1>9 DEF Orderly
<1>11. QueuedIds(c) \subseteq 1..(n - 1)
  <2> SUFFICES ASSUME NEW i \in QueuedIds(c) PROVE i \in 1..(n - 1)
    OBVIOUS
  <2>1. PICK k \in 1..Len(c) : c[k].id = i
    BY <1>5, IdsOf
  <2>2. CASE k \in 1..Len(o) /\ c[k] = o[k]
    BY <2>1, <2>2, <1>1, <1>4, <1>10, IdsOf DEF Orderly
  <2>3. CASE k > Len(o) /\ c[k].id = m + (k - Len(o)) - 1 /\ k - Len(o) <= Len(b)
    BY <2>1, <2>3, <1>2, <1>5, <1>6, <1>9
  <2> QED BY <2>2, <2>3, <1>7
<1>12. QueuedIds(o) \subseteq QueuedIds(c)
  <2> SUFFICES ASSUME NEW i \in QueuedIds(o) PROVE i \in QueuedIds(c)
    OBVIOUS
  <2>1. PICK k \in 1..Len(o) : o[k].id = i
    BY <1>1, IdsOf
  <2>2. k \in 1..Len(c) /\ c[k] = o[k]
    BY <1>2, <1>5, <1>6
  <2> QED BY <2>1, <2>2, <1>5, IdsOf
<1>13. ASSUME NEW i \in m..(n - 1) PROVE i \in QueuedIds(c)
  <2> DEFINE k == Len(o) + (i - m + 1)
  <2>1. (i - m + 1) \in 1..Len(b) /\ k \in 1..Len(c) /\ k - Len(o) = i - m + 1 /\ k > Len(o)
    BY <1>2, <1>5, <1>6, <1>9
  <2>2. c[k] = p[k - Len(o)]
    BY <2>1, <1>5, <1>6
  <2>3. p[i - m + 1].id = m + (i - m + 1) - 1
    BY <2>1, <1>3
  <2>4. c[k].id = i
    BY <2>1, <2>2, <2>3, <1>6
  <2> HIDE DEF k
  <2>5. \E j \in 1..Len(c) : c[j].id = i
    BY <2>1, <2>4
  <2> QED BY <2>5, <1>5, IdsOf
<1>14. Marked(c, w)
  <2> SUFFICES ASSUME NEW k \in 1..Len(c) PROVE (c[k].flags = "POST") <=> (c[k].id \in w)
    BY DEF Marked
  <2>1. CASE k \in 1..Len(o) /\ c[k] = o[k]
    BY <2>1, <1>4 DEF Orderly, Marked
  <2>2. CASE k > Len(o) /\ c[k].id = m + (k - Len(o)) - 1 /\ c[k].flags = "SUBSCRIBE"
    <3>1. c[k].id >= m
      BY <2>2, <1>6
    <3> QED BY <2>2, <3>1, <1>6, <1>10
  <2> QED BY <2>1, <2>2, <1>7
<1>15. Rising(c)
  <2> SUFFICES ASSUME NEW j \in 1..Len(c), NEW k \in 1..Len(c), j < k, c[j].flags = c[k].flags
               PROVE  c[j].id < c[k].id
    BY DEF Rising
  <2>0. j \in Nat /\ k \in Nat
    BY <1>2, <1>5, <1>6
  <2>1. CASE k \in 1..Len(o) /\ c[k] = o[k]
    <3>1. j \in 1..Len(o) /\ c[j] = o[j]
      BY <2>0, <2>1, <1>6, <1>7
    <3> QED BY <2>1, <3>1, <1>4 DEF Orderly, Rising
  <2>2. CASE k > Len(o) /\ c[k].id = m + (k - Len(o)) - 1
    <3>1. CASE j \in 1..Len(o) /\ c[j] = o[j]
      BY <2>0, <2>2, <3>1, <1>6, <1>8
    <3>2. CASE j > Len(o) /\ c[j].id = m + (j - Len(o)) - 1
      BY <2>0, <2>2, <3>2, <1>6
    <3> QED BY <3>1, <3>2, <1>7
  <2> QED BY <2>1, <2>2, <1>7
<1>16. WritesAhead(c)
  <2> SUFFICES ASSUME NEW j \in 2..Len(c), NEW k \in 2..Len(c), j < k, c[k].flags = "POST"
               PROVE  c[j].flags = "POST"
    BY DEF WritesAhead
  <2>0. j \in 1..Len(c) /\ k \in 1..Len(c) /\ j \in Nat /\ k \in Nat
    BY <1>2, <1>5, <1>6
  <2>1. k \in 2..Len(o) /\ c[k] = o[k]
    BY <2>0, <1>6, <1>7
  <2>2. j \in 2..Len(o) /\ c[j] = o[j]
    BY <2>0, <2>1, <1>6, <1>7
  <2> QED BY <2>1, <2>2, <1>4 DEF Orderly, WritesAhead
<1>17. Behind(c, n, w)
  <2> SUFFICES ASSUME NEW i \in QueuedIds(c), NEW j \in 1..(n - 1), i < j, i \in w <=> j \in w
               PROVE  j \in QueuedIds(c)
    BY DEF Behind
  <2>1. CASE j >= m
    BY <2>1, <1>6, <1>9, <1>13
  <2>2. CASE j < m
    <3>1. j \in 1..(m - 1) /\ i \in Nat
      BY <2>2, <1>6, <1>9, <1>11
    <3>2. PICK k \in 1..Len(c) : c[k].id = i
      BY <1>5, IdsOf
    <3>3. k \in 1..Len(o) /\ c[k] = o[k]
      BY <2>2, <3>1, <3>2, <1>6, <1>7
    <3>4. i \in QueuedIds(o)
      BY <3>2, <3>3, <1>1, IdsOf
    <3> QED BY <3>1, <3>4, <1>4, <1>12 DEF Orderly, Behind
  <2> QED BY <2>1, <2>2, <1>6, <1>9
<1>18. Orderly(c, n, w)
  BY <1>10, <1>11, <1>14, <1>15, <1>16, <1>17 DEF Orderly
<1> QED BY <1>2, <1>5, <1>9, <1>18 DEF c, o, p, m

\* The head leaves.
LEMMA TailOrderly ==
  ASSUME NEW q \in Seq(Wrapper), q # <<>>, NEW n, NEW w, Orderly(q, n, w)
  PROVE  Tail(q) \in Seq(Wrapper) /\ Orderly(Tail(q), n, w)
<1> DEFINE p == Tail(q)
<1>1. /\ p \in Seq(Wrapper) /\ Len(p) = Len(q) - 1
      /\ \A k \in 1..Len(p) : p[k] = q[k + 1]
      /\ Len(q) \in Nat /\ Len(q) > 0
  BY HeadTailProperties
<1> HIDE DEF p
<1>2. \A k \in 1..Len(p) : k + 1 \in 2..Len(q) /\ k + 1 \in 1..Len(q) /\ p[k] = q[k + 1]
  BY <1>1
<1>3. QueuedIds(p) \subseteq QueuedIds(q)
  <2> SUFFICES ASSUME NEW i \in QueuedIds(p) PROVE i \in QueuedIds(q)
    OBVIOUS
  <2>1. PICK k \in 1..Len(p) : p[k].id = i
    BY <1>1, IdsOf
  <2> QED BY <2>1, <1>2, IdsOf
<1>4. Marked(p, w)
  BY <1>2 DEF Orderly, Marked
<1>5. Rising(p)
  <2> SUFFICES ASSUME NEW j \in 1..Len(p), NEW k \in 1..Len(p), j < k, p[j].flags = p[k].flags
               PROVE  p[j].id < p[k].id
    BY DEF Rising
  <2>1. j + 1 \in 1..Len(q) /\ k + 1 \in 1..Len(q) /\ p[j] = q[j + 1] /\ p[k] = q[k + 1]
    BY <1>2
  <2>2. j + 1 < k + 1
    OBVIOUS
  <2> QED BY <2>1, <2>2 DEF Orderly, Rising
<1>6. WritesAhead(p)
  <2> SUFFICES ASSUME NEW j \in 2..Len(p), NEW k \in 2..Len(p), j < k, p[k].flags = "POST"
               PROVE  p[j].flags = "POST"
    BY DEF WritesAhead
  <2>0. j \in 1..Len(p) /\ k \in 1..Len(p)
    BY <1>1
  <2>1. j + 1 \in 2..Len(q) /\ k + 1 \in 2..Len(q) /\ p[j] = q[j + 1] /\ p[k] = q[k + 1]
    BY <2>0, <1>2
  <2>2. j + 1 < k + 1
    OBVIOUS
  <2> QED BY <2>1, <2>2 DEF Orderly, WritesAhead
<1>7. Behind(p, n, w)
  <2> SUFFICES ASSUME NEW i \in QueuedIds(p), NEW j \in 1..(n - 1), i < j, i \in w <=> j \in w
               PROVE  j \in QueuedIds(p)
    BY DEF Behind
  <2>1. PICK k \in 1..Len(p) : p[k].id = i
    BY <1>1, IdsOf
  <2>2. k + 1 \in 2..Len(q) /\ k + 1 \in 1..Len(q) /\ q[k + 1].id = i
    BY <2>1, <1>2
  <2>3. j \in QueuedIds(q)
    BY <1>3 DEF Orderly, Behind
  <2>4. PICK l \in 1..Len(q) : q[l].id = j
    BY <2>3, IdsOf
  <2>5. l # 1
    <3> SUFFICES ASSUME l = 1 PROVE FALSE
      OBVIOUS
    <3>1. q[l].flags = q[k + 1].flags
      <4>1. q[l] \in Wrapper /\ q[k + 1] \in Wrapper
        BY <2>2
      <4>2. q[l].flags = "POST" <=> q[k + 1].flags = "POST"
        BY <2>2, <2>4 DEF Orderly, Marked
      <4> QED BY <4>1, <4>2 DEF Wrapper
    <3>2. l < k + 1
      BY <2>2
    <3>3. j < i
      BY <2>2, <2>4, <3>1, <3>2 DEF Orderly, Rising
    <3>4. i \in Ids /\ j \in Ids
      BY <2>3, <1>3, IdsOf
    <3> QED BY <3>3, <3>4, QueueAssumption DEF Ids
  <2>6. l - 1 \in 1..Len(p) /\ (l - 1) + 1 = l
    BY <2>5, <1>1
  <2>7. p[l - 1].id = j
    BY <2>4, <2>6, <1>1
  <2> QED BY <2>6, <2>7, <1>1, IdsOf
<1>8. Orderly(p, n, w)
  BY <1>3, <1>4, <1>5, <1>6, <1>7 DEF Orderly
<1> QED BY <1>1, <1>8 DEF p

\* Only bytes written and clocks change.
LEMMA SameOrderly ==
  ASSUME NEW q \in Seq(Wrapper), NEW p \in Seq(Wrapper), Len(p) = Len(q),
         \A k \in 1..Len(q) : p[k].id = q[k].id /\ p[k].flags = q[k].flags,
         NEW n, NEW w, Orderly(q, n, w)
  PROVE  Orderly(p, n, w)
<1>1. DOMAIN p = 1..Len(q) /\ DOMAIN q = 1..Len(q)
  OBVIOUS
<1>2. QueuedIds(p) = QueuedIds(q)
  BY <1>1 DEF QueuedIds
<1>3. Marked(p, w) /\ Rising(p)
  BY DEF Orderly, Marked, Rising
<1>4. WritesAhead(p)
  <2>1. \A k \in 2..Len(q) : k \in 1..Len(q)
    OBVIOUS
  <2> QED BY <2>1 DEF Orderly, WritesAhead
<1>5. Behind(p, n, w)
  BY <1>2 DEF Orderly, Behind
<1> QED BY <1>2, <1>3, <1>4, <1>5 DEF Orderly

LEMMA EmptyOrderly ==
  ASSUME NEW n, NEW w, w \subseteq 1..(n - 1)
  PROVE  Orderly(<<>>, n, w)
<1>1. QueuedIds(<<>>) = {} /\ Len(<<>>) = 0
  BY DEF QueuedIds
<1> QED BY <1>1 DEF Orderly, Marked, Rising, WritesAhead, Behind

\* The head is reported, its callback may post, and the head is unlinked.
LEMMA UnlinkedOrderly ==
  ASSUME NEW s \in PartType, s.queue # <<>>, NEW w, Orderly(s.queue, s.next, w),
         NEW t \in Unlinked(s)
  PROVE  /\ t \in PartType
         /\ t.next \in s.next..(MaxReq + 1)
         /\ Orderly(t.queue, t.next, w \cup (s.next..(t.next - 1)))
<1> USE QueueAssumption
<1> DEFINE h == Head(s.queue).id
<1>1. PICK u \in Reported(s, h, CallbackPosts) : t = [u EXCEPT !.queue = Tail(@)]
  BY DEF Unlinked
<1>2. u \in PartType /\ u.queue # <<>> /\ u.queue \in Seq(Wrapper)
  BY <1>1, ReportedType DEF PartType
<1>3. t.queue = Tail(u.queue) /\ t.next = u.next
  BY <1>1, <1>2 DEF PartType
<1>4. s.next \in 1..(MaxReq + 1) /\ s.queue \in Seq(Wrapper)
  BY DEF PartType
<1>5. /\ u.next \in s.next..(MaxReq + 1)
      /\ Orderly(u.queue, u.next, w \cup (s.next..(u.next - 1)))
  <2>1. CASE u.queue = s.queue /\ u.next = s.next
    <3>1. s.next..(s.next - 1) = {} /\ s.next \in s.next..(MaxReq + 1)
      BY <1>4
    <3>2. w \cup {} = w
      OBVIOUS
    <3> QED BY <2>1, <3>1, <3>2
  <2>2. ASSUME s.next <= MaxReq,
               NEW q \in Posted(s.queue, PostRequest(s.next, FALSE)),
               u = [queue |-> q, raw |-> s.next, next |-> s.next + 1]
        PROVE  /\ u.next \in s.next..(MaxReq + 1)
               /\ Orderly(u.queue, u.next, w \cup (s.next..(u.next - 1)))
    <3>1. s.next \in 1..MaxReq
      BY <1>4, <2>2
    <3>2. Orderly(q, s.next + 1, w \cup {s.next})
      BY <1>4, <3>1, PostedOrderly
    <3>3. s.next..((s.next + 1) - 1) = {s.next} /\ s.next + 1 \in s.next..(MaxReq + 1)
      BY <3>1
    <3>4. u.queue = q /\ u.next = s.next + 1
      BY <2>2
    <3> QED BY <3>2, <3>3, <3>4
  <2>3. u \in {s, [s EXCEPT !.raw = NoId]} => u.queue = s.queue /\ u.next = s.next
    BY DEF PartType
  <2> QED BY <1>1, <2>1, <2>2, <2>3 DEF Reported
<1>6. Orderly(t.queue, t.next, w \cup (s.next..(t.next - 1)))
  BY <1>2, <1>3, <1>5, TailOrderly
<1> QED BY <1>3, <1>5, <1>6, UnlinkedType

-----------------------------------------------------------------------------
(***************************************************************************)
(* Every step keeps the order.                                             *)
(***************************************************************************)
OrderInv == TypeOK /\ Orderly(queue, next, writes)

LEMMA FinishOrderly ==
  ASSUME OrderInv, queue # <<>>, Finish
  PROVE  Orderly(queue, next, writes)'
<1>1. PICK t \in Unlinked(Now) : Commit(t, {Head(queue).id}, next..(t.next - 1))
  BY DEF Finish
<1>2. Now \in PartType /\ Now.queue = queue /\ Now.next = next
  BY NowType DEF OrderInv
<1>3. Orderly(t.queue, t.next, writes \cup (next..(t.next - 1)))
  BY <1>1, <1>2, UnlinkedOrderly DEF OrderInv
<1>4. queue' = t.queue /\ next' = t.next /\ writes' = writes \cup (next..(t.next - 1))
  BY <1>1 DEF Commit
<1> QED BY <1>3, <1>4

LEMMA PostOrderly ==
  ASSUME OrderInv, NEW b \in BOOLEAN, Post(b) \/ RawRequest(b)
  PROVE  Orderly(queue, next, writes)'
<1>1. /\ queue \in Seq(Wrapper) /\ next \in 1..MaxReq
      /\ queue' \in Posted(queue, PostRequest(next, b))
      /\ next' = next + 1 /\ writes' = writes \cup {next}
  BY QueueAssumption DEF OrderInv, TypeOK, Post, RawRequest
<1>2. Orderly(queue', next + 1, writes \cup {next})
  BY <1>1, PostedOrderly DEF OrderInv
<1> QED BY <1>1, <1>2

LEMMA LoopPrepareOrderly ==
  ASSUME OrderInv, LoopPrepare
  PROVE  Orderly(queue, next, writes)'
<1> DEFINE evict == queue # <<>> /\ expired
           start == IF evict THEN Unlinked(Now) ELSE {[Now EXCEPT !.queue = Seen(@)]}
           done == IF evict THEN {Head(queue).id} ELSE {}
           Took(s, b) ==
             /\ s.next + Len(b) <= MaxReq + 1
             /\ Commit([queue |-> s.queue \o Polls(b, s.next), raw |-> s.raw, next |-> s.next + Len(b)],
                       done, next..(s.next - 1))
<1>1. PICK s \in start : \E b \in DueBatches(s.queue) : Took(s, b)
  BY DEF LoopPrepare
<1>2. PICK b \in DueBatches(s.queue) : Took(s, b)
  BY <1>1
<1>3. /\ Now \in PartType /\ Now.queue = queue /\ Now.next = next /\ Now.raw = raw
      /\ queue \in Seq(Wrapper) /\ next \in 1..(MaxReq + 1) /\ raw \in {NoId} \cup Ids
      /\ Orderly(queue, next, writes)
  BY NowType DEF OrderInv, TypeOK
<1> DEFINE w == writes \cup (next..(s.next - 1))
<1>4. s \in PartType /\ Orderly(s.queue, s.next, w)
  <2>1. CASE evict
    BY <2>1, <1>1, <1>3, UnlinkedOrderly
  <2>2. CASE ~evict
    <3>1. s = [queue |-> Seen(queue), raw |-> raw, next |-> next]
      BY <2>2, <1>1 DEF Now
    <3>2. /\ Seen(queue) \in Seq(Wrapper) /\ Len(Seen(queue)) = Len(queue)
          /\ \A k \in 1..Len(queue) : Seen(queue)[k].id = queue[k].id
      BY <1>3, SeenType
    <3>3. \A k \in 1..Len(queue) : Seen(queue)[k].flags = queue[k].flags
      <4> SUFFICES ASSUME NEW k \in 1..Len(queue)
                   PROVE  Seen(queue)[k].flags = queue[k].flags
        OBVIOUS
      <4>1. CASE k # 1
        BY <4>1, <1>3, SeenType
      <4>2. CASE k = 1
        <5> DEFINE v == [queue[1] EXCEPT !.seen = TRUE]
        <5>1. queue # <<>> /\ queue[1] \in Wrapper
          BY <4>2, <1>3
        <5>2. v \in Wrapper /\ v.flags = queue[1].flags
          BY <5>1 DEF Wrapper
        <5>3. Seen(queue) = [queue EXCEPT ![1] = v]
          BY <5>1 DEF Seen
        <5> HIDE DEF v
        <5>4. Seen(queue)[1] = v
          BY <5>1, <5>2, <5>3, <1>3, HeadReplaced
        <5> QED BY <4>2, <5>2, <5>4
      <4> QED BY <4>1, <4>2
    <3>4. Orderly(Seen(queue), next, writes)
      BY <3>2, <3>3, <1>3, SameOrderly
    <3>5. next..(next - 1) = {}
      BY <1>3
    <3>6. s.queue = Seen(queue) /\ s.next = next /\ w = writes
      BY <3>1, <3>5
    <3>7. s \in PartType
      BY <3>1, <3>2, <1>3 DEF PartType
    <3> QED BY <3>4, <3>6, <3>7
  <2> QED BY <2>1, <2>2
<1>5. Orderly(s.queue \o Polls(b, s.next), s.next + Len(b), w)
  <2> HIDE DEF w
  <2> QED BY <1>2, <1>4, PollsOrderly
<1>6. queue' = s.queue \o Polls(b, s.next) /\ next' = s.next + Len(b) /\ writes' = w
  BY <1>2 DEF Commit
<1> QED BY <1>5, <1>6

LEMMA LinkLostOrderly ==
  ASSUME OrderInv, LinkLost
  PROVE  Orderly(queue, next, writes)'
<1> USE QueueAssumption
<1>1. PICK s \in (IF queue = <<>> THEN {Now} ELSE Unlinked(Now)) : \E t \in Reset(s) :
        Commit(t, QueuedIds(queue) \cup QueuedIds(s.queue), next..(t.next - 1))
  BY DEF LinkLost
<1>2. PICK t \in Reset(s) : Commit(t, QueuedIds(queue) \cup QueuedIds(s.queue), next..(t.next - 1))
  BY <1>1
<1>3. Now \in PartType /\ Now.queue = queue /\ Now.next = next /\ next \in 1..(MaxReq + 1)
  BY NowType DEF OrderInv, TypeOK
<1>4. s \in PartType /\ next <= s.next
  <2>1. CASE queue = <<>>
    BY <2>1, <1>1, <1>3
  <2>2. CASE queue # <<>>
    BY <2>2, <1>1, <1>3, UnlinkedType
  <2> QED BY <2>1, <2>2
<1>5. t \in PartType /\ s.next <= t.next /\ t.queue = <<>>
  BY <1>2, <1>4, ResetType
<1>6. queue' = <<>> /\ next' = t.next /\ writes' = writes \cup (next..(t.next - 1))
  BY <1>2, <1>5 DEF Commit
<1>7. writes' \subseteq 1..(next' - 1)
  <2>1. writes \subseteq 1..(next - 1)
    BY DEF OrderInv, Orderly
  <2>2. PICK m \in Nat \ {0}, n \in Nat : m = next /\ n = t.next - 1 /\ m - 1 <= n
    <3>1. next \in Nat \ {0} /\ t.next \in Nat /\ next <= t.next
      BY <1>3, <1>4, <1>5 DEF PartType
    <3>2. t.next - 1 \in Nat /\ next - 1 <= t.next - 1
      BY <3>1
    <3> QED BY <3>1, <3>2
  <2>3. 1..(m - 1) \subseteq 1..n /\ m..n \subseteq 1..n
    <3>1. m - 1 \in Int /\ n \in Int /\ n <= n
      BY <2>2
    <3> QED BY <2>2, <3>1, IntervalWithin
  <2> QED BY <2>1, <2>2, <2>3, <1>6
<1> QED BY <1>6, <1>7, EmptyOrderly

LEMMA WriteOrderly ==
  ASSUME OrderInv, NEW x \in {"none", "part", "all"}, WriteRequest(x)
  PROVE  Orderly(queue, next, writes)'
<1>1. queue \in Seq(Wrapper) /\ queue # <<>> /\ Orderly(queue, next, writes)
  BY DEF OrderInv, TypeOK, WriteRequest
<1>2. CASE x = "all" /\ Head(queue).bcast
  BY <1>1, <1>2, FinishOrderly DEF WriteRequest
<1>3. CASE ~(x = "all" /\ Head(queue).bcast)
  <2> DEFINE w == [queue[1] EXCEPT !.xmit = x]
  <2>1. queue[1] \in Wrapper
    BY <1>1
  <2>2. w \in Wrapper /\ w.id = queue[1].id /\ w.flags = queue[1].flags
    BY <2>1 DEF Wrapper
  <2>3. queue' = [queue EXCEPT ![1] = w] /\ UNCHANGED <<next, writes>>
    BY <1>3 DEF WriteRequest
  <2> HIDE DEF w
  <2>4. /\ queue' \in Seq(Wrapper) /\ Len(queue') = Len(queue) /\ queue'[1] = w
        /\ \A k \in 1..Len(queue) : k # 1 => queue'[k] = queue[k]
    BY <1>1, <2>2, <2>3, HeadReplaced
  <2>5. \A k \in 1..Len(queue) : queue'[k].id = queue[k].id /\ queue'[k].flags = queue[k].flags
    BY <2>2, <2>4
  <2>6. Orderly(queue', next, writes)
    BY <1>1, <2>4, <2>5, SameOrderly
  <2> QED BY <2>3, <2>6
<1> QED BY <1>2, <1>3

LEMMA OrderInvInit == Init => OrderInv
<1> SUFFICES ASSUME Init PROVE OrderInv
  OBVIOUS
<1>1. TypeOK
  BY QueueInvInit DEF QueueInv
<1>2. queue = <<>> /\ writes \subseteq 1..(next - 1)
  BY DEF Init
<1> QED BY <1>1, <1>2, EmptyOrderly DEF OrderInv

LEMMA OrderInvStep == OrderInv /\ [Next]_vars => OrderInv'
<1> SUFFICES ASSUME OrderInv, [Next]_vars PROVE OrderInv'
  OBVIOUS
<1>1. TypeOK'
  BY NextType DEF OrderInv
<1>2. Orderly(queue, next, writes)'
  <2>1. ASSUME NEW b \in BOOLEAN, Post(b) \/ RawRequest(b) PROVE Orderly(queue, next, writes)'
    BY <2>1, PostOrderly
  <2>2. CASE LoopPrepare
    BY <2>2, LoopPrepareOrderly
  <2>3. ASSUME NEW x \in {"none", "part", "all"}, WriteRequest(x)
        PROVE  Orderly(queue, next, writes)'
    BY <2>3, WriteOrderly
  <2>4. CASE WriteInGap \/ ReadAnswer
    BY <2>4, FinishOrderly DEF WriteInGap, ReadAnswer
  <2>5. CASE LinkLost
    BY <2>5, LinkLostOrderly
  <2>6. CASE UNCHANGED <<queue, next, writes>>
    BY <2>6 DEF OrderInv
  <2>7. ReadMore \/ Connect \/ TimeoutElapses \/ GapElapses \/ UNCHANGED vars
        => UNCHANGED <<queue, next, writes>>
    BY DEF ReadMore, Connect, TimeoutElapses, GapElapses, vars
  <2> QED BY <2>1, <2>2, <2>3, <2>4, <2>5, <2>6, <2>7 DEF Next
<1> QED BY <1>1, <1>2 DEF OrderInv

-----------------------------------------------------------------------------
\* No poll delays a write behind the head (modbusmq_post() walks past the
\* writes only), whatever caller and callbacks do.
THEOREM WritesAheadProved == Spec => []WritesAheadOfPolls
<1>1. OrderInv => WritesAheadOfPolls
  BY DEF OrderInv, Orderly, WritesAhead, WritesAheadOfPolls
<1> QED BY <1>1, OrderInvInit, OrderInvStep, PTL DEF Spec

\* Writes, and polls, are reported in the order they were accepted, on every
\* way out of the queue.
THEOREM FinishedInOrderProved ==
  ~(CallbackPosts /\ ResetPosts) => (Spec => []FinishedInOrder)
<1> SUFFICES ASSUME ~(CallbackPosts /\ ResetPosts) PROVE Spec => []FinishedInOrder
  OBVIOUS
<1>1. OrderInv /\ ReportedOnce => FinishedInOrder
  <2> SUFFICES ASSUME OrderInv, ReportedOnce,
                      NEW i \in 1..(next - 1), NEW j \in 1..(next - 1),
                      i < j, (i \in writes) = (j \in writes), answers[j] > 0
               PROVE  answers[i] > 0
    BY DEF FinishedInOrder
  <2>1. i \in Ids /\ j \in Ids /\ i < next /\ j < next
    BY QueueAssumption DEF OrderInv, TypeOK, Ids
  <2>2. j \notin QueuedIds(queue)
    BY <2>1 DEF ReportedOnce
  <2>3. i \notin QueuedIds(queue)
    BY <2>2 DEF OrderInv, Orderly, Behind
  <2> QED BY <2>1, <2>3 DEF ReportedOnce
<1>2. Spec => []ReportedOnce
  <2>1. Spec => [](ReportedOnce /\ OnlyHeadOnWire /\ RawSlotQueued)
    BY QueueCorrect
  <2> QED BY <2>1, PTL
<1> QED BY <1>1, <1>2, OrderInvInit, OrderInvStep, PTL DEF Spec
=============================================================================
