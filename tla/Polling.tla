------------------------------ MODULE Polling ------------------------------
(***************************************************************************)
(* What the three query modes of libmodbusmq share (lib/modbusmq.c): the   *)
(* backoff of a slave that stopped answering, kept in each of its timers,  *)
(* and the order in which a batch of polls is posted.  Time is counted in  *)
(* ticks, a deadline is kept as the ticks left to it.                      *)
(***************************************************************************)
EXTENDS Integers, Sequences, FiniteSets

CONSTANTS
  RetryMax,    \* modbusmq.slave_retry_max_ms in ticks, 0 = no backoff
  RetryFirst   \* MODBUSMQ_SLAVE_RETRY_FIRST_MS in ticks

MissMax == 3   \* MODBUSMQ_SLAVE_MISS_MAX

ASSUME PollingAssumption == RetryMax \in Nat /\ RetryFirst \in Nat \ {0}

\* misses, unresponsive, retry (retry_ms) and left (retry_at - now, 0 once past)
Health == [misses : 0..MissMax, unresponsive : BOOLEAN, retry : 0..RetryMax, left : 0..RetryMax]
Healthy == [misses |-> 0, unresponsive |-> FALSE, retry |-> 0, left |-> 0]

Lesser(a, b) == IF a < b THEN a ELSE b
LessOne(n) == IF n = 0 THEN 0 ELSE n - 1

\* modbusmq_slave_update() for a poll that timed out: every one counts as a
\* failed probe once the slave is unresponsive.
Missed(h) ==
  LET unresponsive(r) == [misses |-> MissMax, unresponsive |-> TRUE, retry |-> r, left |-> r]
  IN IF RetryMax = 0 THEN h
     ELSE IF h.unresponsive THEN unresponsive(Lesser(2 * h.retry, RetryMax))
     ELSE IF h.misses + 1 < MissMax THEN [h EXCEPT !.misses = @ + 1]
     ELSE unresponsive(Lesser(RetryFirst, RetryMax))

\* The backoff of a slave is one of these.
Bounded(h) ==
  IF h.unresponsive
  THEN /\ h.misses = MissMax
       /\ Lesser(RetryFirst, RetryMax) <= h.retry /\ h.retry <= RetryMax
       /\ h.left <= h.retry
  ELSE h.misses < MissMax /\ h.retry = 0 /\ h.left = 0

\* The places S of a list in list order, as the set of that one sequence.
InListOrder(S) ==
  {q \in [1..Cardinality(S) -> S] : \A i, j \in DOMAIN q : i < j => q[i] < q[j]}
=============================================================================
