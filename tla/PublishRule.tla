---------------------------- MODULE PublishRule ----------------------------
(***************************************************************************)
(* When a reading is worth an MQTT message (lib/modbusmq.c,                *)
(* modbusmq_channel_publish_decide).  Readings and changes are integers in *)
(* one unit; NotAvailable is the reading that prints as null.              *)
(***************************************************************************)
EXTENDS Integers

CONSTANT NotAvailable

ASSUME NotAvailableAssumption == NotAvailable \notin Int

\* A channel's five keys, and what it needs to know to apply them: how many
\* units the last printed digit is worth, and how many 1.0 is.
Rules == [onChange : BOOLEAN, minChange : Nat, minPercent : Nat,
          minInterval : Nat, maxInterval : Nat, digit : Nat \ {0}, one : Nat \ {0}]

\* channel->published, last_value and last_publish_ms.
Unpublished == [published |-> FALSE, value |-> 0, at |-> 0]
Record(v, now) == [published |-> TRUE, value |-> v, at |-> now]

Abs(n) == IF n < 0 THEN -n ELSE n
Larger(m, n) == IF m < n THEN n ELSE m

\* n units in multiples of the digit, as printf() rounds: halves to even.
Rounded(n, digit) ==
  LET q == n \div digit
      r == 2 * (n % digit)
  IN IF r > digit \/ (r = digit /\ q % 2 = 1) THEN q + 1 ELSE q

\* The printed value.  Zero prints without a sign.
Printed(rule, v) ==
  IF v = NotAvailable THEN v
  ELSE IF v < 0 THEN -Rounded(-v, rule.digit) ELSE Rounded(v, rule.digit)

Gated(rule) == rule.onChange \/ rule.minChange > 0 \/ rule.minPercent > 0

\* The change v must make up, in hundredths; a comparison with null is false.
BelowThreshold(rule, old, v) ==
  /\ old # NotAvailable /\ v # NotAvailable
  /\ 100 * Abs(v - old) <
       Larger(100 * rule.minChange, rule.minPercent * Larger(rule.one, Larger(Abs(old), Abs(v))))

Heartbeat(rule, chan, now) ==
  rule.maxInterval > 0 /\ now - chan.at >= rule.maxInterval

TooSoon(rule, chan, now) ==
  rule.minInterval > 0 /\ now - chan.at < rule.minInterval

\* What the deadband and on_change hold back.
Negligible(rule, chan, v) ==
  \/ Gated(rule) /\ Printed(rule, v) = Printed(rule, chan.value)
  \/ BelowThreshold(rule, chan.value, v)

\* Mutant: min_interval_ms comes before the heartbeat.
DecidePaceFirst(rule, chan, v, now) ==
  \/ ~chan.published
  \/ /\ ~TooSoon(rule, chan, now)
     /\ Heartbeat(rule, chan, now) \/ ~Negligible(rule, chan, v)

\* Mutant: min_interval_ms is not asked about.
DecideUnpaced(rule, chan, v, now) ==
  \/ ~chan.published
  \/ Heartbeat(rule, chan, now)
  \/ ~Negligible(rule, chan, v)

Decide(rule, chan, v, now) ==
  \/ ~chan.published
  \/ Heartbeat(rule, chan, now)
  \/ ~TooSoon(rule, chan, now) /\ ~Negligible(rule, chan, v)
=============================================================================
