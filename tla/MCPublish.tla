----------------------------- MODULE MCPublish -----------------------------
(***************************************************************************)
(* Channels for model checking Publish.                                    *)
(***************************************************************************)
EXTENDS Publish

Plain == [onChange |-> FALSE, minChange |-> 0, minPercent |-> 0,
          minInterval |-> 0, maxInterval |-> 0, digit |-> 1, one |-> 1]

\* Every poll; changes of the last digit; a deadband; a relative one with a
\* floor; a pace and a heartbeat; a heartbeat faster than the pace.
Channels ==
  {Plain,
   [Plain EXCEPT !.onChange = TRUE, !.digit = 3],
   [Plain EXCEPT !.minChange = 3],
   [Plain EXCEPT !.minPercent = 50, !.one = 4],
   [Plain EXCEPT !.minChange = 2, !.digit = 2, !.minInterval = 2, !.maxInterval = 4],
   [Plain EXCEPT !.onChange = TRUE, !.minInterval = 3, !.maxInterval = 2]}

Values == (-3)..6 \cup {NotAvailable}
=============================================================================
