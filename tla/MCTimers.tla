------------------------------ MODULE MCTimers ------------------------------
(***************************************************************************)
(* Configurations for model checking Timers.                               *)
(***************************************************************************)
EXTENDS Timers

In(s, i) == [slave |-> s, interval |-> i]

\* Two intervals and a once input on a slave that may fail, one input that is
\* always due on another slave.
Parallel == [mode |-> "parallel", inputs |-> <<In(1, 2), In(1, Once), In(2, 1)>>]

\* Three series inputs on the two slaves.
Series == [mode |-> "series", inputs |-> <<In(1, 1), In(2, 2), In(1, 2)>>]
Both == {Parallel, Series}
=============================================================================
