------------------------------- MODULE MCWire -------------------------------
(***************************************************************************)
(* Requests for model checking Wire.                                       *)
(***************************************************************************)
EXTENDS Wire

Shows(u, c) == [unit |-> u, count |-> c]

\* Two reads of one block, which nothing tells apart on RTU, and a block of
\* the same slave that differs in length.
Polls == 1 :> Shows(1, 1) @@ 2 :> Shows(1, 1) @@ 3 :> Shows(1, 2)
=============================================================================
