------------------------------ MODULE MCRounds ------------------------------
(***************************************************************************)
(* Round lists for model checking Rounds.                                  *)
(***************************************************************************)
EXTENDS Rounds

In(s, t, o) == [slave |-> s, tier |-> t, once |-> o]

\* A slave with a once and a fast input, one with a fast and a deep input,
\* one with a deep input only.
Mixed == <<In(1, "fast", TRUE), In(1, "fast", FALSE), In(2, "fast", FALSE),
           In(2, "deep", FALSE), In(3, "deep", FALSE)>>

\* Three slaves with one deep input each, as in a bus of battery packs.
Three == <<In(1, "deep", FALSE), In(2, "deep", FALSE), In(3, "deep", FALSE)>>
=============================================================================
