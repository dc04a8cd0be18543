------------------------------ MODULE MCBridge ------------------------------
(***************************************************************************)
(* Write entries for model checking Bridge.                                *)
(***************************************************************************)
EXTENDS Bridge, TLC

\* Two entries share a topic; the second one wants no ack.
Shared == 1 :> "set" @@ 2 :> "set"
FirstAcks == 1 :> TRUE @@ 2 :> FALSE
=============================================================================
