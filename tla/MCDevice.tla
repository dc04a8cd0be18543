------------------------------ MODULE MCDevice ------------------------------
(***************************************************************************)
(* Clients for checking Device: one that asks and two that only connect.  *)
(***************************************************************************)
EXTENDS Device

MCClients == {"bridge", "query", "third"}
MCGarblers == {"query"}
MCLeavers == {"query"}
MCMaxAsks == [bridge |-> 0, query |-> 2, third |-> 0]
=============================================================================
