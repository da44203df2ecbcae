------------------------------ MODULE MCJSONRPC ------------------------------
(***************************************************************************)
(* A thread that runs BlockCheck, and one that submits blocks and runs the *)
(* notify timer.                                                           *)
(***************************************************************************)
EXTENDS JSONRPC, TLC

MCAsks == (1 :> {"getinfo", "getblocktemplate"}) @@ (2 :> {"getblocktemplate", "submitblock"})

=============================================================================
