----------------------------- MODULE MCDataMgr -----------------------------
(***************************************************************************)
(* Instances of DataMgr for TLC.                                           *)
(***************************************************************************)
EXTENDS DataMgr

CONSTANTS t1, t2

=============================================================================
