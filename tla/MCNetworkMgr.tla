---------------------------- MODULE MCNetworkMgr ----------------------------
(***************************************************************************)
(* Instances of NetworkMgr for TLC.                                        *)
(***************************************************************************)
EXTENDS NetworkMgr

CONSTANTS check, notify, s1

=============================================================================
