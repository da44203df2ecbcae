------------------------ MODULE MCDatabaseWorkerPool ------------------------
(***************************************************************************)
(* Instances of DatabaseWorkerPool for TLC.                                *)
(***************************************************************************)
EXTENDS DatabaseWorkerPool

=============================================================================
