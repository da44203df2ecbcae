------------------------------ MODULE MCStratum ------------------------------
(***************************************************************************)
(* Instances of Stratum for TLC.                                           *)
(***************************************************************************)
EXTENDS Stratum

CONSTANTS c1, c2, ip1, t1, t2, w1, s1, s2

OneAddress == [c \in Conns |-> ip1]

=============================================================================
