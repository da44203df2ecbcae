--------------------------- MODULE MCShareLimiter ---------------------------
(***************************************************************************)
(* Instances of ShareLimiter for TLC.                                      *)
(***************************************************************************)
EXTENDS ShareLimiter

\* Zero, too small and too large.
Leftovers == {0, 2, Wide - 2}

=============================================================================
