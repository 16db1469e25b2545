----------------------------- MODULE MCRotatingLog -----------------------------
(* Model-checking instance of RotatingLog.                                 *)
EXTENDS RotatingLog, TLC

Symmetric == Permutations(Writers)

=============================================================================
