--------------------------- MODULE MCVerificationRun ---------------------------
(* Model-checking instance of VerificationRun.                             *)
EXTENDS VerificationRun, TLC

Symmetric == Permutations(Roles)

=============================================================================
