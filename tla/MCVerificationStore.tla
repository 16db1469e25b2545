------------------------ MODULE MCVerificationStore ------------------------
(* Model-checking instance of VerificationStore.                           *)
EXTENDS VerificationStore, TLC

Symmetric == Permutations(Jobs) \cup Permutations(Snapshots)

=============================================================================
