-------------------------- MODULE MCProfileSchedules --------------------------
(* Model-checking instance of ProfileSchedules.                            *)
EXTENDS ProfileSchedules, TLC

Symmetric == Permutations(Requests) \cup Permutations(Ids)

=============================================================================
