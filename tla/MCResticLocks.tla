---------------------------- MODULE MCResticLocks ----------------------------
(* Model-checking instance of ResticLocks: actors are model values.        *)
EXTENDS ResticLocks, TLC

(* No action and no property names a particular request. *)
Symmetric == Permutations(Requests)

=============================================================================
