----------------------------- MODULE MCProfileRuns -----------------------------
(* Model-checking instance of ProfileRuns.                                 *)
EXTENDS ProfileRuns, TLC

Symmetric == Permutations(Ids) \cup Permutations(Names) \cup Permutations(Hosts)

=============================================================================
