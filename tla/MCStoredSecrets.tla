--------------------------- MODULE MCStoredSecrets ---------------------------
(* Model-checking instance of StoredSecrets.                               *)
EXTENDS StoredSecrets, TLC

(* Of a field that is not a password only whether there is a secret.       *)
OneOfEach == [f \in Fields |-> IF f = "password" THEN Texts ELSE Values \cup {Absent}]

Symmetric == Permutations(Requests) \cup Permutations(Values) \cup Permutations(Keys)

=============================================================================
