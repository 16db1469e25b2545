----------------------------- MODULE MCDumpReplay -----------------------------
(* Model-checking instance of DumpReplay.                                  *)
EXTENDS DumpReplay, TLC

Symmetric == Permutations(Encodings \ {Utf8})

===============================================================================
