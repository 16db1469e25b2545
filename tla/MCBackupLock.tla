---------------------------- MODULE MCBackupLock ----------------------------
(* Model-checking instance of BackupLock: process sets are model values.   *)
EXTENDS BackupLock, TLC

(* Batches are interchangeable, and so are the probing threads: no action  *)
(* and no safety property names one of them.                               *)
Symmetric == Permutations(Batches) \cup Permutations(Probes)

=============================================================================
