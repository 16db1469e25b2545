------------------------- MODULE BackupLock_proofs -------------------------
(***************************************************************************)
(* Proofs about BackupLock, for any number of batches, verifications,      *)
(* probes, profiles and faults.  One inductive invariant, Inv, carries all  *)
(* of them: the preservation lemmas below treat its parts one at a time.   *)
(***************************************************************************)
EXTENDS BackupLock, TLAPS

(* The parts of a step of Next, for the case distinctions below. *)
LEMMA StepCases ==
    ASSUME [Next]_vars
    PROVE  \/ \E b \in Batches :
                 \/ Launch(b) \/ TryLock(b) \/ NoLock(b) \/ AcquireQueued(b)
                 \/ TimeOut(b) \/ InstallTrap(b) \/ NoTempDir(b) \/ PublishState(b)
                 \/ Finish(b) \/ Cleanup(b) \/ CleanupFails(b) \/ Exit(b)
                 \/ KillScript(b)
           \/ OrphanExits
           \/ StopContainer
           \/ \E v \in Verifiers :
                 \/ StartRestore(v) \/ PollLocks(v) \/ PollTimesOut(v)
                 \/ PublishVerify(v) \/ PublishVerifyFails(v)
                 \/ UnlinkState(v) \/ UnlinkFails(v) \/ CloseLock(v)
                 \/ KillWorker(v) \/ StrayEnds(v)
           \/ \E p \in Probes : Probe(p) \/ ProbeUnlocks(p) \/ ProbeReadsState(p)
           \/ UNCHANGED vars
  BY DEF Next, ScriptStep, ScriptFault, VerifierStep, VerifierFault

-----------------------------------------------------------------------------
(* Type correctness *)

(* What Advance does to the batch's own variables stays in their types. *)
LEMMA AdvanceType ==
    ASSUME TypeOK, NEW b \in Batches, NEW r \in {"ok", "failed"}, Advance(b, r)
    PROVE  /\ pc' \in [Batches -> {"idle", "start", "wait", "done"} \cup ScriptHolds]
           /\ cur' \in [Batches -> Profiles]
           /\ rc' \in [Batches -> {"ok", "failed"}]
           /\ result' \in [Batches -> [Profiles -> Outcomes]]
           /\ status' \in [Batches -> {0, 1}]
<1>1. cur[b] \in Profiles /\ result[b] \in [Profiles -> Outcomes]
  BY DEF TypeOK
<1>2. [result[b] EXCEPT ![cur[b]] = r] \in [Profiles -> Outcomes]
  BY <1>1 DEF Outcomes
<1>3. result' \in [Batches -> [Profiles -> Outcomes]]
  BY <1>2 DEF Advance, TypeOK
<1>4. cur' \in [Batches -> Profiles]
  BY <1>1, ProfilesAssumption DEF Advance, TypeOK, Profiles
<1>5. pc' \in [Batches -> {"idle", "start", "wait", "done"} \cup ScriptHolds]
  BY DEF Advance, TypeOK
<1>6. rc' \in [Batches -> {"ok", "failed"}] /\ status' \in [Batches -> {0, 1}]
  BY DEF Advance, TypeOK
<1>7. QED
  BY <1>3, <1>4, <1>5, <1>6

(* Every step keeps every variable in its type. *)
LEMMA TypeStep ==
    ASSUME TypeOK, [Next]_vars
    PROVE  TypeOK'
<1>0. ASSUME NEW b \in Batches, Launch(b)
      PROVE  TypeOK'
  <2>1. 1 \in Profiles /\ [i \in Profiles |-> "none"] \in [Profiles -> Outcomes]
    BY ProfilesAssumption DEF Profiles, Outcomes
  <2>2. QED
    BY <1>0, <2>1 DEF TypeOK, Launch
<1>1. ASSUME NEW b \in Batches,
             \/ TryLock(b) \/ AcquireQueued(b) \/ InstallTrap(b)
             \/ PublishState(b) \/ Cleanup(b)
      PROVE  TypeOK'
  BY <1>1 DEF TypeOK, TryLock, AcquireQueued, InstallTrap, PublishState, Cleanup,
              Workers, ScriptHolds
<1>2. ASSUME NEW b \in Batches, Finish(b)
      PROVE  TypeOK'
  BY <1>2 DEF TypeOK, Finish, FailedWrite, Workers, ScriptHolds
<1>3. ASSUME NEW b \in Batches, NoLock(b) \/ TimeOut(b) \/ NoTempDir(b)
      PROVE  TypeOK'
  BY <1>3, FaultsAssumption, AdvanceType DEF TypeOK, NoLock, TimeOut, NoTempDir
<1>4. ASSUME NEW b \in Batches, Exit(b)
      PROVE  TypeOK'
  <2>1. rc[b] \in {"ok", "failed"}
    BY DEF TypeOK
  <2>2. QED
    BY <1>4, <2>1, AdvanceType DEF TypeOK, Exit
<1>5. ASSUME NEW b \in Batches, KillScript(b)
      PROVE  TypeOK'
  BY <1>5, FaultsAssumption, AdvanceType DEF TypeOK, KillScript
<1>5a. ASSUME NEW b \in Batches, CleanupFails(b)
       PROVE  TypeOK'
  BY <1>5a, FaultsAssumption DEF TypeOK, CleanupFails, ScriptHolds
<1>6. CASE OrphanExits
  BY <1>6 DEF TypeOK, OrphanExits, scriptVars
<1>7. CASE StopContainer
  BY <1>7, ProfilesAssumption, FaultsAssumption DEF TypeOK, StopContainer, Profiles, Outcomes
<1>8. ASSUME NEW v \in Verifiers,
             \/ StartRestore(v) \/ PollLocks(v) \/ PollTimesOut(v)
             \/ PublishVerify(v) \/ PublishVerifyFails(v)
             \/ UnlinkState(v) \/ UnlinkFails(v) \/ CloseLock(v)
             \/ KillWorker(v) \/ StrayEnds(v)
      PROVE  TypeOK'
  BY <1>8, FaultsAssumption DEF TypeOK, StartRestore, PollLocks, PollTimesOut, PublishVerify,
              PublishVerifyFails, UnlinkState, UnlinkFails, CloseLock, KillWorker,
              StrayEnds, FailedWrite, Workers, VerifierHolds, scriptVars
<1>9. ASSUME NEW p \in Probes, Probe(p) \/ ProbeUnlocks(p) \/ ProbeReadsState(p)
      PROVE  TypeOK'
  BY <1>9 DEF TypeOK, Probe, ProbeUnlocks, ProbeReadsState, scriptVars
<1>10. CASE UNCHANGED vars
  BY <1>10 DEF TypeOK, vars, scriptVars
<1>11. QED
  BY StepCases, <1>0, <1>1, <1>2, <1>3, <1>4, <1>5, <1>5a, <1>6, <1>7, <1>8, <1>9, <1>10

(* TypeOK holds in every reachable state. *)
THEOREM TypeCorrect == Spec => []TypeOK
<1>1. Init => TypeOK
  BY ProfilesAssumption, FaultsAssumption DEF Init, TypeOK, Profiles, Outcomes
<1>2. TypeOK /\ [Next]_vars => TypeOK'
  BY TypeStep
<1>3. QED
  BY <1>1, <1>2, PTL DEF Spec

-----------------------------------------------------------------------------
(* The lock *)

(* A step changes the lock together with the stage of the process that    *)
(* takes or releases it, and only the holder releases it.                  *)
LEMMA LockStep ==
    ASSUME TypeOK, LockInv, [Next]_vars
    PROVE  LockInv'
<1> USE ProcessesAssumption DEF LockInv, ScriptHolds, VerifierHolds
<1>1. ASSUME NEW b \in Batches,
             \/ Launch(b) \/ TryLock(b) \/ AcquireQueued(b) \/ InstallTrap(b)
             \/ PublishState(b) \/ Finish(b) \/ Cleanup(b) \/ CleanupFails(b)
      PROVE  LockInv'
  BY <1>1 DEF TypeOK, Launch, TryLock, AcquireQueued, InstallTrap, PublishState, Finish,
              Cleanup, CleanupFails
<1>2. ASSUME NEW b \in Batches,
             NoLock(b) \/ TimeOut(b) \/ NoTempDir(b) \/ Exit(b) \/ KillScript(b)
      PROVE  LockInv'
  BY <1>2 DEF TypeOK, NoLock, TimeOut, NoTempDir, Exit, KillScript, Advance
<1>3. CASE OrphanExits
  BY <1>3 DEF OrphanExits, scriptVars
<1>4. CASE StopContainer
  BY <1>4 DEF StopContainer
<1>5. ASSUME NEW v \in Verifiers,
             \/ StartRestore(v) \/ PollLocks(v) \/ PollTimesOut(v)
             \/ PublishVerify(v) \/ PublishVerifyFails(v)
             \/ UnlinkState(v) \/ UnlinkFails(v) \/ CloseLock(v)
             \/ KillWorker(v) \/ StrayEnds(v)
      PROVE  LockInv'
  BY <1>5 DEF TypeOK, StartRestore, PollLocks, PollTimesOut, PublishVerify,
              PublishVerifyFails, UnlinkState, UnlinkFails, CloseLock, KillWorker,
              StrayEnds, scriptVars
<1>6. ASSUME NEW p \in Probes, Probe(p) \/ ProbeUnlocks(p) \/ ProbeReadsState(p)
      PROVE  LockInv'
  BY <1>6 DEF TypeOK, Probe, ProbeUnlocks, ProbeReadsState, scriptVars
<1>7. CASE UNCHANGED vars
  BY <1>7 DEF vars, scriptVars
<1>8. QED
  BY StepCases, <1>1, <1>2, <1>3, <1>4, <1>5, <1>6, <1>7

-----------------------------------------------------------------------------
(* The state file *)

(* A state file is written and removed under the lock, and removed before  *)
(* the lock is let go.                                                     *)
LEMMA StateStep ==
    ASSUME TypeOK, LockInv, StateInv, [Next]_vars
    PROVE  StateInv'
<1> USE ProcessesAssumption DEF StateInv, LockInv, CouldNotRemove, ScriptHolds, VerifierHolds
<1>1. ASSUME NEW b \in Batches,
             \/ Launch(b) \/ TryLock(b) \/ AcquireQueued(b) \/ InstallTrap(b)
             \/ PublishState(b) \/ Finish(b) \/ Cleanup(b)
      PROVE  StateInv'
  BY <1>1 DEF TypeOK, Launch, TryLock, AcquireQueued, InstallTrap, PublishState, Finish,
              Cleanup, FailedWrite
<1>2. ASSUME NEW b \in Batches, NoLock(b) \/ TimeOut(b) \/ Exit(b)
      PROVE  StateInv'
  BY <1>2 DEF TypeOK, NoLock, TimeOut, Exit, Advance
<1>2a. ASSUME NEW b \in Batches, NoTempDir(b) \/ CleanupFails(b) \/ KillScript(b)
       PROVE  StateInv'
  BY <1>2a, FaultsAssumption DEF TypeOK, NoTempDir, CleanupFails, KillScript, Advance
<1>3. CASE OrphanExits
  BY <1>3 DEF TypeOK, Workers, OrphanExits, scriptVars
<1>4. CASE StopContainer
  BY <1>4, FaultsAssumption DEF TypeOK, StopContainer
<1>5. ASSUME NEW v \in Verifiers,
             \/ StartRestore(v) \/ PollLocks(v) \/ PollTimesOut(v)
             \/ PublishVerify(v) \/ PublishVerifyFails(v)
             \/ UnlinkState(v) \/ CloseLock(v) \/ StrayEnds(v)
      PROVE  StateInv'
  BY <1>5 DEF TypeOK, StartRestore, PollLocks, PollTimesOut, PublishVerify,
              PublishVerifyFails, UnlinkState, CloseLock, StrayEnds, FailedWrite,
              scriptVars
<1>6. ASSUME NEW v \in Verifiers, UnlinkFails(v) \/ KillWorker(v)
      PROVE  StateInv'
  BY <1>6, FaultsAssumption DEF TypeOK, UnlinkFails, KillWorker, scriptVars
<1>7. ASSUME NEW p \in Probes, Probe(p) \/ ProbeUnlocks(p) \/ ProbeReadsState(p)
      PROVE  StateInv'
  BY <1>7 DEF TypeOK, Workers, Probe, ProbeUnlocks, ProbeReadsState, scriptVars
<1>8. CASE UNCHANGED vars
  BY <1>8 DEF vars, scriptVars
<1>9. QED
  BY StepCases, <1>1, <1>2, <1>2a, <1>3, <1>4, <1>5, <1>6, <1>7, <1>8

-----------------------------------------------------------------------------
(* The batches *)

(* Recording the outcome of the current profile and going on keeps the     *)
(* batch's record in line with its position.                               *)
LEMMA AdvanceBatch ==
    ASSUME TypeOK, BatchInv, NEW b \in Batches, NEW r \in {"ok", "failed"},
           pc[b] # "done", Advance(b, r)
    PROVE  BatchInv'
<1> SUFFICES ASSUME NEW c \in Batches
             PROVE  /\ \A i \in Profiles :
                          result'[c][i] = "none" <=> pc'[c] # "done" /\ i >= cur'[c]
                    /\ status'[c] = 0 <=> \A i \in Profiles : result'[c][i] # "failed"
                    /\ pc'[c] = "done" => cur'[c] = NProfiles
  BY DEF BatchInv
<1>1. CASE c # b
  <2>1. result'[c] = result[c] /\ cur'[c] = cur[c] /\ pc'[c] = pc[c] /\ status'[c] = status[c]
    BY <1>1 DEF Advance, TypeOK
  <2>2. QED
    BY <2>1 DEF BatchInv
<1>2. CASE c = b
  <2>1. cur[b] \in 1..NProfiles /\ result[b] \in [Profiles -> Outcomes]
    BY DEF TypeOK, Profiles
  <2>2. result'[b] = [result[b] EXCEPT ![cur[b]] = r]
    BY DEF Advance, TypeOK
  <2>3. \A i \in Profiles : result'[b][i] = IF i = cur[b] THEN r ELSE result[b][i]
    BY <2>1, <2>2
  <2>4. status'[b] = IF r = "ok" THEN status[b] ELSE 1
    BY DEF Advance, TypeOK
  <2>5. result[b][cur[b]] = "none" /\ cur[b] \in Profiles
    BY <2>1 DEF BatchInv, Profiles
  <2>6. status'[b] = 0 <=> \A i \in Profiles : result'[b][i] # "failed"
    BY <2>3, <2>4, <2>5 DEF BatchInv
  <2>7. \A i \in Profiles : result[b][i] = "none" <=> i >= cur[b]
    BY DEF BatchInv
  <2>8. CASE cur[b] < NProfiles
    <3>1. cur'[b] = cur[b] + 1 /\ pc'[b] = "start"
      BY <2>8 DEF Advance, TypeOK
    <3>2. QED
      BY <1>2, <2>1, <2>3, <2>6, <2>7, <3>1 DEF Profiles
  <2>9. CASE ~(cur[b] < NProfiles)
    <3>1. cur'[b] = cur[b] /\ pc'[b] = "done"
      BY <2>9 DEF Advance, TypeOK
    <3>2. cur[b] = NProfiles
      BY <2>1, <2>9, ProfilesAssumption
    <3>3. QED
      BY <1>2, <2>1, <2>3, <2>6, <2>7, <3>1, <3>2 DEF Profiles
  <2>10. QED
    BY <2>8, <2>9
<1>3. QED
  BY <1>1, <1>2

(* Every step keeps the record of every batch. *)
LEMMA BatchStep ==
    ASSUME TypeOK, BatchInv, [Next]_vars
    PROVE  BatchInv'
<1>1. ASSUME NEW b \in Batches, Launch(b)
      PROVE  BatchInv'
  BY <1>1, ProfilesAssumption DEF Launch, BatchInv, TypeOK, Profiles
<1>2. ASSUME NEW b \in Batches,
             \/ TryLock(b) \/ AcquireQueued(b) \/ InstallTrap(b) \/ PublishState(b)
             \/ Finish(b) \/ Cleanup(b) \/ CleanupFails(b)
      PROVE  BatchInv'
  BY <1>2 DEF TryLock, AcquireQueued, InstallTrap, PublishState, Finish, Cleanup,
              CleanupFails, BatchInv, TypeOK
<1>3. ASSUME NEW b \in Batches,
             NoLock(b) \/ TimeOut(b) \/ NoTempDir(b) \/ Exit(b) \/ KillScript(b)
      PROVE  BatchInv'
  <2>1. rc[b] \in {"ok", "failed"}
    BY DEF TypeOK
  <2>2. QED
    BY <1>3, <2>1, AdvanceBatch DEF NoLock, TimeOut, NoTempDir, Exit, KillScript, ScriptHolds
<1>4. CASE StopContainer
  BY <1>4, ProfilesAssumption DEF StopContainer, BatchInv, Profiles
<1>5. CASE UNCHANGED scriptVars
  BY <1>5 DEF scriptVars, BatchInv
<1>6. QED
  BY StepCases, <1>1, <1>2, <1>3, <1>4, <1>5
     DEF OrphanExits, StartRestore, PollLocks, PollTimesOut, PublishVerify,
         PublishVerifyFails, UnlinkState, UnlinkFails, CloseLock, KillWorker,
         StrayEnds, Probe, ProbeUnlocks, ProbeReadsState, vars

-----------------------------------------------------------------------------
(* The theorems *)

(* The initial state satisfies the invariant. *)
LEMMA InitInv == Init => Inv
  BY ProfilesAssumption, FaultsAssumption, ProcessesAssumption
     DEF Init, Inv, TypeOK, LockInv, StateInv, CouldNotRemove, BatchInv, ScriptHolds, VerifierHolds,
         Workers, Profiles, Outcomes

(* The inductive invariant holds in every reachable state. *)
THEOREM Invariance == Spec => []Inv
<1>1. Inv /\ [Next]_vars => Inv'
  BY TypeStep, LockStep, StateStep, BatchStep DEF Inv
<1>2. QED
  BY InitInv, <1>1, PTL DEF Spec

(* Backups, prunes and verification restores under the lock exclude one    *)
(* another, and without a fault nobody uses a repository beside them.      *)
THEOREM Exclusion == Spec => []OneRepositoryUser
<1>1. Inv => OneRepositoryUser
  BY ProcessesAssumption
     DEF Inv, LockInv, StateInv, OneRepositoryUser, RepositoryUsers, ScriptHolds, VerifierHolds
<1>2. QED
  BY Invariance, <1>1, PTL

(* Without faults, backup.state names the process that holds the lock.     *)
THEOREM StateOwnership == Spec => []StateNamesHolder
<1>1. Inv => StateNamesHolder
  BY DEF Inv, StateInv, StateNamesHolder
<1>2. QED
  BY Invariance, <1>1, PTL

(* A batch that ended reports the failures of all its profiles.            *)
THEOREM BatchReport == Spec => []BatchReportsFailures
<1>1. Inv => BatchReportsFailures
  <2> SUFFICES ASSUME Inv, NEW b \in Batches, pc[b] = "done"
               PROVE  /\ \A i \in Profiles : result[b][i] # "none"
                      /\ status[b] = 0 <=> \A i \in Profiles : result[b][i] = "ok"
    BY DEF BatchReportsFailures
  <2>1. \A i \in Profiles : result[b][i] \in Outcomes /\ result[b][i] # "none"
    BY DEF Inv, TypeOK, BatchInv
  <2>2. QED
    BY <2>1 DEF Inv, BatchInv, Outcomes
<1>2. QED
  BY Invariance, <1>1, PTL

(* Only the holder of the lock changes backup.state.                       *)
THEOREM StateWriters == Spec => StateOnlyByHolder
<1>1. Inv /\ [Next]_vars => [state' # state => /\ lock \in Workers
                                               /\ state' \in {None, lock}]_vars
  <2> SUFFICES ASSUME Inv, [Next]_vars, state' # state
               PROVE  lock \in Workers /\ state' \in {None, lock}
    OBVIOUS
  <2> USE DEF Inv, LockInv, ScriptHolds, VerifierHolds, Workers
  <2>1. ASSUME NEW b \in Batches, PublishState(b) \/ Finish(b) \/ Cleanup(b)
        PROVE  lock \in Workers /\ state' \in {None, lock}
    BY <2>1 DEF PublishState, Finish, Cleanup, FailedWrite
  <2>2. ASSUME NEW v \in Verifiers,
               PublishVerify(v) \/ PublishVerifyFails(v) \/ UnlinkState(v)
        PROVE  lock \in Workers /\ state' \in {None, lock}
    BY <2>2 DEF PublishVerify, PublishVerifyFails, UnlinkState, FailedWrite
  <2>3. QED
    BY StepCases, <2>1, <2>2
       DEF Launch, TryLock, NoLock, AcquireQueued, TimeOut, InstallTrap, NoTempDir,
           CleanupFails, Exit, KillScript, OrphanExits, StopContainer, StartRestore,
           PollLocks, PollTimesOut, UnlinkFails, CloseLock, KillWorker, StrayEnds, Probe, ProbeUnlocks, ProbeReadsState, vars
<1>2. QED
  BY Invariance, <1>1, PTL DEF Spec, StateOnlyByHolder

(* A job that releases the lock leaves no state file, unless a fault keeps *)
(* it from removing the file.                                              *)
THEOREM CleanRelease == Spec => ReleasedClean
<1>1. Inv /\ [Next]_vars =>
          [(lock \in Workers \ CouldNotRemove /\ lock' = None /\ faults' = faults)
               => state = None]_vars
  <2> SUFFICES ASSUME Inv, [Next]_vars, lock \in Workers \ CouldNotRemove,
                      lock' = None, faults' = faults
               PROVE  state = None
    OBVIOUS
  <2> USE ProcessesAssumption DEF Inv, TypeOK, LockInv, StateInv, Workers
  <2>1. lock # lock' /\ lock # Orphan
    OBVIOUS
  <2>2. ASSUME NEW b \in Batches, Exit(b)
        PROVE  state = None
    BY <2>2 DEF Exit, CouldNotRemove, ScriptHolds
  <2>3. ASSUME NEW v \in Verifiers, CloseLock(v)
        PROVE  state = None
    BY <2>3 DEF CloseLock, CouldNotRemove, VerifierHolds
  <2>4. faults + 1 # faults
    BY FaultsAssumption
  <2>5. ASSUME NEW p \in Probes, ProbeUnlocks(p)
        PROVE  FALSE
    BY <2>5 DEF ProbeUnlocks
  <2>6. QED
    BY StepCases, <2>1, <2>2, <2>3, <2>4, <2>5
       DEF Launch, TryLock, NoLock, AcquireQueued, TimeOut, InstallTrap, NoTempDir,
           PublishState, Finish, Cleanup, CleanupFails, KillScript, OrphanExits,
           StopContainer, StartRestore, PollLocks, PollTimesOut, PublishVerify,
           PublishVerifyFails, UnlinkState, UnlinkFails, KillWorker, StrayEnds,
           Probe, ProbeReadsState, vars
<1>2. QED
  BY Invariance, <1>1, PTL DEF Spec, ReleasedClean

-----------------------------------------------------------------------------
(* The refinement *)

(* Who holds the lock is the one user RepositoryAccess sees, until it is a *)
(* job that could not remove its file and only has to end.                 *)
LEMMA UsersAreHolder ==
    ASSUME TypeOK, LockInv
    PROVE  /\ \A b \in Batches :
                 lock = b => LockUsers = IF pc[b] = "unremoved" THEN {} ELSE {b}
           /\ \A v \in Verifiers :
                 lock = v => LockUsers = IF vpc[v] = "unremoved" THEN {} ELSE {v}
           /\ lock = Orphan => LockUsers = {Orphan}
           /\ lock \in Probes \cup {None} => LockUsers = {}
  BY ProcessesAssumption DEF TypeOK, LockInv, LockUsers, ScriptHolds, VerifierHolds

(* BackupLock implements RepositoryAccess: a step that takes the lock is   *)
(* Enter, one that releases it Leave, one that writes or removes the state *)
(* file Publish, a fault Mishap; every other step changes neither.         *)
THEOREM Implementation == Spec => ImplementsAccess
<1>1. Init => Access!Init
  BY InitInv, UsersAreHolder, ProcessesAssumption
     DEF Init, Inv, Access!Init, Workers
<1>2. Inv /\ [Next]_vars => [Access!Next]_Access!vars
  <2> SUFFICES ASSUME Inv, [Next]_vars
               PROVE  [Access!Next]_Access!vars
    OBVIOUS
  <2>1. Inv'
    BY TypeStep, LockStep, StateStep, BatchStep DEF Inv
  <2>2. /\ \A b \in Batches :
              lock = b => LockUsers = IF pc[b] = "unremoved" THEN {} ELSE {b}
        /\ \A v \in Verifiers :
              lock = v => LockUsers = IF vpc[v] = "unremoved" THEN {} ELSE {v}
        /\ lock = Orphan => LockUsers = {Orphan}
        /\ lock \in Probes \cup {None} => LockUsers = {}
    BY UsersAreHolder DEF Inv
  <2>3. /\ \A b \in Batches :
              lock' = b => LockUsers' = IF pc'[b] = "unremoved" THEN {} ELSE {b}
        /\ \A v \in Verifiers :
              lock' = v => LockUsers' = IF vpc'[v] = "unremoved" THEN {} ELSE {v}
        /\ lock' = Orphan => LockUsers' = {Orphan}
        /\ lock' \in Probes \cup {None} => LockUsers' = {}
    BY <2>1, ProcessesAssumption
       DEF Inv, TypeOK, LockInv, LockUsers, ScriptHolds, VerifierHolds
  <2>4. /\ Orphan \notin Workers /\ None \notin Workers /\ None # Orphan
        /\ \A p \in Probes : p \notin Workers /\ p # Orphan
        /\ Batches \subseteq Workers /\ Verifiers \subseteq Workers
    BY ProcessesAssumption DEF Workers
  <2> USE DEF Inv, TypeOK, LockInv, ScriptHolds, VerifierHolds
  <2>5. ASSUME lock' = lock,
               \A b \in Batches :
                  lock = b => \/ pc[b] = "unremoved" /\ pc'[b] = "unremoved"
                              \/ pc[b] # "unremoved" /\ pc'[b] # "unremoved",
               \A v \in Verifiers :
                  lock = v => \/ vpc[v] = "unremoved" /\ vpc'[v] = "unremoved"
                              \/ vpc[v] # "unremoved" /\ vpc'[v] # "unremoved"
        PROVE  LockUsers' = LockUsers
    <3>1. ASSUME NEW b \in Batches, lock = b
          PROVE  LockUsers' = LockUsers
      <4>1. CASE pc[b] = "unremoved"
        BY <2>2, <2>3, <2>5, <3>1, <4>1
      <4>2. CASE pc[b] # "unremoved"
        <5>1. LockUsers = {b}
          BY <2>2, <3>1, <4>2
        <5>2. lock' = b /\ pc'[b] # "unremoved"
          BY <2>5, <3>1, <4>2
        <5>3. QED
          BY <2>3, <5>1, <5>2
      <4>3. QED
        BY <4>1, <4>2
    <3>2. ASSUME NEW v \in Verifiers, lock = v
          PROVE  LockUsers' = LockUsers
      <4>1. CASE vpc[v] = "unremoved"
        BY <2>2, <2>3, <2>5, <3>2, <4>1
      <4>2. CASE vpc[v] # "unremoved"
        <5>1. LockUsers = {v}
          BY <2>2, <3>2, <4>2
        <5>2. lock' = v /\ vpc'[v] # "unremoved"
          BY <2>5, <3>2, <4>2
        <5>3. QED
          BY <2>3, <5>1, <5>2
      <4>3. QED
        BY <4>1, <4>2
    <3>3. CASE lock \in Probes \cup {None, Orphan}
      BY <2>2, <2>3, <2>5, <3>3
    <3>4. QED
      BY <3>1, <3>2, <3>3 DEF Workers
  <2>6. ASSUME NEW b \in Batches,
               TryLock(b) \/ AcquireQueued(b)
        PROVE  [Access!Next]_Access!vars
    <3>1. \/ /\ LockUsers = {} /\ LockUsers' = {b}
             /\ UNCHANGED <<strays, state, faults>>
          \/ UNCHANGED <<LockUsers, strays, state, faults>>
      BY <2>2, <2>3, <2>4, <2>5, <2>6
         DEF TryLock, AcquireQueued
    <3>2. QED
      BY <2>4, <3>1 DEF Access!Next, Access!vars, Access!Enter
  <2>7. ASSUME NEW b \in Batches,
               Exit(b)
        PROVE  [Access!Next]_Access!vars
    <3>1. \/ /\ LockUsers = {b} /\ LockUsers' = {} /\ state = None
             /\ UNCHANGED <<strays, state, faults>>
          \/ UNCHANGED <<LockUsers, strays, state, faults>>
      BY <2>2, <2>3, <2>4, <2>5, <2>7
         DEF Exit, Advance, StateInv
    <3>2. QED
      BY <2>4, <3>1 DEF Access!Next, Access!vars, Access!Leave
  <2>8. ASSUME NEW b \in Batches,
               InstallTrap(b) \/ PublishState(b) \/ Finish(b) \/ Cleanup(b)
        PROVE  [Access!Next]_Access!vars
    <3>1. /\ LockUsers = {b} /\ LockUsers' = {b}
          /\ state' \in {b, None, state}
          /\ UNCHANGED <<strays, faults>>
      BY <2>2, <2>3, <2>4, <2>5, <2>8
         DEF InstallTrap, PublishState, Finish, Cleanup, FailedWrite
    <3>2. QED
      BY <2>4, <3>1 DEF Access!Next, Access!vars, Access!Publish
  <2>9. ASSUME NEW b \in Batches,
               Launch(b) \/ NoLock(b) \/ TimeOut(b)
        PROVE  [Access!Next]_Access!vars
    <3>1. UNCHANGED <<LockUsers, strays, state, faults>>
      BY <2>2, <2>3, <2>4, <2>5, <2>9
         DEF Launch, NoLock, TimeOut, Advance
    <3>2. QED
      BY <2>4, <3>1 DEF Access!vars
  <2>10. ASSUME NEW b \in Batches,
               NoTempDir(b) \/ CleanupFails(b)
        PROVE  [Access!Next]_Access!vars
    <3>1. /\ LockUsers' = {}
          /\ faults' = faults + 1
          /\ UNCHANGED <<strays, state>>
      BY <2>2, <2>3, <2>4, <2>5, <2>10
         DEF NoTempDir, CleanupFails, Advance
    <3>2. QED
      BY <2>4, <3>1 DEF Access!Next, Access!vars, Access!Mishap
  <2>11. ASSUME NEW b \in Batches,
               KillScript(b)
        PROVE  [Access!Next]_Access!vars
    <3>1. /\ LockUsers' = {} \/ (LockUsers = {b} /\ LockUsers' = {Orphan})
          /\ faults' = faults + 1
          /\ UNCHANGED <<strays, state>>
      BY <2>2, <2>3, <2>4, <2>5, <2>11
         DEF KillScript, Advance
    <3>2. QED
      BY <2>4, <3>1 DEF Access!Next, Access!vars, Access!Mishap
  <2>12. CASE OrphanExits
    <3>1. /\ LockUsers = {Orphan} /\ LockUsers' = {}
          /\ UNCHANGED <<strays, state, faults>>
      BY <2>2, <2>3, <2>4, <2>5, <2>12
         DEF OrphanExits, scriptVars
    <3>2. QED
      BY <2>4, <3>1 DEF Access!Next, Access!vars, Access!SurvivorEnds
  <2>13. CASE StopContainer
    <3>1. /\ LockUsers' \in {LockUsers, {}}
          /\ faults' = faults + 1
          /\ UNCHANGED <<strays, state>>
      BY <2>2, <2>3, <2>4, <2>5, <2>13
         DEF StopContainer
    <3>2. QED
      BY <2>4, <3>1 DEF Access!Next, Access!vars, Access!Mishap
  <2>14. ASSUME NEW v \in Verifiers,
               StartRestore(v) \/ PollLocks(v) \/ PollTimesOut(v)
        PROVE  [Access!Next]_Access!vars
    <3>1. \/ /\ LockUsers = {} /\ LockUsers' = {v}
             /\ UNCHANGED <<strays, state, faults>>
          \/ UNCHANGED <<LockUsers, strays, state, faults>>
      BY <2>2, <2>3, <2>4, <2>5, <2>14
         DEF StartRestore, PollLocks, PollTimesOut, scriptVars
    <3>2. QED
      BY <2>4, <3>1 DEF Access!Next, Access!vars, Access!Enter
  <2>15. ASSUME NEW v \in Verifiers,
               PublishVerify(v) \/ PublishVerifyFails(v) \/ UnlinkState(v)
        PROVE  [Access!Next]_Access!vars
    <3>1. /\ LockUsers = {v} /\ LockUsers' = {v}
          /\ state' \in {v, None, state}
          /\ UNCHANGED <<strays, faults>>
      BY <2>2, <2>3, <2>4, <2>5, <2>15
         DEF PublishVerify, PublishVerifyFails, UnlinkState, FailedWrite, scriptVars
    <3>2. QED
      BY <2>4, <3>1 DEF Access!Next, Access!vars, Access!Publish
  <2>16. ASSUME NEW v \in Verifiers,
               CloseLock(v)
        PROVE  [Access!Next]_Access!vars
    <3>1. \/ /\ LockUsers = {v} /\ LockUsers' = {} /\ state = None
             /\ UNCHANGED <<strays, state, faults>>
          \/ UNCHANGED <<LockUsers, strays, state, faults>>
      BY <2>2, <2>3, <2>4, <2>5, <2>16
         DEF CloseLock, scriptVars, StateInv
    <3>2. QED
      BY <2>4, <3>1 DEF Access!Next, Access!vars, Access!Leave
  <2>17. ASSUME NEW v \in Verifiers,
               UnlinkFails(v) \/ KillWorker(v)
        PROVE  [Access!Next]_Access!vars
    <3>1. /\ \/ LockUsers' \in {LockUsers, {}} /\ UNCHANGED strays
             \/ LockUsers = {v} /\ LockUsers' = {} /\ strays' = strays \cup {v}
          /\ faults' = faults + 1
          /\ UNCHANGED state
      BY <2>2, <2>3, <2>4, <2>5, <2>17
         DEF UnlinkFails, KillWorker, scriptVars
    <3>2. QED
      BY <2>4, <3>1 DEF Access!Next, Access!vars, Access!Mishap
  <2>18. ASSUME NEW v \in Verifiers,
               StrayEnds(v)
        PROVE  [Access!Next]_Access!vars
    <3>1. /\ v \in strays /\ strays' = strays \ {v}
          /\ UNCHANGED <<LockUsers, state, faults>>
      BY <2>2, <2>3, <2>4, <2>5, <2>18
         DEF StrayEnds, scriptVars
    <3>2. QED
      BY <2>4, <3>1 DEF Access!Next, Access!vars, Access!StrayEnds
  <2>19. ASSUME NEW p \in Probes,
               Probe(p) \/ ProbeUnlocks(p) \/ ProbeReadsState(p)
        PROVE  [Access!Next]_Access!vars
    <3>1. UNCHANGED <<LockUsers, strays, state, faults>>
      BY <2>2, <2>3, <2>4, <2>5, <2>19
         DEF Probe, ProbeUnlocks, ProbeReadsState, scriptVars
    <3>2. QED
      BY <2>4, <3>1 DEF Access!vars
  <2>20. CASE UNCHANGED vars
    <3>1. UNCHANGED <<LockUsers, strays, state, faults>>
      BY <2>2, <2>3, <2>4, <2>5, <2>20
         DEF vars, scriptVars, LockUsers
    <3>2. QED
      BY <2>4, <3>1 DEF Access!vars
  <2>21. QED
    BY StepCases, <2>6, <2>7, <2>8, <2>9, <2>10, <2>11, <2>12,
       <2>13, <2>14, <2>15, <2>16, <2>17, <2>18, <2>19, <2>20
<1>3. QED
  BY Invariance, <1>1, <1>2, PTL DEF Spec, ImplementsAccess, Access!Spec

=============================================================================
