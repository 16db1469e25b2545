-------------------------- MODULE ResticLocks_proofs --------------------------
(***************************************************************************)
(* Proofs about ResticLocks, for any number of requests, batches and       *)
(* kills.  The actions of a request and of a batch fall into three         *)
(* families: those that move a process without a command, those that start *)
(* a command and those that end one.                                       *)
(***************************************************************************)
EXTENDS ResticLocks, TLAPS

(* What a step may be, for the case distinctions below. *)
LEMMA StepCases ==
    ASSUME [Next]_vars
    PROVE  \/ Age \/ Recreate
           \/ \E r \in Requests :
                 \/ Arrive(r) \/ Run(r) \/ LockError(r) \/ Probe(r) \/ ProbeErrs(r) \/ ProbeUnlocks(r)
                 \/ Unlock(r) \/ UnlockFails(r) \/ StillLocked(r) \/ Done(r)
                 \/ TimeOut(r) \/ KillWorker(r)
           \/ \E b \in Batches :
                 \/ Launch(b) \/ Lock(b) \/ RunStage(b) \/ StageBlocked(b) \/ StageDone(b)
                 \/ KillScript(b) \/ KillBatch(b)
           \/ \E a \in Actors : OrphanEnds(a)
           \/ UNCHANGED vars
  BY DEF Next

(* The command of a batch's stage has a mode.                              *)
LEMMA NeedsModes == \A stage : Needs(stage) \in {"shared", "exclusive"}
  BY DEF Needs

(* A batch that goes on is at a stage and holds backup.lock, or ends. *)
LEMMA NextStage ==
    ASSUME NEW b \in Batches, pc[b] \in Stages, GoOn(b)
    PROVE  \/ \E stage \in Stages : Goto(b, stage) /\ flock' = flock
           \/ Goto(b, "idle") /\ flock' = None
  BY DEF GoOn, Following, Stages

(* Where a batch is after its command, or instead of it. *)
LEMMA BatchGoes ==
    ASSUME NEW b \in Batches, StageBlocked(b) \/ StageDone(b) \/ KillBatch(b)
    PROVE  /\ \/ \E stage \in Stages : pc[b] \in Stages /\ Goto(b, stage) /\ flock' = flock
              \/ \E rest \in {"idle", "failed"} : Goto(b, rest) /\ (flock' = None \/ LetGo(b))
           /\ pc[b] \in Stages \cup {"orphan"}
           /\ UNCHANGED <<kind, alone>>
<1>1. CASE StageBlocked(b)
  BY <1>1, NextStage DEF StageBlocked
<1>2. CASE StageDone(b)
  BY <1>2, NextStage DEF StageDone
<1>3. CASE KillBatch(b)
  BY <1>3, NextStage DEF KillBatch, Tolerated, Stages
<1>4. QED
  BY <1>1, <1>2, <1>3

-----------------------------------------------------------------------------
(* Type correctness *)

(* Every step keeps every variable in its type. *)
LEMMA TypeStep ==
    ASSUME TypeOK, [Next]_vars
    PROVE  TypeOK'
<1> USE DEF TypeOK, Actors, Batches, Goto, LetGo, EndCommand, StartCommand, Modes,
            Resting, Stages
<1>1. CASE Age
  <2>1. \A d \in dead : [d EXCEPT !.old = TRUE] \in LeftLocks
    BY DEF LeftLocks
  <2>2. dead' \in SUBSET LeftLocks
    BY <1>1, <2>1 DEF Age
  <2>3. QED
    BY <1>1, <2>2 DEF Age
<1>2. CASE Recreate
  <2>1. \A d \in dead : [d EXCEPT !.host = "gone"] \in LeftLocks
    BY DEF LeftLocks
  <2>2. dead' \in SUBSET LeftLocks
    BY <1>2, <2>1 DEF Recreate
  <2>3. QED
    BY <1>2, <2>2 DEF Recreate
<1>3. ASSUME NEW a \in Actors, KillCommand(a)
      PROVE  /\ dead' \in SUBSET LeftLocks /\ kills' \in 0..MaxKills
             /\ cmd' \in [Actors -> Modes] /\ files' \in SUBSET Actors
  <2>1. [host |-> Host(a), excl |-> cmd[a] = "exclusive", old |-> FALSE] \in LeftLocks
    BY DEF LeftLocks, Host
  <2>2. dead' \in SUBSET LeftLocks
    BY <1>3, <2>1 DEF KillCommand
  <2>3. QED
    BY <1>3, <2>2, KillsAssumption DEF KillCommand
<1>4. ASSUME NEW r \in Requests,
             \/ Arrive(r) \/ Run(r) \/ LockError(r) \/ Probe(r) \/ ProbeErrs(r) \/ ProbeUnlocks(r)
             \/ Unlock(r) \/ UnlockFails(r) \/ StillLocked(r)
      PROVE  TypeOK'
  BY <1>4 DEF Arrive, Run, LockError, Probe, ProbeErrs, ProbeUnlocks, Unlock, UnlockFails,
              StillLocked, Mode, Kinds
<1>5. ASSUME NEW r \in Requests, Done(r)
      PROVE  TypeOK'
  BY <1>5 DEF Done, Kinds
<1>6. ASSUME NEW r \in Requests, TimeOut(r)
      PROVE  TypeOK'
  BY <1>3, <1>6 DEF TimeOut
<1>7. ASSUME NEW r \in Requests, KillWorker(r)
      PROVE  TypeOK'
  BY <1>7, KillsAssumption DEF KillWorker
<1>8. ASSUME NEW b \in Batches, Launch(b) \/ Lock(b)
      PROVE  TypeOK'
  BY <1>8 DEF Launch, Lock
<1>9. ASSUME NEW b \in Batches, RunStage(b)
      PROVE  TypeOK'
  BY <1>9, NeedsModes DEF RunStage
<1>10. ASSUME NEW b \in Batches, StageBlocked(b) \/ StageDone(b) \/ KillBatch(b)
       PROVE  TypeOK'
  <2>1. /\ pc' \in [Actors -> Resting \cup Stages \cup
                        {"first", "locked", "probing", "unlock", "retry", "start", "orphan"}]
        /\ flock' \in Actors \cup {None}
        /\ UNCHANGED <<kind, alone>>
    BY <1>10, BatchGoes
  <2>2. CASE StageBlocked(b)
    BY <2>1, <2>2 DEF StageBlocked
  <2>3. CASE StageDone(b)
    BY <2>1, <2>3 DEF StageDone
  <2>4. CASE KillBatch(b)
    BY <1>3, <2>1, <2>4 DEF KillBatch
  <2>5. QED
    BY <1>10, <2>2, <2>3, <2>4
<1>11. ASSUME NEW b \in Batches, KillScript(b)
       PROVE  TypeOK'
  BY <1>11, KillsAssumption DEF KillScript
<1>12. ASSUME NEW a \in Actors, OrphanEnds(a)
       PROVE  TypeOK'
  BY <1>12 DEF OrphanEnds
<1>13. CASE UNCHANGED vars
  BY <1>13 DEF vars
<1>14. QED
  BY StepCases, <1>1, <1>2, <1>4, <1>5, <1>6, <1>7, <1>8, <1>9, <1>10, <1>11, <1>12,
     <1>13

-----------------------------------------------------------------------------
(* The two locks *)

(* backup.lock follows the stages of its holders, the lock files follow    *)
(* the running commands.                                                   *)
LEMMA HoldStep ==
    ASSUME TypeOK, HoldInv, [Next]_vars
    PROVE  HoldInv'
<1> USE ActorsAssumption DEF TypeOK, HoldInv, HoldsFlock, Actors, Batches, Goto, LetGo,
        EndCommand, StartCommand, Modes, Resting, Stages
<1>1. CASE Age \/ Recreate
  BY <1>1 DEF Age, Recreate
<1>2. ASSUME NEW r \in Requests, Arrive(r) \/ Run(r) \/ LockError(r)
      PROVE  HoldInv'
  BY <1>2 DEF Arrive, Run, LockError, Mode
<1>3. ASSUME NEW r \in Requests,
             \/ Probe(r) \/ ProbeErrs(r) \/ ProbeUnlocks(r) \/ Unlock(r) \/ UnlockFails(r) \/ StillLocked(r)
      PROVE  HoldInv'
  BY <1>3 DEF Probe, ProbeErrs, ProbeUnlocks, Unlock, UnlockFails, StillLocked
<1>4. ASSUME NEW r \in Requests, Done(r)
      PROVE  HoldInv'
  BY <1>4 DEF Done
<1>5. ASSUME NEW r \in Requests, TimeOut(r) \/ KillWorker(r)
      PROVE  HoldInv'
  BY <1>5 DEF TimeOut, KillWorker, KillCommand
<1>6. ASSUME NEW b \in Batches, Launch(b) \/ Lock(b)
      PROVE  HoldInv'
  BY <1>6 DEF Launch, Lock
<1>7. ASSUME NEW b \in Batches, RunStage(b)
      PROVE  HoldInv'
  BY <1>7, NeedsModes DEF RunStage
<1>8. ASSUME NEW b \in Batches, StageBlocked(b) \/ StageDone(b) \/ KillBatch(b)
      PROVE  HoldInv'
  <2>1. flock = b /\ kind' = kind
    BY <1>8, BatchGoes
  <2>2. \/ \E stage \in Stages : Goto(b, stage) /\ flock' = b
        \/ \E rest \in {"idle", "failed"} : Goto(b, rest) /\ flock' = None
    BY <1>8, <2>1, BatchGoes
  <2>3. CASE StageBlocked(b)
    BY <2>1, <2>2, <2>3 DEF StageBlocked
  <2>4. CASE StageDone(b) \/ KillBatch(b)
    BY <2>1, <2>2, <2>4 DEF StageDone, KillBatch, KillCommand
  <2>5. QED
    BY <1>8, <2>3, <2>4
<1>9. ASSUME NEW b \in Batches, KillScript(b)
      PROVE  HoldInv'
  BY <1>9 DEF KillScript
<1>10. ASSUME NEW a \in Actors, OrphanEnds(a)
       PROVE  HoldInv'
  BY <1>10 DEF OrphanEnds
<1>11. CASE UNCHANGED vars
  BY <1>11 DEF vars
<1>12. QED
  BY StepCases, <1>1, <1>2, <1>3, <1>4, <1>5, <1>6, <1>7, <1>8, <1>9, <1>10, <1>11

(* A command starts only when its lock meets none of a running command,    *)
(* and every running command has one.                                      *)
LEMMA PruneStep ==
    ASSUME TypeOK, HoldInv, PruneAlone, [Next]_vars
    PROVE  PruneAlone'
<1>1. ASSUME NEW a \in Actors, NEW mode \in {"shared", "exclusive"},
             ~Blocked(mode), StartCommand(a, mode)
      PROVE  PruneAlone'
  BY <1>1 DEF Blocked, StartCommand, PruneAlone, HoldInv, TypeOK
<1>2. ASSUME NEW a \in Actors, EndCommand(a)
      PROVE  PruneAlone'
  BY <1>2 DEF EndCommand, PruneAlone, TypeOK
<1>3. CASE cmd' = cmd
  BY <1>3 DEF PruneAlone
<1>4. ASSUME NEW r \in Requests, Run(r)
      PROVE  PruneAlone'
  BY <1>1, <1>4 DEF Run, Mode, Actors
<1>5. ASSUME NEW b \in Batches, RunStage(b)
      PROVE  PruneAlone'
  BY <1>1, <1>5, NeedsModes DEF RunStage, Actors
<1>6. ASSUME NEW r \in Requests, Done(r) \/ TimeOut(r)
      PROVE  PruneAlone'
  BY <1>2, <1>6 DEF Done, TimeOut, KillCommand, Actors
<1>7. ASSUME NEW b \in Batches, StageDone(b) \/ KillBatch(b)
      PROVE  PruneAlone'
  BY <1>2, <1>7 DEF StageDone, KillBatch, KillCommand, Actors
<1>8. ASSUME NEW a \in Actors, OrphanEnds(a)
      PROVE  PruneAlone'
  BY <1>2, <1>8 DEF OrphanEnds
<1>9. QED
  BY StepCases, <1>3, <1>4, <1>5, <1>6, <1>7, <1>8
     DEF Age, Recreate, Arrive, LockError, Probe, ProbeErrs, ProbeUnlocks, Unlock, UnlockFails,
         StillLocked, KillWorker, Launch, Lock, StageBlocked, KillScript, vars

-----------------------------------------------------------------------------
(* The request that is alone *)

(* A step of an actor that rests starts a request or a batch.              *)
LEMMA OthersRest ==
    ASSUME TypeOK, HoldInv, AloneInv, [Next]_vars, alone' # None, alone' = alone
    PROVE  \A a \in Actors \ {alone} : pc'[a] \in Resting
<1> SUFFICES ASSUME NEW a \in Actors \ {alone}
             PROVE  pc'[a] \in Resting
  OBVIOUS
<1> USE ActorsAssumption DEF AloneInv, TypeOK, Goto, Actors, Batches, Resting, Stages
<1>1. ASSUME NEW r \in Requests, Arrive(r)
      PROVE  pc'[a] \in Resting
  BY <1>1 DEF Arrive
<1>2. ASSUME NEW r \in Requests,
             \/ Run(r) \/ LockError(r) \/ Probe(r) \/ ProbeErrs(r) \/ ProbeUnlocks(r) \/ Unlock(r)
             \/ UnlockFails(r) \/ StillLocked(r) \/ Done(r) \/ TimeOut(r) \/ KillWorker(r)
      PROVE  pc'[a] \in Resting
  BY <1>2 DEF Run, LockError, Probe, ProbeErrs, ProbeUnlocks, Unlock, UnlockFails, StillLocked,
              Done, TimeOut, KillWorker
<1>3. ASSUME NEW b \in Batches,
             \/ Launch(b) \/ Lock(b) \/ RunStage(b) \/ StageBlocked(b) \/ StageDone(b)
             \/ KillScript(b) \/ KillBatch(b)
      PROVE  pc'[a] \in Resting
  BY <1>3 DEF Launch, Lock, RunStage, StageBlocked, StageDone, KillScript, KillBatch
<1>4. ASSUME NEW c \in Actors, OrphanEnds(c)
      PROVE  pc'[a] \in Resting
  BY <1>4 DEF OrphanEnds
<1>5. QED
  BY StepCases, <1>1, <1>2, <1>3, <1>4 DEF Age, Recreate, vars

(* What is left when the request that is alone tries again is what its     *)
(* unlock could not remove.                                                *)
LEMMA LeftYoung ==
    ASSUME TypeOK, HoldInv, AloneInv, [Next]_vars, alone' # None, alone' = alone,
           pc'[alone] = "retry", cmd'[alone] = "none"
    PROVE  \A d \in dead' : d.host # Host(alone) /\ ~d.old
<1> USE ActorsAssumption DEF AloneInv, TypeOK, Goto, Actors, Batches, Resting, Stages
<1>1. alone \in Requests
  OBVIOUS
<1>2. CASE Age
  BY <1>1, <1>2 DEF Age
<1>3. CASE Recreate
  <2>1. pc[alone] = "retry" /\ cmd[alone] = "none"
    BY <1>3 DEF Recreate
  <2>2. \A d \in dead : d.host # Host(alone) /\ ~d.old /\ d \in LeftLocks
    BY <1>1, <2>1
  <2>3. ASSUME NEW e \in dead'
        PROVE  e.host # Host(alone) /\ ~e.old
    <3>1. PICK h \in {"cron", "dashboard"}, d \in dead :
            e = IF d.host = h THEN [d EXCEPT !.host = "gone"] ELSE d
      BY <1>3 DEF Recreate
    <3>2. Host(alone) # "gone"
      BY DEF Host
    <3>3. QED
      BY <2>2, <3>1, <3>2 DEF LeftLocks
  <2>4. QED
    BY <2>3
<1>4. ASSUME NEW r \in Requests, r # alone
      PROVE  /\ ~Run(r) /\ ~LockError(r) /\ ~Probe(r) /\ ~ProbeErrs(r) /\ ~ProbeUnlocks(r) /\ ~Unlock(r)
             /\ ~UnlockFails(r) /\ ~StillLocked(r) /\ ~Done(r) /\ ~TimeOut(r)
             /\ ~KillWorker(r) /\ ~Arrive(r)
  BY <1>1, <1>4 DEF Run, LockError, Probe, ProbeErrs, ProbeUnlocks, Unlock, UnlockFails,
                    StillLocked, Done, TimeOut, KillWorker, Arrive
<1>5. ASSUME NEW r \in Requests, r = alone, Unlock(r)
      PROVE  \A d \in dead' : d.host # Host(alone) /\ ~d.old
  BY <1>5 DEF Unlock
<1>6. ASSUME NEW r \in Requests, r = alone,
             \/ Arrive(r) \/ Run(r) \/ LockError(r) \/ Probe(r) \/ ProbeErrs(r) \/ ProbeUnlocks(r)
             \/ UnlockFails(r) \/ StillLocked(r) \/ Done(r) \/ TimeOut(r) \/ KillWorker(r)
      PROVE  FALSE
  BY <1>1, <1>6 DEF Run, LockError, Probe, ProbeErrs, ProbeUnlocks, UnlockFails, StartCommand,
                    StillLocked, Done, TimeOut, KillWorker, Arrive, Mode
<1>7. ASSUME NEW b \in Batches,
             \/ Launch(b) \/ Lock(b) \/ RunStage(b) \/ StageBlocked(b) \/ StageDone(b)
             \/ KillScript(b) \/ KillBatch(b)
      PROVE  FALSE
  BY <1>1, <1>7 DEF Launch, Lock, RunStage, StageBlocked, StageDone, KillScript, KillBatch
<1>8. ASSUME NEW c \in Actors, OrphanEnds(c)
      PROVE  FALSE
  BY <1>8 DEF OrphanEnds
<1>9. CASE UNCHANGED vars
  BY <1>9 DEF vars
<1>10. QED
  BY StepCases, <1>2, <1>3, <1>4, <1>5, <1>6, <1>7, <1>8, <1>9

(* Every step keeps what is said of the request that is alone. *)
LEMMA AloneStep ==
    ASSUME TypeOK, HoldInv, AloneInv, [Next]_vars
    PROVE  AloneInv'
<1>1. CASE alone' = None
  BY <1>1 DEF AloneInv
<1>2. CASE alone' # None /\ alone' = alone
  BY <1>2, OthersRest, LeftYoung DEF AloneInv, Host
<1>3. CASE alone' # None /\ alone' # alone
  <2>1. PICK r \in Requests : Arrive(r)
    BY StepCases, <1>3
       DEF Age, Recreate, Run, LockError, Probe, ProbeErrs, ProbeUnlocks, Unlock, UnlockFails,
           StillLocked, Done, TimeOut, KillWorker, Launch, Lock, RunStage, StageBlocked,
           StageDone, KillScript, KillBatch, OrphanEnds, vars
  <2>2. /\ alone' = r /\ \A a \in Actors \ {r} : pc[a] \in Resting
        /\ pc' = [pc EXCEPT ![r] = "first"]
    BY <1>3, <2>1 DEF Arrive, Goto
  <2>3. QED
    BY <2>2 DEF AloneInv, TypeOK, Actors
<1>4. QED
  BY <1>1, <1>2, <1>3

-----------------------------------------------------------------------------
(* The theorems *)

(* The initial states satisfy the invariant. *)
LEMMA InitInv == Init => Inv
  BY KillsAssumption, ActorsAssumption
     DEF Init, Inv, TypeOK, HoldInv, HoldsFlock, PruneAlone, AloneInv, Actors, Batches,
         Resting, Stages, Kinds, Modes

(* The inductive invariant holds in every reachable state. *)
THEOREM Invariance == Spec => []Inv
<1>1. Inv /\ [Next]_vars => Inv'
  BY TypeStep, HoldStep, PruneStep, AloneStep DEF Inv
<1>2. QED
  BY InitInv, <1>1, PTL DEF Spec

(* Every variable keeps its type. *)
THEOREM TypeCorrect == Spec => []TypeOK
  BY Invariance, PTL DEF Inv

(* No prune runs beside another command on the repository. *)
THEOREM PruneExclusive == Spec => []PruneAlone
  BY Invariance, PTL DEF Inv

(* While a verification's restore unlocks, no command of a backup runs. *)
THEOREM LockProves == Spec => []HoldingProves
<1>1. Inv => HoldingProves
  BY ActorsAssumption
     DEF Inv, HoldInv, HoldsFlock, HoldingProves, Actors, Batches, Resting, Stages
<1>2. QED
  BY Invariance, <1>1, PTL

(* A request that is alone is refused only for a young lock of another     *)
(* container.                                                              *)
THEOREM AloneServed == Spec => AloneNeverRefused
<1>1. Inv /\ [Next]_vars =>
        [\A r \in Requests :
            alone = r /\ pc[r] # "refused" /\ pc'[r] = "refused"
                => \E d \in dead : d.host # Host(r) /\ ~d.old]_vars
  <2> SUFFICES ASSUME Inv, [Next]_vars, NEW r \in Requests, alone = r,
                      pc[r] # "refused", pc'[r] = "refused"
               PROVE  \E d \in dead : d.host # Host(r) /\ ~d.old
    OBVIOUS
  <2> USE ActorsAssumption DEF Inv, TypeOK, AloneInv, Actors, Batches, Goto, Resting, Stages
  <2>1. \A a \in Actors \ {r} : pc[a] \in Resting
    OBVIOUS
  <2>2. Probe(r) \/ StillLocked(r)
    BY StepCases
       DEF Age, Recreate, Arrive, Run, LockError, Probe, ProbeErrs, ProbeUnlocks, Unlock, UnlockFails,
           StillLocked, Done, TimeOut, KillWorker, Launch, Lock, RunStage, StageBlocked,
           StageDone, KillScript, KillBatch, OrphanEnds, vars
  <2>3. CASE Probe(r)
    <3>1. flock # None /\ pc[r] = "locked"
      BY <2>3 DEF Probe
    <3>2. PICK a \in Actors : flock = a /\ HoldsFlock(a)
      BY <3>1 DEF HoldInv
    <3>3. a # r
      BY <3>1, <3>2 DEF HoldsFlock
    <3>4. QED
      BY <2>1, <3>2, <3>3 DEF HoldsFlock
  <2>4. CASE StillLocked(r)
    <3>1. pc[r] = "retry" /\ cmd[r] = "none" /\ Blocked(Mode(r))
      BY <2>4 DEF StillLocked
    <3>2. files = {}
      BY <2>1, <3>1 DEF HoldInv
    <3>3. \E d \in dead : TRUE
      BY <3>1, <3>2 DEF Blocked
    <3>4. QED
      BY <3>1, <3>3
  <2>5. QED
    BY <2>2, <2>3, <2>4
<1>2. QED
  BY Invariance, <1>1, PTL DEF Spec, AloneNeverRefused

=============================================================================
