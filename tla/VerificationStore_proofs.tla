---------------------- MODULE VerificationStore_proofs ----------------------
(***************************************************************************)
(* Proofs about VerificationStore, for any number of jobs, readers and     *)
(* snapshots.  A job's steps change the lock, the records, the work        *)
(* directories and its own variables; readers change none of these.        *)
(***************************************************************************)
EXTENDS VerificationStore, TLAPS

(* What a step may be, for the case distinctions below. *)
LEMMA StepCases ==
    ASSUME [Next]_vars
    PROVE  \/ \E j \in Jobs :
                 \/ Request(j) \/ TryAcquire(j) \/ SaveQueued(j) \/ StartFails(j)
                 \/ Prepare(j) \/ BeginRun(j) \/ MakeWorkDir(j) \/ SaveProgress(j)
                 \/ Hang(j) \/ EndSteps(j) \/ SaveFinal(j) \/ CrashHandler(j) \/ Release(j)
                 \/ Die(j)
           \/ \E r \in Readers :
                 \/ StartRead(r) \/ ReadRecord(r) \/ Probe(r) \/ ProbeErrs(r) \/ Unprobe(r)
           \/ \E s \in Snapshots : Forget(s) \/ DropRecord(s)
           \/ UNCHANGED vars
  BY DEF Next, JobStep, ReaderStep

(* A reader's step changes nothing but the shared lock and the readers.    *)
LEMMA ReaderFrame ==
    ASSUME NEW r \in Readers, \/ StartRead(r) \/ ReadRecord(r) \/ Probe(r)
                              \/ ProbeErrs(r) \/ Unprobe(r)
    PROVE  UNCHANGED <<exLock, record, snaps, dropping, dirs, jpc, jsnap, mem>>
  BY DEF StartRead, ReadRecord, Probe, ProbeErrs, Unprobe, jobVars

(* Saving a job's state stores a well-formed record for its snapshot and   *)
(* leaves the records of the others alone.                                 *)
LEMMA SaveRecord ==
    ASSUME TypeOK, NEW j \in Jobs, NEW st \in Active \cup Final,
           jpc[j] # "idle", Save(j, st)
    PROVE  /\ record' \in [Snapshots -> Records \cup {None}]
           /\ jsnap[j] \in Snapshots
           /\ record'[jsnap[j]] = [job |-> j, status |-> st]
           /\ \A s \in Snapshots : s # jsnap[j] => record'[s] = record[s]
<1>1. jsnap[j] \in Snapshots
  BY DEF TypeOK
<1>2. [job |-> j, status |-> st] \in Records
  BY DEF Records
<1>3. QED
  BY <1>1, <1>2 DEF Save, Record, TypeOK

-----------------------------------------------------------------------------
(* Type correctness *)

(* A reader's reply, and each of its stages, is well formed.               *)
LEMMA ReaderType ==
    ASSUME TypeOK, NEW r \in Readers,
           \/ StartRead(r) \/ ReadRecord(r) \/ Probe(r)
           \/ ProbeErrs(r) \/ Unprobe(r)
    PROVE  TypeOK'
<1> DEFINE Answers == [job : Jobs, status : Active \cup Final \cup {"interrupted"}] \cup {None}
<1>1. ASSUME NEW rec \in Records \cup {None}, NEW b \in BOOLEAN
      PROVE  Finalize(rec, b) \in Answers
  BY <1>1 DEF Finalize, Record, Records
<1>2. ASSUME NEW rec \in Records \cup {None}, NEW b \in BOOLEAN, Reply(r, rec, b)
      PROVE  /\ answer' \in [Readers -> Answers]
             /\ reader' \in [Readers -> ReaderStates \cup {None}]
  BY <1>1, <1>2 DEF Reply, TypeOK
<1>3. CASE StartRead(r)
  <2>1. PICK k \in ReaderKinds, s \in Snapshots :
          reader' = [reader EXCEPT ![r] =
              [pc |-> IF k = "load" THEN "read" ELSE "probe", kind |-> k, snap |-> s,
               seen |-> None, busy |-> FALSE, erred |-> FALSE,
               over |-> Over, held |-> exLock]]
    BY <1>3 DEF StartRead
  <2>2. reader' \in [Readers -> ReaderStates \cup {None}]
    BY <2>1 DEF TypeOK, ReaderStates, Over
  <2>3. QED
    BY <1>3, <2>2 DEF StartRead, TypeOK, jobVars
<1>4. ASSUME reader[r] # None
      PROVE  reader[r] \in ReaderStates
  BY <1>4 DEF TypeOK
<1>5. CASE ReadRecord(r)
  <2>1. reader[r] \in ReaderStates /\ record[reader[r].snap] \in Records \cup {None}
    BY <1>4, <1>5 DEF ReadRecord, At, ReaderStates, TypeOK
  <2>2. CASE reader[r].kind = "load" /\ record[reader[r].snap] # None
    BY <1>5, <2>1, <2>2 DEF ReadRecord, TypeOK, ReaderStates, jobVars
  <2>3. CASE ~(reader[r].kind = "load" /\ record[reader[r].snap] # None)
    <3>1. Reply(r, record[reader[r].snap], reader[r].busy) /\ reader[r].busy \in BOOLEAN
      BY <1>5, <2>1, <2>3 DEF ReadRecord, ReaderStates
    <3>2. QED
      BY <1>2, <1>5, <2>1, <3>1 DEF ReadRecord, TypeOK, jobVars
  <2>4. QED
    BY <2>2, <2>3
<1>6. ASSUME NEW b \in BOOLEAN, reader[r] # None, Probed(r, b)
      PROVE  /\ answer' \in [Readers -> Answers]
             /\ reader' \in [Readers -> ReaderStates \cup {None}]
  <2>1. reader[r].seen \in Records \cup {None} /\ reader[r] \in ReaderStates
    BY <1>4, <1>6 DEF ReaderStates
  <2>2. CASE reader[r].kind = "load"
    BY <1>2, <1>6, <2>1, <2>2 DEF Probed
  <2>3. CASE reader[r].kind # "load"
    BY <1>6, <2>1, <2>3 DEF Probed, TypeOK, ReaderStates
  <2>4. QED
    BY <2>2, <2>3
<1>7. CASE Probe(r)
  <2>1. CASE exLock # None
    BY <1>6, <1>7, <2>1 DEF Probe, At, TypeOK, jobVars
  <2>2. CASE exLock = None
    BY <1>4, <1>7, <2>2 DEF Probe, At, TypeOK, ReaderStates, jobVars
  <2>3. QED
    BY <2>1, <2>2
<1>7a. CASE ProbeErrs(r)
  BY <1>4, <1>7a DEF ProbeErrs, At, TypeOK, ReaderStates, jobVars
<1>8. CASE Unprobe(r)
  BY <1>6, <1>8 DEF Unprobe, At, TypeOK, jobVars
<1>9. QED
  BY <1>3, <1>5, <1>7, <1>7a, <1>8

(* Every step keeps every variable in its type. *)
LEMMA TypeStep ==
    ASSUME TypeOK, [Next]_vars
    PROVE  TypeOK'
<1> USE DEF Goto, Status, Holding, Ended, readerVars, jobVars
<1>1. ASSUME NEW j \in Jobs,
             \/ Request(j) \/ TryAcquire(j) \/ StartFails(j)
             \/ MakeWorkDir(j) \/ Hang(j) \/ EndSteps(j) \/ Release(j) \/ Die(j)
      PROVE  TypeOK'
  BY <1>1 DEF TypeOK, Request, TryAcquire, StartFails, MakeWorkDir, Hang, EndSteps,
              Release, Die, Final
<1>2. ASSUME NEW j \in Jobs, Prepare(j)
      PROVE  TypeOK'
  BY <1>2 DEF TypeOK, Prepare
<1>3. ASSUME NEW j \in Jobs,
             \/ SaveQueued(j) \/ BeginRun(j) \/ SaveProgress(j)
             \/ SaveFinal(j) \/ CrashHandler(j)
      PROVE  TypeOK'
  <2>1. jpc[j] # "idle" /\ mem[j] \in Active \cup Final
    BY <1>3 DEF TypeOK, SaveQueued, BeginRun, SaveProgress, SaveFinal, CrashHandler
  <2>2. record' \in [Snapshots -> Records \cup {None}]
    BY <1>3, <2>1, SaveRecord
       DEF TypeOK, SaveQueued, BeginRun, SaveProgress, SaveFinal, CrashHandler,
           Active, Final
  <2>3. QED
    BY <1>3, <2>2
       DEF TypeOK, SaveQueued, BeginRun, SaveProgress, SaveFinal, CrashHandler,
           Active, Final
<1>4. ASSUME NEW s \in Snapshots, Forget(s) \/ DropRecord(s)
      PROVE  TypeOK'
  BY <1>4 DEF TypeOK, Forget, DropRecord
<1>5. CASE UNCHANGED vars
  BY <1>5 DEF TypeOK, vars
<1>6. QED
  BY StepCases, ReaderType, <1>1, <1>2, <1>3, <1>4, <1>5

-----------------------------------------------------------------------------
(* The lock and the work directories *)

(* verify.lock and the stages of the jobs stay in step. *)
LEMMA LockStep ==
    ASSUME TypeOK, LockInv, [Next]_vars
    PROVE  LockInv'
<1> USE JobsAssumption DEF LockInv, TypeOK, Goto, Status, Holding
<1>1. ASSUME NEW j \in Jobs,
             \/ Request(j) \/ TryAcquire(j) \/ SaveQueued(j) \/ StartFails(j)
             \/ Prepare(j) \/ BeginRun(j) \/ MakeWorkDir(j)
      PROVE  LockInv'
  BY <1>1 DEF Request, TryAcquire, SaveQueued, StartFails, Prepare, BeginRun, MakeWorkDir
<1>2. ASSUME NEW j \in Jobs,
             \/ SaveProgress(j) \/ Hang(j) \/ EndSteps(j) \/ SaveFinal(j)
             \/ CrashHandler(j) \/ Release(j) \/ Die(j)
      PROVE  LockInv'
  BY <1>2 DEF SaveProgress, Hang, EndSteps, SaveFinal, CrashHandler, Release, Die,
              jobVars
<1>3. ASSUME UNCHANGED <<exLock, jpc>>
      PROVE  LockInv'
  BY <1>3
<1>4. QED
  BY StepCases, ReaderFrame, <1>1, <1>2, <1>3 DEF Forget, DropRecord, jobVars, vars

(* Only the job that holds the lock makes or removes work directories. *)
LEMMA DirStep ==
    ASSUME TypeOK, LockInv, DirInv, [Next]_vars
    PROVE  DirInv'
<1> USE DEF LockInv, DirInv, TypeOK, Goto, Status, Holding
<1>1. ASSUME NEW j \in Jobs,
             \/ Request(j) \/ TryAcquire(j) \/ SaveQueued(j) \/ StartFails(j)
             \/ Prepare(j) \/ BeginRun(j) \/ MakeWorkDir(j)
      PROVE  DirInv'
  BY <1>1 DEF Request, TryAcquire, SaveQueued, StartFails, Prepare, BeginRun, MakeWorkDir
<1>2. ASSUME NEW j \in Jobs,
             \/ SaveProgress(j) \/ Hang(j) \/ EndSteps(j) \/ SaveFinal(j)
             \/ CrashHandler(j) \/ Release(j) \/ Die(j)
      PROVE  DirInv'
  BY <1>2 DEF SaveProgress, Hang, EndSteps, SaveFinal, CrashHandler, Release, Die,
              jobVars
<1>3. ASSUME UNCHANGED <<dirs, jpc>>
      PROVE  DirInv'
  BY <1>3
<1>4. QED
  BY StepCases, ReaderFrame, <1>1, <1>2, <1>3 DEF Forget, DropRecord, jobVars, vars

-----------------------------------------------------------------------------
(* The records *)

(* A save by the job that holds the lock keeps the other jobs' records in  *)
(* order, and its own if the job goes on to a stage that fits the status.  *)
LEMMA RecordSave ==
    ASSUME TypeOK, RecordInv, NEW j \in Jobs, NEW st \in Active \cup Final,
           NEW stage \in Holding, jpc[j] \notin {"idle", "release", "done", "dead"},
           Save(j, st), Goto(j, stage), jsnap' = jsnap,
           \A i \in Jobs : i # j => mem'[i] = mem[i],
           st \in Final => stage = "release",
           stage = "release" => st \in Final /\ mem'[j] = st,
           stage # "ending"
    PROVE  RecordInv'
<1> DEFINE rec == [job |-> j, status |-> st]
<1>1. /\ jsnap[j] \in Snapshots /\ record'[jsnap[j]] = rec
      /\ \A s \in Snapshots : s # jsnap[j] => record'[s] = record[s]
  BY SaveRecord
<1>2. \A i \in Jobs : jpc'[i] = IF i = j THEN stage ELSE jpc[i]
  BY DEF Goto, TypeOK
<1>3. ASSUME NEW s \in Snapshots, record'[s] # None, record'[s].status \in Final
      PROVE  jpc'[record'[s].job] \in {"release", "done", "dead"}
  <2>1. CASE s = jsnap[j]
    BY <1>1, <1>2, <1>3, <2>1
  <2>2. CASE s # jsnap[j]
    <3>1. record'[s] = record[s] /\ record[s] \in Records
      BY <1>1, <1>3, <2>2 DEF TypeOK
    <3>2. jpc[record[s].job] \in {"release", "done", "dead"} /\ record[s].job # j
      BY <1>3, <3>1 DEF RecordInv
    <3>3. QED
      BY <1>2, <3>1, <3>2 DEF Records
  <2>3. QED
    BY <2>1, <2>2
<1>4. ASSUME NEW i \in Jobs, jpc'[i] = "ending"
      PROVE  mem'[i] \in Final
  BY <1>2, <1>4 DEF RecordInv
<1>5. ASSUME NEW i \in Jobs, jpc'[i] \in {"release", "done"}
      PROVE  /\ mem'[i] \in Final
             /\ record'[jsnap[i]] # None /\ record'[jsnap[i]].job = i
                   => record'[jsnap[i]].status = mem'[i]
  <2>1. CASE i = j
    BY <1>1, <1>2, <1>5, <2>1 DEF Holding
  <2>2. CASE i # j
    <3>1. jpc[i] \in {"release", "done"} /\ mem'[i] = mem[i] /\ jsnap[i] \in Snapshots
      BY <1>2, <1>5, <2>2 DEF TypeOK
    <3>2. CASE jsnap[i] = jsnap[j]
      BY <1>1, <2>2, <3>1, <3>2 DEF RecordInv
    <3>3. CASE jsnap[i] # jsnap[j]
      BY <1>1, <3>1, <3>3 DEF RecordInv
    <3>4. QED
      BY <3>2, <3>3
  <2>3. QED
    BY <2>1, <2>2
<1>6. QED
  BY <1>3, <1>4, <1>5 DEF RecordInv

(* Every step keeps the records in order. *)
LEMMA RecordStep ==
    ASSUME TypeOK, LockInv, RecordInv, [Next]_vars
    PROVE  RecordInv'
<1>1. ASSUME NEW j \in Jobs, SaveQueued(j) \/ SaveProgress(j)
      PROVE  RecordInv'
  <2>1. jpc[j] \in {"locked", "steps"} /\ jsnap' = jsnap /\ mem' = mem
    BY <1>1 DEF SaveQueued, SaveProgress, jobVars
  <2>2. CASE SaveQueued(j)
    BY <2>1, <2>2, RecordSave DEF SaveQueued, Holding, Active, Final
  <2>3. CASE SaveProgress(j)
    <3>1. Goto(j, "steps")
      BY <2>3 DEF SaveProgress, Goto, TypeOK, jobVars
    <3>2. QED
      BY <2>1, <2>3, <3>1, RecordSave DEF SaveProgress, Holding, Active, Final
  <2>4. QED
    BY <1>1, <2>2, <2>3
<1>2. ASSUME NEW j \in Jobs, BeginRun(j) \/ SaveFinal(j) \/ CrashHandler(j), record' # record
      PROVE  RecordInv'
  <2>1. jsnap' = jsnap /\ \A i \in Jobs : i # j => mem'[i] = mem[i]
    BY <1>2 DEF BeginRun, SaveFinal, CrashHandler, Status, TypeOK
  <2>2. CASE BeginRun(j)
    BY <1>2, <2>1, <2>2, RecordSave DEF BeginRun, Holding, Active, Final
  <2>3. CASE SaveFinal(j)
    <3>1. mem[j] \in Final /\ mem' = mem
      BY <2>3 DEF SaveFinal, RecordInv
    <3>2. QED
      BY <1>2, <2>1, <2>3, <3>1, RecordSave DEF SaveFinal, Holding
  <2>4. CASE CrashHandler(j)
    <3>1. mem'[j] = "failed"
      BY <2>4 DEF CrashHandler, Status, TypeOK
    <3>2. QED
      BY <1>2, <2>1, <2>4, <3>1, RecordSave DEF CrashHandler, Holding, Final
  <2>5. QED
    BY <1>2, <2>2, <2>3, <2>4
<1>3. ASSUME NEW j \in Jobs, BeginRun(j) \/ SaveFinal(j) \/ CrashHandler(j), record' = record
      PROVE  RecordInv'
  BY <1>3 DEF BeginRun, SaveFinal, CrashHandler, Save, Record, Goto, Status, RecordInv,
              TypeOK, Records, Final
<1>4. ASSUME NEW j \in Jobs, Request(j)
      PROVE  RecordInv'
  BY <1>4 DEF Request, RecordInv, TypeOK, Records, Goto
<1>5. ASSUME NEW j \in Jobs,
             \/ TryAcquire(j) \/ StartFails(j) \/ MakeWorkDir(j) \/ Hang(j) \/ EndSteps(j)
             \/ Release(j) \/ Die(j)
      PROVE  RecordInv'
  BY <1>5 DEF TryAcquire, StartFails, MakeWorkDir, Hang, EndSteps, Release, Die, RecordInv,
              TypeOK, Records, Goto, Status, Holding, Final
<1>6. ASSUME NEW j \in Jobs, Prepare(j)
      PROVE  RecordInv'
  BY <1>6 DEF Prepare, RecordInv, TypeOK, Records, Goto
<1>7. ASSUME NEW s \in Snapshots, DropRecord(s)
      PROVE  RecordInv'
  BY <1>7 DEF DropRecord, RecordInv, TypeOK, Records, jobVars
<1>8. ASSUME UNCHANGED <<record, jpc, jsnap, mem>>
      PROVE  RecordInv'
  BY <1>8 DEF RecordInv
<1>9. QED
  BY StepCases, ReaderFrame, <1>1, <1>2, <1>3, <1>4, <1>5, <1>6, <1>7, <1>8
     DEF Forget, jobVars, vars

-----------------------------------------------------------------------------
(* Records and readers *)

(* A record is only written by the job that its snapshot's job is.         *)
LEMMA OwnerStep ==
    ASSUME TypeOK, OwnerInv, [Next]_vars
    PROVE  OwnerInv'
<1> USE DEF Goto, Status
<1>1. ASSUME NEW j \in Jobs, NEW st \in Active \cup Final, Save(j, st), jsnap' = jsnap,
             jpc[j] # "idle", jpc'[j] \notin {"idle", "found", "locked", "refused"},
             \A i \in Jobs : i # j => jpc'[i] = jpc[i]
      PROVE  OwnerInv'
  <2>1. /\ jsnap[j] \in Snapshots /\ record'[jsnap[j]] = [job |-> j, status |-> st]
        /\ \A s \in Snapshots : s # jsnap[j] => record'[s] = record[s]
    BY <1>1, SaveRecord
  <2>2. QED
    BY <1>1, <2>1 DEF OwnerInv, TypeOK, Records
<1>2. ASSUME NEW j \in Jobs,
             \/ SaveQueued(j) \/ BeginRun(j) \/ SaveProgress(j)
             \/ SaveFinal(j) \/ CrashHandler(j)
      PROVE  OwnerInv'
  <2>1. mem[j] \in Active \cup Final
    BY DEF TypeOK
  <2>2. CASE record' = record
    BY <1>2, <2>2 DEF SaveQueued, BeginRun, SaveProgress, SaveFinal, CrashHandler,
                      OwnerInv, TypeOK, Records, jobVars
  <2>3. CASE record' # record
    BY <1>1, <1>2, <2>1, <2>3
       DEF SaveQueued, BeginRun, SaveProgress, SaveFinal, CrashHandler, TypeOK, jobVars,
           Active, Final
  <2>4. QED
    BY <2>2, <2>3
<1>3. ASSUME NEW j \in Jobs, Request(j)
      PROVE  OwnerInv'
  BY <1>3 DEF Request, OwnerInv, TypeOK, Records
<1>4. ASSUME NEW j \in Jobs,
             \/ TryAcquire(j) \/ StartFails(j) \/ MakeWorkDir(j) \/ Hang(j) \/ EndSteps(j)
             \/ Release(j) \/ Die(j)
      PROVE  OwnerInv'
  BY <1>4 DEF TryAcquire, StartFails, MakeWorkDir, Hang, EndSteps, Release, Die, OwnerInv,
              TypeOK, Records, Holding
<1>5. ASSUME NEW j \in Jobs, Prepare(j)
      PROVE  OwnerInv'
  BY <1>5 DEF Prepare, OwnerInv, TypeOK, Records
<1>6. ASSUME NEW s \in Snapshots, DropRecord(s)
      PROVE  OwnerInv'
  BY <1>6 DEF DropRecord, OwnerInv, TypeOK, Records, jobVars
<1>7. ASSUME UNCHANGED <<record, jpc, jsnap>>
      PROVE  OwnerInv'
  BY <1>7 DEF OwnerInv
<1>8. QED
  BY StepCases, ReaderFrame, <1>2, <1>3, <1>4, <1>5, <1>6, <1>7
     DEF Forget, jobVars, vars

(* A job that is over stays where it is; one that lets the lock go is      *)
(* over; and nobody takes the lock from under a probing reader.            *)
LEMMA JobsForward ==
    ASSUME TypeOK, LockInv, [Next]_vars
    PROVE  /\ \A j \in Over : jpc'[j] = jpc[j] /\ j \in Over'
           /\ \A j \in Jobs : exLock = j => exLock' = j \/ j \in Over'
           /\ shLock # {} /\ exLock = None => exLock' = None
<1> USE JobsAssumption DEF LockInv, TypeOK, Goto, Status, Holding, Ended, Over
<1>1. ASSUME NEW j \in Jobs,
             \/ Request(j) \/ TryAcquire(j) \/ SaveQueued(j) \/ StartFails(j)
             \/ Prepare(j) \/ BeginRun(j) \/ MakeWorkDir(j)
      PROVE  /\ \A i \in Over : jpc'[i] = jpc[i]
             /\ \A i \in Jobs : exLock = i => exLock' = i \/ i \in Over'
             /\ shLock # {} /\ exLock = None => exLock' = None
  BY <1>1 DEF Request, TryAcquire, SaveQueued, StartFails, Prepare, BeginRun, MakeWorkDir
<1>2. ASSUME NEW j \in Jobs,
             \/ SaveProgress(j) \/ Hang(j) \/ EndSteps(j) \/ SaveFinal(j)
             \/ CrashHandler(j) \/ Release(j) \/ Die(j)
      PROVE  /\ \A i \in Over : jpc'[i] = jpc[i]
             /\ \A i \in Jobs : exLock = i => exLock' = i \/ i \in Over'
             /\ shLock # {} /\ exLock = None => exLock' = None
  BY <1>2 DEF SaveProgress, Hang, EndSteps, SaveFinal, CrashHandler, Release, Die,
              jobVars
<1>3. CASE UNCHANGED <<exLock, jpc>>
  BY <1>3
<1>4. QED
  BY StepCases, ReaderFrame, <1>1, <1>2, <1>3 DEF Forget, DropRecord, jobVars, vars

(* An active record of a job that is over belongs to one that did not end  *)
(* in the normal way.                                                      *)
LEMMA ActiveRecord ==
    ASSUME TypeOK, RecordInv, OwnerInv, NEW s \in Snapshots,
           record[s] # None, record[s].status \in Active, record[s].job \in Over
    PROVE  jpc[record[s].job] \in {"dead", "error", "lost"}
<1>1. record[s].job \in Jobs /\ jsnap[record[s].job] = s
  BY DEF TypeOK, Records, OwnerInv
<1>2. jpc[record[s].job] \notin {"refused", "done"}
  BY <1>1 DEF OwnerInv, RecordInv, Active, Final
<1>3. QED
  BY <1>1, <1>2 DEF Over, Ended

(* What a step means for the jobs a reader remembers, for a reader that    *)
(* does not move.                                                          *)
LEMMA ReaderRests ==
    ASSUME TypeOK, LockInv, ReaderInv, [Next]_vars, NEW r \in Readers,
           reader'[r] = reader[r], reader[r] # None, r \in shLock => r \in shLock'
    PROVE  LET x == reader'[r] IN
           /\ x.over \subseteq Over'
           /\ x.held # None => x.held = exLock' \/ x.held \in Over'
           /\ x.pc = "unprobe" /\ ~x.erred => r \in shLock' /\ exLock' = None
           /\ x.pc = "read" /\ x.kind = "all" /\ ~x.busy /\ ~x.erred
              /\ x.held # None => x.held \in Over'
           /\ x.seen # None /\ x.seen.status \in Active /\ x.seen.job \in x.over
                 => jpc'[x.seen.job] \in {"dead", "error", "lost"}
           /\ x.kind = "all" => x.seen = None
<1> DEFINE x == reader[r]
<1>1. x \in ReaderStates
  BY DEF TypeOK
<1>2. x.held \in Jobs \cup {None} /\ x.over \subseteq Over
  BY <1>1 DEF ReaderStates, ReaderInv
<1>3. /\ \A j \in Over : jpc'[j] = jpc[j] /\ j \in Over'
      /\ \A j \in Jobs : exLock = j => exLock' = j \/ j \in Over'
      /\ shLock # {} /\ exLock = None => exLock' = None
  BY JobsForward
<1>4. QED
  BY <1>2, <1>3 DEF ReaderInv

(* Every step keeps what the readers remember. *)
LEMMA ReadersStep ==
    ASSUME Inv, [Next]_vars
    PROVE  ReaderInv'
<1> USE DEF Inv
<1>1. CASE UNCHANGED <<reader, shLock>>
  BY <1>1, ReaderRests DEF ReaderInv
<1>2. ASSUME NEW q \in Readers, \/ StartRead(q) \/ ReadRecord(q) \/ Probe(q)
                                \/ ProbeErrs(q) \/ Unprobe(q)
      PROVE  ReaderInv'
  <2>1. UNCHANGED <<exLock, record, jpc>> /\ Over' = Over
    BY <1>2, ReaderFrame DEF Over
  <2>2. ASSUME NEW r \in Readers, r # q
        PROVE  reader'[r] = reader[r] /\ (r \in shLock => r \in shLock')
    BY <1>2, <2>2 DEF StartRead, ReadRecord, Probe, ProbeErrs, Unprobe, Probed, Reply, TypeOK
  <2> DEFINE y == reader'[q]
             Good == /\ y.over \subseteq Over
                     /\ y.held # None => y.held = exLock \/ y.held \in Over
                     /\ y.pc = "unprobe" /\ ~y.erred => q \in shLock' /\ exLock = None
                     /\ y.pc = "read" /\ y.kind = "all" /\ ~y.busy /\ ~y.erred
                        /\ y.held # None => y.held \in Over
                     /\ y.seen # None /\ y.seen.status \in Active /\ y.seen.job \in y.over
                           => jpc[y.seen.job] \in {"dead", "error", "lost"}
                     /\ y.kind = "all" => y.seen = None
  <2>3. ASSUME y # None
        PROVE  Good
    <3>1. CASE StartRead(q)
      <4>1. PICK k \in ReaderKinds, s \in Snapshots :
              y = [pc |-> IF k = "load" THEN "read" ELSE "probe", kind |-> k, snap |-> s,
                   seen |-> None, busy |-> FALSE, erred |-> FALSE,
               over |-> Over, held |-> exLock]
        BY <3>1 DEF StartRead, TypeOK
      <4>2. QED
        BY <4>1, KindsAssumption
    <3>2. ASSUME reader[q] # None
          PROVE  reader[q] \in ReaderStates
      BY <3>2 DEF TypeOK
    <3>3. CASE ReadRecord(q)
      <4>1. reader[q] # None /\ reader[q] \in ReaderStates /\ reader[q].snap \in Snapshots
        BY <3>2, <3>3 DEF ReadRecord, At, ReaderStates
      <4>2. /\ reader[q].kind = "load" /\ record[reader[q].snap] # None
            /\ reader' = [reader EXCEPT ![q].seen = record[reader[q].snap], ![q].pc = "probe"]
        BY <2>3, <3>3 DEF ReadRecord, Reply, TypeOK
      <4>3. /\ y.over = reader[q].over /\ y.held = reader[q].held /\ y.pc = "probe"
            /\ y.kind = "load" /\ y.seen = record[reader[q].snap]
        BY <4>1, <4>2 DEF TypeOK, ReaderStates
      <4>4. QED
        BY <4>1, <4>2, <4>3, ActiveRecord DEF ReaderInv
    <3>4. ASSUME NEW b \in BOOLEAN, reader[q] # None, Probed(q, b)
          PROVE  /\ y.over = reader[q].over /\ y.held = reader[q].held /\ y.pc = "read"
                 /\ y.kind = reader[q].kind /\ y.kind # "load" /\ y.seen = reader[q].seen
                 /\ y.busy = b /\ y.erred = reader[q].erred
      BY <2>3, <3>2, <3>4 DEF Probed, Reply, TypeOK, ReaderStates
    <3>5. CASE Probe(q) /\ exLock # None
      <4>1. reader[q] # None /\ Probed(q, TRUE)
        BY <3>5 DEF Probe, At
      <4>2. QED
        BY <3>4, <4>1 DEF ReaderInv
    <3>6. CASE Probe(q) /\ exLock = None
      <4>1. reader[q] # None /\ reader[q] \in ReaderStates
        BY <3>2, <3>6 DEF Probe, At
      <4>2. /\ y.over = reader[q].over /\ y.held = reader[q].held /\ y.pc = "unprobe"
            /\ y.kind = reader[q].kind /\ y.seen = reader[q].seen /\ q \in shLock'
            /\ y.erred = reader[q].erred
        BY <3>6, <4>1 DEF Probe, TypeOK, ReaderStates
      <4>3. QED
        BY <3>6, <4>1, <4>2 DEF ReaderInv
    <3>6a. CASE ProbeErrs(q)
      <4>1. reader[q] # None /\ reader[q] \in ReaderStates
        BY <3>2, <3>6a DEF ProbeErrs, At
      <4>2. /\ y.over = reader[q].over /\ y.held = reader[q].held /\ y.pc = "unprobe"
            /\ y.kind = reader[q].kind /\ y.seen = reader[q].seen /\ y.erred
        BY <3>6a, <4>1 DEF ProbeErrs, TypeOK, ReaderStates
      <4>3. QED
        BY <4>1, <4>2 DEF ReaderInv
    <3>7. CASE Unprobe(q)
      <4>1. reader[q] # None /\ reader[q].pc = "unprobe" /\ Probed(q, FALSE)
        BY <3>7 DEF Unprobe, At
      <4>2. QED
        BY <3>4, <4>1 DEF ReaderInv
    <3>8. QED
      BY <1>2, <3>1, <3>3, <3>5, <3>6, <3>6a, <3>7
  <2>4. ASSUME NEW r \in Readers, reader'[r] # None, r # q
        PROVE  LET x == reader'[r] IN
               /\ x.over \subseteq Over'
               /\ x.held # None => x.held = exLock' \/ x.held \in Over'
               /\ x.pc = "unprobe" /\ ~x.erred => r \in shLock' /\ exLock' = None
               /\ x.pc = "read" /\ x.kind = "all" /\ ~x.busy /\ ~x.erred
                  /\ x.held # None => x.held \in Over'
               /\ x.seen # None /\ x.seen.status \in Active /\ x.seen.job \in x.over
                     => jpc'[x.seen.job] \in {"dead", "error", "lost"}
               /\ x.kind = "all" => x.seen = None
    BY <2>2, <2>4, ReaderRests
  <2>5. QED
    BY <2>1, <2>3, <2>4 DEF ReaderInv
<1>3. QED
  BY StepCases, <1>1, <1>2
     DEF Request, TryAcquire, SaveQueued, StartFails, Prepare, BeginRun, MakeWorkDir,
         SaveProgress, Hang, EndSteps, SaveFinal, CrashHandler, Release, Die, Forget, DropRecord,
         readerVars, vars

-----------------------------------------------------------------------------
(* The theorems *)

(* The initial states satisfy the invariant. *)
LEMMA InitInv == Init => Inv
  BY JobsAssumption
     DEF Init, Inv, TypeOK, LockInv, DirInv, RecordInv, OwnerInv, ReaderInv, Holding,
         Ended, Active, Final

(* The inductive invariant holds in every reachable state. *)
THEOREM Invariance == Spec => []Inv
<1>1. Inv /\ [Next]_vars => Inv'
  BY TypeStep, LockStep, DirStep, RecordStep, OwnerStep, ReadersStep DEF Inv
<1>2. QED
  BY InitInv, <1>1, PTL DEF Spec

(* Every variable keeps its type. *)
THEOREM TypeCorrect == Spec => []TypeOK
  BY Invariance, PTL DEF Inv

(* At most one verification runs at a time. *)
THEOREM SingleJob == Spec => []OneJob
<1>1. Inv => OneJob
  BY DEF Inv, LockInv, OneJob
<1>2. QED
  BY Invariance, <1>1, PTL

(* The only work directory while a job works is its own. *)
THEOREM WorkDirs == Spec => []OwnWorkDirOnly
<1>1. Inv => OwnWorkDirOnly
  BY DEF Inv, DirInv, OwnWorkDirOnly
<1>2. QED
  BY Invariance, <1>1, PTL

(* A job that ended left its outcome in the store. *)
THEOREM Outcomes == Spec => []OutcomeRecorded
<1>1. Inv => OutcomeRecorded
  BY DEF Inv, RecordInv, OutcomeRecorded
<1>2. QED
  BY Invariance, <1>1, PTL

(* A final result is replaced only by another job under the lock. *)
THEOREM ResultsDurable == Spec => ResultsKept
<1> DEFINE Kept ==
      \A s \in Snapshots :
          (/\ record[s] # None /\ record[s].status \in Final
           /\ record'[s] # None /\ record'[s] # record[s])
              => exLock = record'[s].job /\ record'[s].job # record[s].job
<1>1. Inv /\ [Next]_vars => [Kept]_vars
  <2> SUFFICES ASSUME Inv, [Next]_vars, NEW s \in Snapshots,
                      record[s] # None, record[s].status \in Final,
                      record'[s] # None, record'[s] # record[s]
               PROVE  exLock = record'[s].job /\ record'[s].job # record[s].job
    OBVIOUS
  <2>1. jpc[record[s].job] \in {"release", "done", "dead"}
    BY DEF Inv, RecordInv
  <2>2. ASSUME NEW j \in Jobs, NEW st \in Active \cup Final, Save(j, st),
               jpc[j] \in Holding, jpc[j] # "release"
        PROVE  exLock = record'[s].job /\ record'[s].job # record[s].job
    <3>1. jsnap[j] \in Snapshots /\ s = jsnap[j] /\ record'[s] = [job |-> j, status |-> st]
      BY <2>2, SaveRecord DEF Inv, Holding
    <3>2. QED
      BY <2>1, <2>2, <3>1 DEF Inv, LockInv, Holding
  <2>3. ASSUME NEW j \in Jobs,
               \/ SaveQueued(j) \/ BeginRun(j) \/ SaveProgress(j)
               \/ SaveFinal(j) \/ CrashHandler(j)
        PROVE  exLock = record'[s].job /\ record'[s].job # record[s].job
    <3>1. mem[j] \in Active \cup Final
      BY DEF Inv, TypeOK
    <3>2. QED
      BY <2>2, <2>3, <3>1
         DEF SaveQueued, BeginRun, SaveProgress, SaveFinal, CrashHandler, Holding,
             Active, Final
  <2>4. ASSUME NEW j \in Jobs, Prepare(j)
        PROVE  FALSE
    BY <2>4 DEF Prepare, Inv, TypeOK
  <2>5. ASSUME NEW t \in Snapshots, DropRecord(t)
        PROVE  FALSE
    BY <2>5 DEF DropRecord, Inv, TypeOK
  <2>6. QED
    BY StepCases, ReaderFrame, <2>3, <2>4, <2>5
       DEF Request, TryAcquire, StartFails, MakeWorkDir, Hang, EndSteps, Release, Die,
           Forget, vars
<1>2. QED
  BY Invariance, <1>1, PTL DEF Spec, ResultsKept

(* "Interrupted" is only said of a job that died, or whose start or end    *)
(* fell into the request, or by a request that could not ask the lock.     *)
THEOREM InterruptedSound == Spec => InterruptedOverlaps
<1> DEFINE Sound ==
      \A r \in Readers :
          answer'[r] # answer[r] /\ answer'[r] # None /\ answer'[r].status = "interrupted"
              => LET j == answer'[r].job IN
                 \/ jpc[j] \in {"dead", "error", "lost"}
                 \/ j \notin reader[r].over /\ ~(reader[r].held = j /\ exLock = j)
                 \/ reader[r].erred
<1>1. Inv /\ [Next]_vars => [Sound]_vars
  <2> SUFFICES ASSUME Inv, [Next]_vars, NEW r \in Readers, answer'[r] # answer[r],
                      answer'[r] # None, answer'[r].status = "interrupted"
               PROVE  LET j == answer'[r].job IN
                      \/ jpc[j] \in {"dead", "error", "lost"}
                      \/ j \notin reader[r].over /\ ~(reader[r].held = j /\ exLock = j)
                      \/ reader[r].erred
    OBVIOUS
  <2> USE DEF Inv
  <2>1. PICK q \in Readers : \/ StartRead(q) \/ ReadRecord(q) \/ Probe(q)
                             \/ ProbeErrs(q) \/ Unprobe(q)
    BY StepCases
       DEF Request, TryAcquire, SaveQueued, StartFails, Prepare, BeginRun, MakeWorkDir,
           SaveProgress, Hang, EndSteps, SaveFinal, CrashHandler, Release, Die, Forget,
           DropRecord, readerVars, vars
  <2>2. ASSUME NEW rec \in Records \cup {None}, NEW b \in BOOLEAN, Reply(q, rec, b)
        PROVE  r = q /\ rec # None /\ rec.status \in Active /\ ~b /\ answer'[r].job = rec.job
    <3>1. r = q /\ answer'[r] = Finalize(rec, b)
      BY <2>2 DEF Reply, TypeOK
    <3>2. QED
      BY <2>2, <3>1 DEF Finalize, Record, Records, Active, Final
  <2>3. CASE StartRead(q)
    BY <2>3 DEF StartRead, TypeOK
  <2>4. ASSUME reader[q] # None
        PROVE  /\ reader[q] \in ReaderStates /\ reader[q].busy \in BOOLEAN
               /\ reader[q].seen \in Records \cup {None} /\ reader[q].snap \in Snapshots
    BY <2>4 DEF TypeOK, ReaderStates
  <2>5. CASE ReadRecord(q)
    <3>1. reader[q] # None /\ reader[q].pc = "read"
      BY <2>5 DEF ReadRecord, At
    <3> DEFINE rec == record[reader[q].snap]
    <3>2. rec \in Records \cup {None} /\ Reply(q, rec, reader[q].busy)
      BY <2>4, <2>5, <3>1 DEF ReadRecord, TypeOK
    <3>3. /\ r = q /\ rec # None /\ rec.status \in Active /\ ~reader[q].busy
          /\ answer'[r].job = rec.job
      BY <2>2, <2>4, <3>1, <3>2
    <3>4. reader[q].kind = "all"
      BY <2>4, <2>5, <3>1, <3>3, KindsAssumption DEF ReadRecord, ReaderStates, TypeOK
    <3>5. CASE rec.job \in Over
      BY <2>4, <3>1, <3>3, <3>5, ActiveRecord
    <3>6. CASE rec.job \notin Over
      BY <3>1, <3>2, <3>3, <3>4, <3>6, JobsAssumption DEF ReaderInv, Records
    <3>7. QED
      BY <3>5, <3>6
  <2>6. ASSUME NEW b \in BOOLEAN, reader[q] # None, Probed(q, b)
        PROVE  /\ r = q /\ ~b /\ reader[q].seen # None /\ reader[q].seen.status \in Active
               /\ answer'[r].job = reader[q].seen.job
    BY <2>2, <2>4, <2>6 DEF Probed
  <2>7. CASE Probe(q)
    BY <2>6, <2>7 DEF Probe, At
  <2>7a. CASE ProbeErrs(q)
    BY <2>7a DEF ProbeErrs
  <2>8. CASE Unprobe(q)
    <3>1. reader[q] # None /\ reader[q].pc = "unprobe" /\ Probed(q, FALSE)
      BY <2>8 DEF Unprobe, At
    <3>2. /\ r = q /\ reader[q].seen # None /\ reader[q].seen.status \in Active
          /\ answer'[r].job = reader[q].seen.job /\ reader[q].seen.job \in Jobs
      BY <2>4, <2>6, <3>1 DEF Records
    <3>3. QED
      BY <3>1, <3>2, JobsAssumption DEF ReaderInv
  <2>9. QED
    BY <2>1, <2>3, <2>5, <2>7, <2>7a, <2>8
<1>2. QED
  BY Invariance, <1>1, PTL DEF Spec, InterruptedOverlaps

-----------------------------------------------------------------------------
(* The refinement *)

(* VerificationStore implements VerificationService: taking verify.lock is *)
(* Begin, every save Write, every way out End, every removed record Drop.  *)
THEOREM Implementation == Spec => ImplementsService
<1>1. Init => Service!Init
  BY DEF Init, Service!Init, Over, Ended
<1>2. Inv /\ [Next]_vars => [Service!Next]_Service!vars
  <2> SUFFICES ASSUME Inv, [Next]_vars
               PROVE  [Service!Next]_Service!vars
    OBVIOUS
  <2> USE DEF Inv, Goto, Status, Service!Next, Service!vars
  <2>1. ASSUME NEW j \in Jobs, NEW st \in Active \cup Final, Save(j, st),
               jpc[j] \in Holding, jpc[j] # "release",
               jpc'[j] \notin Ended, \A i \in Jobs : i # j => jpc'[i] = jpc[i],
               UNCHANGED <<exLock, jsnap>>
        PROVE  [Service!Next]_Service!vars
    <3>1. record' = [record EXCEPT ![jsnap[j]] = [job |-> j, status |-> st]]
      BY <2>1 DEF Save, Record
    <3>2. exLock = j /\ jpc[j] \notin Ended /\ jsnap[j] \in Snapshots
      BY <2>1 DEF LockInv, Holding, Ended, TypeOK
    <3>3. Over' = Over
      BY <2>1, <3>2 DEF Over
    <3>4. record[jsnap[j]] # None /\ record[jsnap[j]].status \in Final
            => record[jsnap[j]].job # j
      BY <2>1, <3>2 DEF RecordInv, Holding, Ended
    <3>5. Service!Write(j)
      BY <2>1, <3>1, <3>2, <3>3, <3>4 DEF Service!Write
    <3>6. QED
      BY <3>5
  <2>2. ASSUME NEW j \in Jobs,
               \/ SaveQueued(j) \/ BeginRun(j) \/ SaveProgress(j)
               \/ SaveFinal(j) \/ CrashHandler(j)
        PROVE  [Service!Next]_Service!vars
    <3>1. mem[j] \in Active \cup Final
      BY DEF TypeOK
    <3>2. CASE record' = record
      <4>1. Over' = Over
        BY <2>2, <3>2 DEF SaveQueued, BeginRun, SaveProgress, SaveFinal, CrashHandler,
                          Over, Ended, TypeOK, jobVars
      <4>2. QED
        BY <2>2, <3>2, <4>1 DEF SaveQueued, BeginRun, SaveProgress, SaveFinal,
                                CrashHandler, jobVars
    <3>3. CASE record' # record
      <4>1. /\ jpc[j] \in {"locked", "prepared", "steps", "ending", "crashed"}
            /\ jpc'[j] \notin Ended /\ \A i \in Jobs : i # j => jpc'[i] = jpc[i]
            /\ UNCHANGED <<exLock, jsnap>>
        BY <2>2, <3>3 DEF SaveQueued, BeginRun, SaveProgress, SaveFinal, CrashHandler,
                          Ended, TypeOK, jobVars
      <4>2. \E st \in Active \cup Final : Save(j, st)
        BY <2>2, <3>1, <3>3 DEF SaveQueued, BeginRun, SaveProgress, SaveFinal,
                                CrashHandler, Active, Final
      <4>3. QED
        BY <2>1, <4>1, <4>2 DEF Holding
    <3>4. QED
      BY <3>2, <3>3
  <2>3. ASSUME NEW j \in Jobs, Request(j)
        PROVE  [Service!Next]_Service!vars
    <3>1. PICK s \in snaps : jsnap' = [jsnap EXCEPT ![j] = s]
      BY <2>3 DEF Request
    <3>2. Over' = Over /\ s \in Snapshots
      BY <2>3 DEF Request, Over, Ended, TypeOK
    <3>3. jsnap[j] = None
      BY <2>3 DEF Request, OwnerInv
    <3>4. QED
      BY <2>3, <3>1, <3>2, <3>3 DEF Request, Service!Accept
  <2>4. ASSUME NEW j \in Jobs, TryAcquire(j), exLock' = j
        PROVE  [Service!Next]_Service!vars
    <3>1. jpc[j] = "found" /\ exLock = None /\ UNCHANGED <<jsnap, record>>
      BY <2>4 DEF TryAcquire, LockInv, Holding
    <3>2. j \notin Over /\ Over' = Over
      BY <2>4, <3>1, JobsAssumption DEF TryAcquire, Over, Ended, TypeOK
    <3>3. jsnap[j] # None
      BY <3>1, SnapshotsAssumption DEF TypeOK
    <3>4. QED
      BY <2>4, <3>1, <3>2, <3>3 DEF Service!Begin
  <2>5. ASSUME NEW j \in Jobs, jpc[j] \in {"found"} \cup Holding, NEW stage \in Ended,
               Goto(j, stage), exLock' = (IF exLock = j THEN None ELSE exLock),
               UNCHANGED <<jsnap, record>>
        PROVE  [Service!Next]_Service!vars
    <3>1. j \notin Over /\ Over' = Over \cup {j}
      BY <2>5 DEF Over, Ended, Holding, TypeOK
    <3>2. jsnap[j] # None
      BY <2>5, SnapshotsAssumption DEF TypeOK, Holding
    <3>3. QED
      BY <2>5, <3>1, <3>2 DEF Service!End
  <2>6. ASSUME NEW j \in Jobs, StartFails(j) \/ Release(j) \/ Die(j)
        PROVE  [Service!Next]_Service!vars
    <3>1. jpc[j] \in Holding => exLock = j
      BY DEF LockInv
    <3>2. CASE StartFails(j)
      BY <2>5, <3>1, <3>2 DEF StartFails, Holding, Ended
    <3>3. CASE Release(j)
      BY <2>5, <3>1, <3>3 DEF Release, Holding, Ended
    <3>4. CASE Die(j)
      BY <2>5, <3>4 DEF Die, Ended
    <3>5. QED
      BY <2>6, <3>2, <3>3, <3>4
  <2>7. ASSUME NEW j \in Jobs, TryAcquire(j), exLock' # j
        PROVE  [Service!Next]_Service!vars
    <3>1. exLock # j
      BY <2>7 DEF TryAcquire
    <3>2. QED
      BY <2>5, <2>7, <3>1 DEF TryAcquire, Ended
  <2>8. ASSUME NEW gone \in SUBSET Snapshots, UNCHANGED <<exLock, jsnap, Over>>,
               record' = [s \in Snapshots |-> IF s \in gone THEN None ELSE record[s]]
        PROVE  [Service!Next]_Service!vars
    BY <2>8 DEF Service!Drop
  <2>9. ASSUME NEW j \in Jobs, Prepare(j)
        PROVE  [Service!Next]_Service!vars
    <3>1. Over' = Over
      BY <2>9 DEF Prepare, Over, Ended, TypeOK
    <3>2. QED
      BY <2>8, <2>9, <3>1 DEF Prepare
  <2>10. ASSUME NEW s \in Snapshots, DropRecord(s)
         PROVE  [Service!Next]_Service!vars
    <3>1. Over' = Over /\ UNCHANGED <<exLock, jsnap>>
      BY <2>10 DEF DropRecord, Over, jobVars
    <3>2. CASE record' = record
      BY <3>1, <3>2
    <3>3. CASE record' = [record EXCEPT ![s] = None]
      <4>1. record' = [t \in Snapshots |-> IF t \in {s} THEN None ELSE record[t]]
        BY <3>3 DEF TypeOK
      <4>2. QED
        BY <2>8, <3>1, <4>1
    <3>4. QED
      BY <2>10, <3>2, <3>3 DEF DropRecord
  <2>11. ASSUME NEW j \in Jobs, MakeWorkDir(j) \/ Hang(j) \/ EndSteps(j)
         PROVE  [Service!Next]_Service!vars
    <3>1. Over' = Over
      BY <2>11 DEF MakeWorkDir, Hang, EndSteps, Over, Ended, TypeOK
    <3>2. QED
      BY <2>11, <3>1 DEF MakeWorkDir, Hang, EndSteps
  <2>12. CASE UNCHANGED <<exLock, record, jpc, jsnap>>
    BY <2>12 DEF Over
  <2>13. QED
    BY StepCases, ReaderFrame, <2>2, <2>3, <2>4, <2>6, <2>7, <2>9, <2>10, <2>11, <2>12
       DEF Forget, jobVars, vars
<1>3. QED
  BY Invariance, <1>1, <1>2, PTL DEF Spec, ImplementsService, Service!Spec

=============================================================================
