--------------------------- MODULE VerificationStore ---------------------------
(***************************************************************************)
(* Backup verifications as the dashboard's requests see them: the latest   *)
(* record of every snapshot, the single-job lock verify.lock, the work     *)
(* directories of the jobs, and the requests that run concurrently in the  *)
(* dashboard's threads and worker processes:                               *)
(*                                                                         *)
(*   - POST verify takes verify.lock without waiting, saves a "queued"     *)
(*     record and runs the job in a thread that releases the lock;         *)
(*   - GET verify (load) and GET verifications (all) combine a record with *)
(*     a probe of verify.lock: an active record whose lock is free is      *)
(*     reported as interrupted;                                            *)
(*   - DELETE backup forgets the snapshot and drops its record.            *)
(*                                                                         *)
(* A record is replaced atomically (save), so a write is one step.  What   *)
(* the seven steps of a job do is abstracted to the job's outcome.         *)
(***************************************************************************)
EXTENDS Naturals, FiniteSets

CONSTANTS
    Jobs,        \* POST verify requests; each runs at most one job
    Readers,     \* threads answering GET verify and GET verifications
    Snapshots,   \* snapshots in the restic repositories
    ReaderKinds, \* which of "load" and "all" the readers use
    None         \* nobody / no record / no answer

ASSUME JobsAssumption == None \notin Jobs
ASSUME SnapshotsAssumption == None \notin Snapshots
ASSUME KindsAssumption == ReaderKinds \subseteq {"load", "all"}

VARIABLES
    exLock,     \* the job holding verify.lock exclusively
    shLock,     \* the readers holding it shared, for the moment of a probe
    record,     \* the latest verification record of each snapshot
    snaps,      \* the snapshots that still exist
    dropping,   \* forgotten snapshots whose record is still to be deleted
    dirs,       \* jobs whose work directory exists
    jpc,        \* where each job is
    jsnap,      \* the snapshot it verifies
    mem,        \* the status in its in-memory state
    reader,     \* where each reader is and what it has seen so far
    answer      \* what it answered last

jobVars == <<jpc, jsnap, mem>>
readerVars == <<reader, answer>>
vars == <<exLock, shLock, record, snaps, dropping, dirs, jobVars, readerVars>>

Active == {"queued", "running"}
Final == {"passed", "warning", "failed"}

(* Stages in which a job holds verify.lock. *)
Holding == {"locked", "queued", "prepared", "started", "steps", "hung", "ending",
            "crashed", "release", "abandon"}
(* Stages a job never leaves: answered 409 or 500, released with or        *)
(* without its final record on disk, or dead with its worker.              *)
Ended == {"refused", "error", "done", "lost", "dead"}

Over == {j \in Jobs : jpc[j] \in Ended}

Record(j, st) == [job |-> j, status |-> st]
Records == [job : Jobs, status : Active \cup Final]

(* A reader: its stage, the kind and snapshot of its request, the record   *)
(* it has read, what its probe of the lock said, whether that probe could  *)
(* not open the lock file, and (for the properties) the jobs that were     *)
(* over, and the one at work, when its request began.                      *)
ReaderStates ==
    [pc : {"read", "probe", "unprobe"}, kind : ReaderKinds, snap : Snapshots,
     seen : Records \cup {None}, busy : BOOLEAN, erred : BOOLEAN,
     over : SUBSET Jobs, held : Jobs \cup {None}]

TypeOK ==
    /\ exLock \in Jobs \cup {None}
    /\ shLock \in SUBSET Readers
    /\ record \in [Snapshots -> Records \cup {None}]
    /\ snaps \in SUBSET Snapshots
    /\ dropping \in SUBSET Snapshots
    /\ dirs \in SUBSET Jobs
    /\ jpc \in [Jobs -> {"idle", "found"} \cup Holding \cup Ended]
    /\ jsnap \in [Jobs -> Snapshots \cup {None}]
    /\ \A j \in Jobs : jpc[j] # "idle" => jsnap[j] \in Snapshots
    /\ mem \in [Jobs -> Active \cup Final]
    /\ reader \in [Readers -> ReaderStates \cup {None}]
    /\ answer \in [Readers ->
           [job : Jobs, status : Active \cup Final \cup {"interrupted"}] \cup {None}]

Init ==
    /\ exLock = None
    /\ shLock = {}
    /\ record = [s \in Snapshots |-> None]
    /\ snaps = Snapshots
    /\ dropping = {}
    /\ dirs = {}
    /\ jpc = [j \in Jobs |-> "idle"]
    /\ jsnap = [j \in Jobs |-> None]
    /\ mem = [j \in Jobs |-> "queued"]
    /\ reader = [r \in Readers |-> None]
    /\ answer = [r \in Readers |-> None]

-----------------------------------------------------------------------------
(* store.save: the record of the job's snapshot becomes its current state, *)
(* also when DELETE backup dropped the record in the meantime.             *)
Save(j, st) == record' = [record EXCEPT ![jsnap[j]] = Record(j, st)]

Goto(j, stage) == jpc' = [jpc EXCEPT ![j] = stage]
Status(j, st) == mem' = [mem EXCEPT ![j] = st]

-----------------------------------------------------------------------------
(* start_backup_verification *)

(* Faulty: the id is not resolved before the job starts. *)
Request_Unresolved(j) ==
    /\ jpc[j] = "idle"
    /\ Goto(j, "found")
    /\ UNCHANGED <<exLock, shLock, record, snaps, dropping, dirs, jsnap, mem, readerVars>>

(* find_snapshot resolves the id in some repository. *)
Request(j) ==
    /\ jpc[j] = "idle"
    /\ \E s \in snaps : jsnap' = [jsnap EXCEPT ![j] = s]
    /\ Goto(j, "found")
    /\ UNCHANGED <<exLock, shLock, record, snaps, dropping, dirs, mem, readerVars>>

(* Faulty: stale work directories are removed before the lock is taken. *)
TryAcquire_CleansFirst(j) ==
    /\ jpc[j] = "found"
    /\ IF exLock = None /\ shLock = {}
       THEN exLock' = j /\ Goto(j, "locked")
       ELSE exLock' = exLock /\ Goto(j, "refused")
    /\ dirs' = {}
    /\ UNCHANGED <<shLock, record, snaps, dropping, jsnap, mem, readerVars>>

(* try_acquire: LOCK_EX | LOCK_NB fails when a job holds the lock, and     *)
(* also when a reader is in the middle of its probe; a lock file that      *)
(* cannot be opened fails the request.                                     *)
TryAcquire(j) ==
    /\ jpc[j] = "found"
    /\ \/ IF exLock = None /\ shLock = {}
          THEN exLock' = j /\ Goto(j, "locked")
          ELSE exLock' = exLock /\ Goto(j, "refused")
       \/ exLock' = exLock /\ Goto(j, "error")
    /\ UNCHANGED <<shLock, record, snaps, dropping, dirs, jsnap, mem, readerVars>>

(* The new state is saved and the job thread started ... *)
SaveQueued(j) ==
    /\ jpc[j] = "locked"
    /\ Save(j, "queued")
    /\ Goto(j, "queued")
    /\ UNCHANGED <<exLock, shLock, snaps, dropping, dirs, jsnap, mem, readerVars>>

(* ... or something raised, before the save or in starting the thread: the *)
(* lock is released and the request fails.                                 *)
StartFails(j) ==
    /\ jpc[j] \in {"locked", "queued"}
    /\ exLock' = None
    /\ Goto(j, "error")
    /\ UNCHANGED <<shLock, record, snaps, dropping, dirs, jsnap, mem, readerVars>>

-----------------------------------------------------------------------------
(* run_verification_job and Verification.run *)

(* cleanup_stale_work_dirs removes every verify_ directory, prune_history  *)
(* the records not written for a year: any that the job did not just save. *)
Prepare(j) ==
    /\ jpc[j] = "queued"
    /\ dirs' = {}
    /\ \E old \in SUBSET (Snapshots \ {jsnap[j]}) :
          record' = [s \in Snapshots |-> IF s \in old THEN None ELSE record[s]]
    /\ Goto(j, "prepared")
    /\ UNCHANGED <<exLock, shLock, snaps, dropping, jsnap, mem, readerVars>>

(* Faulty: a failing first save ends the thread past its finally clause. *)
BeginRun_Escapes(j) ==
    /\ jpc[j] = "prepared"
    /\ Status(j, "running")
    /\ \/ Save(j, "running") /\ Goto(j, "started")
       \/ record' = record /\ Goto(j, "lost")
    /\ UNCHANGED <<exLock, shLock, snaps, dropping, dirs, jsnap, readerVars>>

(* run() marks the job running and saves; this save is not inside its try. *)
BeginRun(j) ==
    /\ jpc[j] = "prepared"
    /\ Status(j, "running")
    /\ \/ Save(j, "running") /\ Goto(j, "started")
       \/ record' = record /\ Goto(j, "crashed")
    /\ UNCHANGED <<exLock, shLock, snaps, dropping, dirs, jsnap, readerVars>>

(* mkdtemp, which may fail: then no step runs and the job is failed.       *)
MakeWorkDir(j) ==
    /\ jpc[j] = "started"
    /\ \/ dirs' = dirs \cup {j} /\ Goto(j, "steps") /\ mem' = mem
       \/ dirs' = dirs /\ Goto(j, "ending") /\ Status(j, "failed")
    /\ UNCHANGED <<exLock, shLock, record, snaps, dropping, jsnap, readerVars>>

(* A step starts, reports a detail or ends: the state is saved.            *)
SaveProgress(j) ==
    /\ jpc[j] = "steps"
    /\ Save(j, "running")
    /\ UNCHANGED <<exLock, shLock, snaps, dropping, dirs, jobVars, readerVars>>

(* A step never ends: the write of a dump's line to a psql that does not   *)
(* read is the one thing in the steps that nobody times.                   *)
Hang(j) ==
    /\ jpc[j] = "steps"
    /\ Goto(j, "hung")
    /\ UNCHANGED <<exLock, shLock, record, snaps, dropping, dirs, jsnap, mem, readerVars>>

(* The last step ended, or one failed: the work directory is removed and   *)
(* the job has its outcome.                                                *)
EndSteps(j) ==
    /\ jpc[j] = "steps"
    /\ dirs' = dirs \ {j}
    /\ \E st \in Final : Status(j, st)
    /\ Goto(j, "ending")
    /\ UNCHANGED <<exLock, shLock, record, snaps, dropping, jsnap, readerVars>>

(* Faulty: the lock is released first and the result saved after it. *)
SaveFinal_ReleasesFirst(j) ==
    /\ jpc[j] = "ending"
    /\ IF exLock = j
       THEN exLock' = None /\ UNCHANGED <<record, jpc>>
       ELSE exLock' = exLock /\ Save(j, mem[j]) /\ Goto(j, "done")
    /\ UNCHANGED <<shLock, snaps, dropping, dirs, jsnap, mem, readerVars>>

(* The final save of run(). *)
SaveFinal(j) ==
    /\ jpc[j] = "ending"
    /\ \/ Save(j, mem[j]) /\ Goto(j, "release")
       \/ record' = record /\ Goto(j, "crashed")
    /\ UNCHANGED <<exLock, shLock, snaps, dropping, dirs, jsnap, mem, readerVars>>

(* Faulty: the except clause logs the crash and does not save it. *)
CrashHandler_OnlyLogs(j) ==
    /\ jpc[j] = "crashed"
    /\ Status(j, "failed")
    /\ Goto(j, "release")
    /\ UNCHANGED <<exLock, shLock, record, snaps, dropping, dirs, jsnap, readerVars>>

(* The except clause of run_verification_job: save as failed, and ignore   *)
(* it when that save fails too.                                            *)
CrashHandler(j) ==
    /\ jpc[j] = "crashed"
    /\ Status(j, "failed")
    /\ \/ Save(j, "failed") /\ Goto(j, "release")
       \/ record' = record /\ Goto(j, "abandon")
    /\ UNCHANGED <<exLock, shLock, snaps, dropping, dirs, jsnap, readerVars>>

(* Its finally clause. *)
Release(j) ==
    /\ jpc[j] \in {"release", "abandon"}
    /\ exLock' = None
    /\ Goto(j, IF jpc[j] = "release" THEN "done" ELSE "lost")
    /\ UNCHANGED <<shLock, record, snaps, dropping, dirs, jsnap, mem, readerVars>>

(* The worker process dies (restart, out of memory, gunicorn timeout): the *)
(* lock goes with its descriptor, record and work directory stay.          *)
Die(j) ==
    /\ jpc[j] \in {"found"} \cup Holding
    /\ exLock' = IF exLock = j THEN None ELSE exLock
    /\ Goto(j, "dead")
    /\ UNCHANGED <<shLock, record, snaps, dropping, dirs, jsnap, mem, readerVars>>

-----------------------------------------------------------------------------
(* load and all *)

(* Faulty: an active record is taken for an orphan whoever holds the lock. *)
Finalize_IgnoresBusy(rec, isBusy) ==
    IF rec # None /\ rec.status \in Active THEN Record(rec.job, "interrupted") ELSE rec

(* _finalize_orphan: an active record whose lock is free was interrupted.  *)
Finalize(rec, isBusy) ==
    IF rec = None THEN None
    ELSE IF rec.status \in Active /\ ~isBusy THEN Record(rec.job, "interrupted")
    ELSE rec

Reply(r, rec, isBusy) ==
    /\ answer' = [answer EXCEPT ![r] = Finalize(rec, isBusy)]
    /\ reader' = [reader EXCEPT ![r] = None]

(* A GET arrives.  load reads the record and probes after it; all probes   *)
(* once and reads the records after it, of which this follows one.         *)
StartRead(r) ==
    /\ reader[r] = None
    /\ \E k \in ReaderKinds, s \in Snapshots :
          reader' = [reader EXCEPT ![r] =
              [pc |-> IF k = "load" THEN "read" ELSE "probe", kind |-> k, snap |-> s,
               seen |-> None, busy |-> FALSE, erred |-> FALSE,
               over |-> Over, held |-> exLock]]
    /\ answer' = [answer EXCEPT ![r] = None]
    /\ UNCHANGED <<exLock, shLock, record, snaps, dropping, dirs, jobVars>>

At(r, stage) == reader[r] # None /\ reader[r].pc = stage

(* Reading the record: load goes on to its probe, or answers 404; all      *)
(* applies the answer of the probe it made before.                         *)
ReadRecord(r) ==
    /\ At(r, "read")
    /\ LET rec == record[reader[r].snap] IN
       IF reader[r].kind = "load" /\ rec # None
       THEN /\ reader' = [reader EXCEPT ![r].seen = rec, ![r].pc = "probe"]
            /\ answer' = answer
       ELSE Reply(r, rec, reader[r].busy)
    /\ UNCHANGED <<exLock, shLock, record, snaps, dropping, dirs, jobVars>>

(* The probe has its answer. *)
Probed(r, isBusy) ==
    IF reader[r].kind = "load"
    THEN Reply(r, reader[r].seen, isBusy)
    ELSE /\ reader' = [reader EXCEPT ![r].busy = isBusy, ![r].pc = "read"]
         /\ answer' = answer

(* is_busy: LOCK_SH | LOCK_NB is refused while a job holds the lock; when  *)
(* granted it is held until the LOCK_UN that follows.                      *)
Probe(r) ==
    /\ At(r, "probe")
    /\ IF exLock # None
       THEN shLock' = shLock /\ Probed(r, TRUE)
       ELSE /\ shLock' = shLock \cup {r}
            /\ reader' = [reader EXCEPT ![r].pc = "unprobe"]
            /\ answer' = answer
    /\ UNCHANGED <<exLock, record, snaps, dropping, dirs, jobVars>>

(* is_busy cannot open the lock file (no descriptor left, say): it answers *)
(* "not busy" without having asked.                                        *)
ProbeErrs(r) ==
    /\ At(r, "probe")
    /\ reader' = [reader EXCEPT ![r].pc = "unprobe", ![r].erred = TRUE]
    /\ UNCHANGED <<exLock, shLock, record, snaps, dropping, dirs, jobVars, answer>>

Unprobe(r) ==
    /\ At(r, "unprobe")
    /\ shLock' = shLock \ {r}
    /\ Probed(r, FALSE)
    /\ UNCHANGED <<exLock, record, snaps, dropping, dirs, jobVars>>

-----------------------------------------------------------------------------
(* delete_backup: restic forget --prune, then the record.  The worker may  *)
(* die in between.                                                         *)

Forget(s) ==
    /\ s \in snaps
    /\ snaps' = snaps \ {s}
    /\ dropping' = dropping \cup {s}
    /\ UNCHANGED <<exLock, shLock, record, dirs, jobVars, readerVars>>

DropRecord(s) ==
    /\ s \in dropping
    /\ dropping' = dropping \ {s}
    /\ record' \in {record, [record EXCEPT ![s] = None]}
    /\ UNCHANGED <<exLock, shLock, snaps, dirs, jobVars, readerVars>>

-----------------------------------------------------------------------------

JobStep(j) ==
    \/ TryAcquire(j) \/ SaveQueued(j) \/ StartFails(j) \/ Prepare(j) \/ BeginRun(j)
    \/ MakeWorkDir(j) \/ EndSteps(j) \/ SaveFinal(j) \/ CrashHandler(j) \/ Release(j)

ReaderStep(r) == ReadRecord(r) \/ Probe(r) \/ ProbeErrs(r) \/ Unprobe(r)

Next ==
    \/ \E j \in Jobs : Request(j) \/ JobStep(j) \/ SaveProgress(j) \/ Hang(j) \/ Die(j)
    \/ \E r \in Readers : StartRead(r) \/ ReaderStep(r)
    \/ \E s \in Snapshots : Forget(s) \/ DropRecord(s)

Spec == Init /\ [][Next]_vars

(* A job's thread keeps running, and its steps end: every command they run *)
(* has a timeout, but for the one write that Hang stands for, after which  *)
(* nothing is forced; a reader finishes its request.  Requests need not    *)
(* arrive, and nobody has to die.                                          *)
FairSpec ==
    /\ Spec
    /\ \A j \in Jobs : WF_vars(JobStep(j))
    /\ \A r \in Readers : WF_vars(ReaderStep(r))

-----------------------------------------------------------------------------
(* Properties *)

(* The inductive invariant.  The lock belongs to the job that is in a      *)
(* stage that holds it ...                                                 *)
LockInv == \A j \in Jobs : jpc[j] \in Holding <=> exLock = j

(* ... a prepared job has removed every work directory and makes its own ... *)
DirInv ==
    \A j \in Jobs :
        /\ jpc[j] \in {"prepared", "started"} => dirs = {}
        /\ jpc[j] \in {"steps", "hung"} => dirs = {j}

(* ... a final record belongs to a job past its last save, and says what   *)
(* that job ended with.                                                    *)
RecordInv ==
    /\ \A s \in Snapshots : record[s] # None /\ record[s].status \in Final =>
          jpc[record[s].job] \in {"release", "done", "dead"}
    /\ \A j \in Jobs :
          /\ jpc[j] = "ending" => mem[j] \in Final
          /\ jpc[j] \in {"release", "done"} =>
                /\ mem[j] \in Final
                /\ record[jsnap[j]] # None /\ record[jsnap[j]].job = j
                      => record[jsnap[j]].status = mem[j]

(* ... a record is about the snapshot its job was accepted for, and only   *)
(* jobs that got the lock have any ...                                     *)
OwnerInv ==
    /\ \A s \in Snapshots : record[s] # None =>
          /\ jsnap[record[s].job] = s
          /\ jpc[record[s].job] \notin {"idle", "found", "locked", "refused"}
    /\ \A j \in Jobs : jpc[j] = "idle" => jsnap[j] = None

(* ... and a reader keeps every job out while it holds the shared lock;    *)
(* what it remembers of a job that was over or at work stays true.         *)
ReaderInv ==
    \A r \in Readers : reader[r] # None =>
        LET x == reader[r] IN
        /\ x.over \subseteq Over
        /\ x.held # None => x.held = exLock \/ x.held \in Over
        /\ x.pc = "unprobe" /\ ~x.erred => r \in shLock /\ exLock = None
        /\ x.pc = "read" /\ x.kind = "all" /\ ~x.busy /\ ~x.erred /\ x.held # None
              => x.held \in Over
        /\ x.seen # None /\ x.seen.status \in Active /\ x.seen.job \in x.over
              => jpc[x.seen.job] \in {"dead", "error", "lost"}
        /\ x.kind = "all" => x.seen = None

Inv == TypeOK /\ LockInv /\ DirInv /\ RecordInv /\ OwnerInv /\ ReaderInv

(* At most one verification runs at a time, whatever dies                  *)
(* (verification.py:84, 96-105).                                           *)
OneJob == \A i, j \in Jobs : jpc[i] \in Holding /\ jpc[j] \in Holding => i = j

(* While a job works, the only work directory is its own: no other job     *)
(* removed it, and those of dead jobs are gone (verification.py:734-746).  *)
OwnWorkDirOnly == \A j \in Jobs : jpc[j] \in {"steps", "hung"} => dirs = {j}

(* A job that ended in the normal way left its outcome in the store,       *)
(* unless a later job or a deletion replaced the record                    *)
(* (verification.py:719-731, app.py:1101-1109).                            *)
OutcomeRecorded ==
    \A j \in Jobs : jpc[j] = "done" =>
        LET rec == record[jsnap[j]] IN
        rec # None /\ rec.job = j => rec.status = mem[j] /\ mem[j] \in Final

(* A final result is only ever replaced by another job that holds the lock *)
(* at that moment: no job writes after it let go, so an older verification *)
(* never hides a newer one (verification.py:128-144, app.py:1108-1109).    *)
ResultsKept ==
    [][\A s \in Snapshots :
          (/\ record[s] # None /\ record[s].status \in Final
           /\ record'[s] # None /\ record'[s] # record[s])
              => exLock = record'[s].job /\ record'[s].job # record[s].job]_vars

(* The store keeps the promise of VerificationService: one job works at a  *)
(* time, whatever dies; only the job that holds verify.lock saves, about   *)
(* its own snapshot and nothing after its result, so an older verification *)
(* never hides a newer one (verification.py:84-144, app.py:1101-1147).     *)
Service == INSTANCE VerificationService
    WITH Reports <- Active, Results <- Final,
         about <- jsnap, working <- exLock, over <- Over, latest <- record

ImplementsService == Service!Spec

(* verify.lock is released again and again: no failing save, refused start *)
(* or dying worker leaves verifications locked out (app.py:1101-1109,      *)
(* 1145-1147).  Only a step that hangs for ever does, in the untimed write *)
(* to psql (postgres_verify.py:399).                                       *)
VerifyLockReleased == []<>(exLock = None) \/ <>[](\E j \in Jobs : jpc[j] = "hung")

(* "A job marked active while nobody holds the lock died with its worker"  *)
(* (verification.py:155), as far as a record and a probe that are not read *)
(* together can tell: an answer "interrupted" is about a job that died,    *)
(* never started or could not save its result, or that took or released    *)
(* the lock while the request was being answered.  A job that works all    *)
(* the while, or was over before, is never called interrupted, unless the  *)
(* request could not open the lock file, which is_busy takes for a free    *)
(* lock (verification.py:115-118): see WorkingNotInterrupted.              *)
InterruptedOverlaps ==
    [][\A r \in Readers :
          answer'[r] # answer[r] /\ answer'[r] # None /\ answer'[r].status = "interrupted"
              => LET j == answer'[r].job IN
                 \/ jpc[j] \in {"dead", "error", "lost"}
                 \/ j \notin reader[r].over /\ ~(reader[r].held = j /\ exLock = j)
                 \/ reader[r].erred]_vars

(* The same without the exception: the job that worked throughout the      *)
(* request, whose lock file could not be opened, "died with its worker".   *)
WorkingNotInterrupted ==
    [][\A r \in Readers :
          answer'[r] # answer[r] /\ answer'[r] # None /\ answer'[r].status = "interrupted"
              => ~(reader[r].held = answer'[r].job /\ exLock = answer'[r].job)]_vars

(* A job whose dashboard restarted is reported as interrupted              *)
(* (docs/API.md:835): an answer never calls a job active that was over     *)
(* before the request began.                                               *)
DeadIsInterrupted ==
    [][\A r \in Readers :
          answer'[r] # answer[r] /\ answer'[r] # None /\ answer'[r].status \in Active
              => answer'[r].job \notin reader[r].over]_vars

(* "Another backup verification is already running" (app.py:1127): a       *)
(* request is refused only while a job holds verify.lock.                  *)
RefusalHonest ==
    [][\A j \in Jobs : jpc[j] = "found" /\ jpc'[j] = "refused" => exLock # None]_vars

=============================================================================
