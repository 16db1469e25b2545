------------------------------ MODULE BackupLock ------------------------------
(***************************************************************************)
(* The global backup lock.  Three kinds of process take an exclusive flock *)
(* on $BACKUP_BASE/backup.lock:                                            *)
(*                                                                         *)
(*   - backup-all.sh, run once per profile by backup-profile-batch.sh      *)
(*     (a legacy or a single manual backup is a batch of one);             *)
(*   - the restore step of a verification, in a dashboard worker, through  *)
(*     the context manager backup_lock of app.py;                          *)
(*   - every dashboard request that asks whether a backup is running:      *)
(*     app_backup_state probes the lock by taking it for an instant.       *)
(*                                                                         *)
(* Whoever does real work under the lock publishes itself in backup.state. *)
(* A file that is being written parses as JSON only when it is complete    *)
(* and a reader treats a half-written one like a missing one, so writing   *)
(* it is one step.                                                         *)
(***************************************************************************)
EXTENDS Naturals

CONSTANTS
    Batches,     \* instances of backup-profile-batch.sh
    Verifiers,   \* dashboard threads running a verification's restore step
    Probes,      \* dashboard threads running app_backup_state
    NProfiles,   \* profiles in one batch
    MaxFaults,   \* bound on kills, container stops and failing file operations
    None,        \* the lock is free / backup.state does not exist
    Orphan       \* a child of a killed backup-all.sh that inherited fd 9

ASSUME ProfilesAssumption == NProfiles \in Nat \ {0}
ASSUME FaultsAssumption == MaxFaults \in Nat
ASSUME ProcessesAssumption ==
    /\ Batches \cap Verifiers = {} /\ Batches \cap Probes = {}
    /\ Verifiers \cap Probes = {}  /\ None # Orphan
    /\ {None, Orphan} \cap (Batches \cup Verifiers \cup Probes) = {}

VARIABLES
    lock,    \* who holds the flock on backup.lock
    state,   \* who backup.state names
    pc,      \* where each batch is: its own state, or its backup-all.sh's
    cur,     \* the profile the batch is working on
    rc,      \* exit status the running backup-all.sh is heading for
    result,  \* outcome of each profile of the batch
    status,  \* the exit status backup-profile-batch.sh accumulates
    vpc,     \* where each verification thread is in backup_lock
    ppc,     \* where each probing thread is in app_backup_state
    strays,  \* verifications whose worker was killed alone while its
             \* `restic restore' ran, and that child still runs: no lock is its
    faults   \* how many processes were killed, and clean-ups failed, so far

scriptVars == <<pc, cur, rc, result, status>>
vars == <<lock, state, scriptVars, vpc, ppc, strays, faults>>

Workers == Batches \cup Verifiers
Profiles == 1..NProfiles
Outcomes == {"none", "ok", "failed"}

(* Stages of a batch in which its backup-all.sh has locked fd 9.           *)
ScriptHolds == {"locked", "trapped", "running", "cleanup", "exiting", "unremoved"}
(* Stages of a verification in which backup_lock has locked its fd.        *)
VerifierHolds == {"locked", "failed", "restoring", "unlocking", "unremoved"}

TypeOK ==
    /\ lock \in Workers \cup Probes \cup {None, Orphan}
    /\ state \in Workers \cup {None}
    /\ pc \in [Batches -> {"idle", "start", "wait", "done"} \cup ScriptHolds]
    /\ cur \in [Batches -> Profiles]
    /\ rc \in [Batches -> {"ok", "failed"}]
    /\ result \in [Batches -> [Profiles -> Outcomes]]
    /\ status \in [Batches -> {0, 1}]
    /\ vpc \in [Verifiers -> {"idle", "polling"} \cup VerifierHolds]
    /\ ppc \in [Probes -> {"idle", "probing", "busy"}]
    /\ strays \in SUBSET Verifiers
    /\ faults \in 0..MaxFaults

Init ==
    /\ lock = None
    /\ state = None
    /\ pc = [b \in Batches |-> "idle"]
    /\ cur = [b \in Batches |-> 1]
    /\ rc = [b \in Batches |-> "ok"]
    /\ result = [b \in Batches |-> [i \in Profiles |-> "none"]]
    /\ status = [b \in Batches |-> 0]
    /\ vpc = [v \in Verifiers |-> "idle"]
    /\ ppc = [p \in Probes |-> "idle"]
    /\ strays = {}
    /\ faults = 0

-----------------------------------------------------------------------------
(* backup-profile-batch.sh *)

(* Faulty: the batch's exit status is that of its last profile. *)
Advance_LastStatus(b, r) ==
    /\ result' = [result EXCEPT ![b][cur[b]] = r]
    /\ status' = [status EXCEPT ![b] = IF r = "ok" THEN 0 ELSE 1]
    /\ IF cur[b] < NProfiles
       THEN cur' = [cur EXCEPT ![b] = @ + 1] /\ pc' = [pc EXCEPT ![b] = "start"]
       ELSE cur' = cur /\ pc' = [pc EXCEPT ![b] = "done"]
    /\ rc' = [rc EXCEPT ![b] = "ok"]

(* Faulty: the loop runs once more than there are profiles. *)
Advance_PastEnd(b, r) ==
    /\ result' = [result EXCEPT ![b][cur[b]] = r]
    /\ status' = [status EXCEPT ![b] = IF r = "ok" THEN @ ELSE 1]
    /\ cur' = [cur EXCEPT ![b] = @ + 1]
    /\ pc' = [pc EXCEPT ![b] = IF cur[b] <= NProfiles THEN "start" ELSE "done"]
    /\ rc' = [rc EXCEPT ![b] = "ok"]

(* A script ended with outcome r: note a failure and go on with the next   *)
(* profile whatever the outcome was.                                       *)
Advance(b, r) ==
    /\ result' = [result EXCEPT ![b][cur[b]] = r]
    /\ status' = [status EXCEPT ![b] = IF r = "ok" THEN @ ELSE 1]
    /\ IF cur[b] < NProfiles
       THEN cur' = [cur EXCEPT ![b] = @ + 1] /\ pc' = [pc EXCEPT ![b] = "start"]
       ELSE cur' = cur /\ pc' = [pc EXCEPT ![b] = "done"]
    /\ rc' = [rc EXCEPT ![b] = "ok"]

(* cron or POST /api/backup starts the batch. *)
Launch(b) ==
    /\ pc[b] \in {"idle", "done"}
    /\ pc' = [pc EXCEPT ![b] = "start"]
    /\ cur' = [cur EXCEPT ![b] = 1]
    /\ result' = [result EXCEPT ![b] = [i \in Profiles |-> "none"]]
    /\ status' = [status EXCEPT ![b] = 0]
    /\ UNCHANGED <<lock, state, rc, vpc, ppc, strays, faults>>

-----------------------------------------------------------------------------
(* backup-all.sh *)

(* flock -n 9 succeeds, or fails and the script queues in flock -w. *)
TryLock(b) ==
    /\ pc[b] = "start"
    /\ IF lock = None
       THEN lock' = b /\ pc' = [pc EXCEPT ![b] = "locked"]
       ELSE lock' = lock /\ pc' = [pc EXCEPT ![b] = "wait"]
    /\ UNCHANGED <<state, cur, rc, result, status, vpc, ppc, strays, faults>>

(* flock -w returns with the lock. *)
AcquireQueued(b) ==
    /\ pc[b] = "wait"
    /\ lock = None
    /\ lock' = b
    /\ pc' = [pc EXCEPT ![b] = "locked"]
    /\ UNCHANGED <<state, cur, rc, result, status, vpc, ppc, strays, faults>>

(* Faulty: a job that timed out is tried again, without a limit. *)
TimeOut_Retries(b) ==
    /\ pc[b] = "wait"
    /\ pc' = [pc EXCEPT ![b] = "start"]
    /\ UNCHANGED <<lock, state, cur, rc, result, status, vpc, ppc, strays, faults>>

(* The script fails before it asks for the lock: no lock file, a wait that *)
(* is no number.                                                           *)
NoLock(b) ==
    /\ pc[b] = "start"
    /\ Advance(b, "failed")
    /\ UNCHANGED <<lock, state, vpc, ppc, strays, faults>>

(* flock -w gives up: exit 75, with no EXIT trap installed yet. *)
TimeOut(b) ==
    /\ pc[b] = "wait"
    /\ Advance(b, "failed")
    /\ UNCHANGED <<lock, state, vpc, ppc, strays, faults>>

(* mktemp -d makes the temporary directory, and the EXIT trap is set.      *)
InstallTrap(b) ==
    /\ pc[b] = "locked"
    /\ pc' = [pc EXCEPT ![b] = "trapped"]
    /\ UNCHANGED <<lock, state, cur, rc, result, status, vpc, ppc, strays, faults>>

(* mktemp -d fails: set -e ends the script with no trap to remove the file *)
(* that a dead predecessor left.                                           *)
NoTempDir(b) ==
    /\ faults < MaxFaults
    /\ pc[b] = "locked"
    /\ lock' = None
    /\ Advance(b, "failed")
    /\ faults' = faults + 1
    /\ UNCHANGED <<state, vpc, ppc, strays>>

(* write_backup_state, once the repository answered (profile mode). *)
PublishState(b) ==
    /\ pc[b] = "trapped"
    /\ state' = b
    /\ pc' = [pc EXCEPT ![b] = "running"]
    /\ UNCHANGED <<lock, cur, rc, result, status, vpc, ppc, strays, faults>>

(* A write of backup.state that fails never opened it, or truncated it.    *)
FailedWrite == {state, None}

(* The script ends: before it published itself, by an error or because its *)
(* profile is disabled, or after the backup and its retention ran to the   *)
(* end or stopped at the first failing command.                            *)
Finish(b) ==
    /\ pc[b] \in {"trapped", "running"}
    /\ \E r \in {"ok", "failed"} :
          /\ rc' = [rc EXCEPT ![b] = r]
          /\ state' \in IF pc[b] = "trapped" /\ r = "failed" THEN FailedWrite ELSE {state}
    /\ pc' = [pc EXCEPT ![b] = "cleanup"]
    /\ UNCHANGED <<lock, cur, result, status, vpc, ppc, strays, faults>>

(* The EXIT trap removes backup.state while fd 9 is still locked. *)
Cleanup(b) ==
    /\ pc[b] = "cleanup"
    /\ state' = None
    /\ pc' = [pc EXCEPT ![b] = "exiting"]
    /\ UNCHANGED <<lock, cur, rc, result, status, vpc, ppc, strays, faults>>

(* An rm of the trap fails: under set -e the trap stops there, backup.state *)
(* may stay, and the exit status is rm's.                                  *)
CleanupFails(b) ==
    /\ faults < MaxFaults
    /\ pc[b] = "cleanup"
    /\ rc' = [rc EXCEPT ![b] = "failed"]
    /\ pc' = [pc EXCEPT ![b] = "unremoved"]
    /\ faults' = faults + 1
    /\ UNCHANGED <<lock, state, cur, result, status, vpc, ppc, strays>>

(* The process is gone and its descriptor with it. *)
Exit(b) ==
    /\ pc[b] \in {"exiting", "unremoved"}
    /\ lock' = None
    /\ Advance(b, rc[b])
    /\ UNCHANGED <<state, vpc, ppc, strays, faults>>

(* SIGKILL of backup-all.sh under the lock: no trap runs, or no further.   *)
(* A child that was running (restic, a dump, rsync, the trap's rm) keeps   *)
(* fd 9, and with it the flock.                                            *)
KillScript(b) ==
    /\ faults < MaxFaults
    /\ pc[b] \in ScriptHolds
    /\ lock' \in IF pc[b] = "unremoved" THEN {None} ELSE {None, Orphan}
    /\ Advance(b, "failed")
    /\ faults' = faults + 1
    /\ UNCHANGED <<state, vpc, ppc, strays>>

(* The child of a killed script ends. *)
OrphanExits ==
    /\ lock = Orphan
    /\ lock' = None
    /\ UNCHANGED <<state, scriptVars, vpc, ppc, strays, faults>>

(* A container stops: the batches that cron or the dashboard started in it *)
(* die, with their scripts and children; backup.state stays on the volume. *)
StopContainer ==
    /\ faults < MaxFaults
    /\ \E gone \in SUBSET Batches :
          /\ pc' = [b \in Batches |-> IF b \in gone THEN "idle" ELSE pc[b]]
          /\ cur' = [b \in Batches |-> IF b \in gone THEN 1 ELSE cur[b]]
          /\ rc' = [b \in Batches |-> IF b \in gone THEN "ok" ELSE rc[b]]
          /\ result' = [b \in Batches |->
                IF b \in gone THEN [i \in Profiles |-> "none"] ELSE result[b]]
          /\ status' = [b \in Batches |-> IF b \in gone THEN 0 ELSE status[b]]
          /\ lock' \in IF lock \in gone THEN {None}
                       ELSE IF lock = Orphan THEN {None, Orphan} ELSE {lock}
    /\ faults' = faults + 1
    /\ UNCHANGED <<state, vpc, ppc, strays>>

-----------------------------------------------------------------------------
(* backup_lock, around the restore step of a verification *)

StartRestore(v) ==
    /\ vpc[v] = "idle"
    /\ vpc' = [vpc EXCEPT ![v] = "polling"]
    /\ UNCHANGED <<lock, state, scriptVars, ppc, strays, faults>>

(* One turn of the loop finds the lock free. *)
PollLocks(v) ==
    /\ vpc[v] = "polling"
    /\ lock = None
    /\ lock' = v
    /\ vpc' = [vpc EXCEPT ![v] = "locked"]
    /\ UNCHANGED <<state, scriptVars, ppc, strays, faults>>

(* One turn finds it busy after the deadline: TimeoutError.  A busy turn   *)
(* before the deadline sleeps and changes nothing.                         *)
PollTimesOut(v) ==
    /\ vpc[v] = "polling"
    /\ lock # None
    /\ vpc' = [vpc EXCEPT ![v] = "idle"]
    /\ UNCHANGED <<lock, state, scriptVars, ppc, strays, faults>>

(* The state file is written and the body of the with statement runs ...  *)
PublishVerify(v) ==
    /\ vpc[v] = "locked"
    /\ state' = v
    /\ vpc' = [vpc EXCEPT ![v] = "restoring"]
    /\ UNCHANGED <<lock, scriptVars, ppc, strays, faults>>

(* Faulty: the state file is written before the try block. *)
PublishVerifyFails_Leaks(v) ==
    /\ vpc[v] = "locked"
    /\ state' \in FailedWrite
    /\ vpc' = [vpc EXCEPT ![v] = "idle"]
    /\ UNCHANGED <<lock, scriptVars, ppc, strays, faults>>

(* ... or writing it raises, and the finally clause is next. *)
PublishVerifyFails(v) ==
    /\ vpc[v] = "locked"
    /\ state' \in FailedWrite
    /\ vpc' = [vpc EXCEPT ![v] = "failed"]
    /\ UNCHANGED <<lock, scriptVars, ppc, strays, faults>>

(* Faulty: the descriptor is closed before the state file is removed. *)
UnlinkState_ClosesFirst(v) ==
    /\ vpc[v] \in {"restoring", "failed"}
    /\ lock' = None
    /\ vpc' = [vpc EXCEPT ![v] = "unlocking"]
    /\ UNCHANGED <<state, scriptVars, ppc, strays, faults>>

(* finally unlinks the state file, whether the restore returned or raised, *)
UnlinkState(v) ==
    /\ vpc[v] \in {"restoring", "failed"}
    /\ state' = None
    /\ vpc' = [vpc EXCEPT ![v] = "unlocking"]
    /\ UNCHANGED <<lock, scriptVars, ppc, strays, faults>>

(* ignoring that the file cannot be removed (except OSError),              *)
UnlinkFails(v) ==
    /\ faults < MaxFaults
    /\ vpc[v] \in {"restoring", "failed"}
    /\ vpc' = [vpc EXCEPT ![v] = "unremoved"]
    /\ faults' = faults + 1
    /\ UNCHANGED <<lock, state, scriptVars, ppc, strays>>

(* and closes the descriptor. *)
CloseLock(v) ==
    /\ vpc[v] \in {"unlocking", "unremoved"}
    /\ lock' = None
    /\ vpc' = [vpc EXCEPT ![v] = "idle"]
    /\ UNCHANGED <<state, scriptVars, ppc, strays, faults>>

(* The worker process dies alone: the lock goes (its children do not       *)
(* inherit descriptors from Python), backup.state stays, and so does the   *)
(* `restic restore' it was waiting for, unless that had ended.             *)
KillWorker(v) ==
    /\ faults < MaxFaults
    /\ vpc[v] # "idle"
    /\ lock' = IF vpc[v] \in VerifierHolds THEN None ELSE lock
    /\ strays' \in IF vpc[v] = "restoring" THEN {strays, strays \cup {v}} ELSE {strays}
    /\ vpc' = [vpc EXCEPT ![v] = "idle"]
    /\ faults' = faults + 1
    /\ UNCHANGED <<state, scriptVars, ppc>>

(* The restore of a dead worker ends, or its container does. *)
StrayEnds(v) ==
    /\ v \in strays
    /\ strays' = strays \ {v}
    /\ UNCHANGED <<lock, state, scriptVars, vpc, ppc, faults>>

-----------------------------------------------------------------------------
(* app_backup_state *)

(* LOCK_EX | LOCK_NB: taken when free (to be released at once, the answer  *)
(* is "not running"), refused when anybody holds it ("running").           *)
Probe(p) ==
    /\ ppc[p] = "idle"
    /\ IF lock = None
       THEN lock' = p /\ ppc' = [ppc EXCEPT ![p] = "probing"]
       ELSE lock' = lock /\ ppc' = [ppc EXCEPT ![p] = "busy"]
    /\ UNCHANGED <<state, scriptVars, vpc, strays, faults>>

ProbeUnlocks(p) ==
    /\ ppc[p] = "probing"
    /\ lock' = None
    /\ ppc' = [ppc EXCEPT ![p] = "idle"]
    /\ UNCHANGED <<state, scriptVars, vpc, strays, faults>>

(* The refused probe reads backup.state and answers with what it says. *)
ProbeReadsState(p) ==
    /\ ppc[p] = "busy"
    /\ ppc' = [ppc EXCEPT ![p] = "idle"]
    /\ UNCHANGED <<lock, state, scriptVars, vpc, strays, faults>>

-----------------------------------------------------------------------------

ScriptStep(b) ==
    \/ TryLock(b) \/ NoLock(b) \/ AcquireQueued(b) \/ TimeOut(b) \/ InstallTrap(b)
    \/ PublishState(b) \/ Finish(b) \/ Cleanup(b) \/ Exit(b)

ScriptFault(b) == NoTempDir(b) \/ CleanupFails(b) \/ KillScript(b)

VerifierStep(v) ==
    \/ PollLocks(v) \/ PollTimesOut(v) \/ PublishVerify(v)
    \/ PublishVerifyFails(v) \/ UnlinkState(v) \/ CloseLock(v)

VerifierFault(v) == UnlinkFails(v) \/ KillWorker(v)

Next ==
    \/ \E b \in Batches : Launch(b) \/ ScriptStep(b) \/ ScriptFault(b)
    \/ OrphanExits
    \/ StopContainer
    \/ \E v \in Verifiers :
          StartRestore(v) \/ VerifierStep(v) \/ VerifierFault(v) \/ StrayEnds(v)
    \/ \E p \in Probes : Probe(p) \/ ProbeUnlocks(p) \/ ProbeReadsState(p)

Spec == Init /\ [][Next]_vars

(* Processes that run keep running: every command a script starts ends,    *)
(* flock -w and the polling loop have a finite timeout (so a waiting job   *)
(* gets the lock or gives up), and a request finishes its probe.  Nobody   *)
(* has to launch, probe or be killed, nothing has to fail, and the restore *)
(* of a dead worker, which nobody times any more, need not end.            *)
Fairness ==
    /\ \A b \in Batches : WF_vars(ScriptStep(b))
    /\ \A v \in Verifiers : WF_vars(VerifierStep(v))
    /\ \A p \in Probes : WF_vars(ProbeUnlocks(p) \/ ProbeReadsState(p))
    /\ WF_vars(OrphanExits)

FairSpec == Spec /\ Fairness

-----------------------------------------------------------------------------
(* Properties *)

(* The inductive invariant.  A process is in a stage that holds the lock   *)
(* exactly when the lock says so ...                                       *)
LockInv ==
    /\ \A b \in Batches : pc[b] \in ScriptHolds <=> lock = b
    /\ \A v \in Verifiers : vpc[v] \in VerifierHolds <=> lock = v
    /\ \A p \in Probes : ppc[p] = "probing" <=> lock = p

(* The jobs that tried to remove backup.state and could not. *)
CouldNotRemove ==
    {b \in Batches : pc[b] = "unremoved"} \cup {v \in Verifiers : vpc[v] = "unremoved"}

(* ... no state file is left once its owner could remove it and is about   *)
(* to let go, and without a fault there are neither a file nor a restore   *)
(* of processes that are gone ...                                          *)
StateInv ==
    /\ \A b \in Batches : pc[b] = "exiting" => state = None
    /\ \A v \in Verifiers : vpc[v] = "unlocking" => state = None
    /\ faults = 0 => strays = {} /\ CouldNotRemove = {} /\ state \in {None, lock}

(* ... and a batch has outcomes for exactly the profiles behind it.        *)
BatchInv ==
    \A b \in Batches :
        /\ \A i \in Profiles : result[b][i] = "none" <=> pc[b] # "done" /\ i >= cur[b]
        /\ status[b] = 0 <=> \A i \in Profiles : result[b][i] # "failed"
        /\ pc[b] = "done" => cur[b] = NProfiles

Inv == TypeOK /\ LockInv /\ StateInv /\ BatchInv

(* Who may be running restic under the lock on behalf of a backup, a prune *)
(* or a verification's restore right now.  The strays are beside it.       *)
RepositoryUsers ==
    {b \in Batches : pc[b] \in {"locked", "trapped", "running"}}
        \cup {v \in Verifiers : vpc[v] = "restoring"}
        \cup {x \in {Orphan} : lock = x}

(* The lock's users and its notice as RepositoryAccess sees them.  A probe *)
(* holds the lock for an instant and uses nothing, and a job that failed   *)
(* to remove its file does nothing any more but end.                       *)
LockUsers ==
    {b \in Batches : pc[b] \in ScriptHolds \ {"unremoved"}}
        \cup {v \in Verifiers : vpc[v] \in VerifierHolds \ {"unremoved"}}
        \cup {x \in {Orphan} : lock = x}

Access == INSTANCE RepositoryAccess
    WITH Restorers <- Verifiers, Survivor <- Orphan, Nobody <- None,
         users <- LockUsers, notice <- state, mishaps <- faults

(* backup.lock and backup.state keep what they can promise, through every  *)
(* timeout, failing write and kill: one user of the repositories comes in  *)
(* at a time, also when a killed script leaves a running child behind;     *)
(* backup.state is written and removed by that user alone; and whoever     *)
(* leaves without a fault has removed it, a dead predecessor's too.  What  *)
(* the lock cannot do is in the specification as well: the restore of a    *)
(* worker that was killed alone runs on beside the next user, and only     *)
(* such a restore does (backup-all.sh:80-101, app.py:275-315).             *)
ImplementsAccess == Access!Spec

(* Backups, prunes and verification restores under the lock exclude one    *)
(* another, even when a timed-out job gives up while another one works or  *)
(* a killed script leaves a running child behind; and as long as nothing   *)
(* was killed nobody uses a repository beside them (backup-all.sh:80-88,   *)
(* app.py:275).  After a kill a stray may: see RestoreExcludesBackups.     *)
OneRepositoryUser ==
    /\ \A x, y \in RepositoryUsers : x = y
    /\ faults = 0 => strays = {}

(* What "Hold the global backup lock so scheduled backups/prunes queue     *)
(* behind us" (app.py:276) would mean for a restore whose worker is killed *)
(* alone: no backup or prune works while it runs.  It is not so: the lock  *)
(* is the worker's, the restore is not.                                    *)
RestoreExcludesBackups == strays # {} => RepositoryUsers = {}

(* As long as there was no fault (a kill, a temporary directory that could *)
(* not be made, a file that could not be removed), backup.state exists     *)
(* only while the process it names holds the lock: no exit path leaves it  *)
(* behind and no job removes or inherits another one's                     *)
(* (backup-all.sh:90-101, app.py:301-315).                                 *)
StateNamesHolder == faults = 0 /\ state # None => lock = state

(* A batch that ended has tried every profile, and its exit status is 0    *)
(* exactly when all of them succeeded, whichever timed out, failed or were *)
(* killed on the way (backup-profile-batch.sh:11-23).                      *)
BatchReportsFailures ==
    \A b \in Batches : pc[b] = "done" =>
        /\ \A i \in Profiles : result[b][i] # "none"
        /\ status[b] = 0 <=> \A i \in Profiles : result[b][i] = "ok"

(* Only the process that holds the lock writes or removes backup.state; a  *)
(* job that gave up waiting and a probe never touch it.                    *)
StateOnlyByHolder ==
    [][state' # state =>
          /\ lock \in Workers
          /\ state' \in {None, lock}]_vars

(* A state file left by a killed process does not outlive the next job,    *)
(* unless a fault strikes that one too: a job that releases the lock has   *)
(* removed the file, also when it failed before publishing itself, or it   *)
(* could not, or it is killed or ends for want of a temporary directory in *)
(* this very step (backup-all.sh:99-101, app.py:309-315).                  *)
ReleasedClean ==
    [][(lock \in Workers \ CouldNotRemove /\ lock' = None /\ faults' = faults)
           => state = None]_vars

(* Nobody keeps the lock for ever. *)
LockReleased == []<>(lock = None)

(* A batch that was started comes to its end however busy the lock is. *)
BatchEnds ==
    \A b \in Batches : pc[b] \notin {"idle", "done"} ~> pc[b] \in {"idle", "done"}

(* "Check whether a backup is currently running" (app.py:838): a refused   *)
(* probe means that a job holds the lock.                                  *)
StatusTruthful ==
    [][\A p \in Probes : ppc[p] = "idle" /\ ppc'[p] = "busy" => lock \notin Probes]_vars

(* backup.state "explain[s] why the lock is busy" (app.py:279-280): what a *)
(* refused probe reads while a job holds the lock names that job.          *)
StateExplainsLock ==
    [][\A p \in Probes :
          ppc[p] = "busy" /\ ppc'[p] = "idle" /\ lock \in Workers /\ state # None
              => state = lock]_vars

=============================================================================
