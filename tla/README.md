# Backupstic in TLA+

Backupstic backs up databases and directories into restic repositories, on a schedule or on demand,
and lets a user verify a backup by actually restoring it. It is a Flask dashboard with an API, a
cron container, a monitoring loop, a scratch PostgreSQL server and a set of shell scripts, which
share one volume (`BACKUP_BASE`) and talk to each other through files, flocks and exit statuses.

This directory has a model of each part in which order matters: who may do what while somebody else
is in the middle of something, and what is left when one of them fails or is killed. TLC checks the
models on small instances, and TLAPS proves the safety properties for every value of the constants.

Paths below are relative to the repository; `app.py` is `frontend/app.py`, `verification.py` and its
neighbours are in `backend/`, the scripts in `scripts/`.

## 1. Inventory

### Who runs

| process | started by | what of it matters here |
|---|---|---|
| dashboard | gunicorn, 2 worker processes of 4 threads, `--timeout 300` (`docker-compose.yml:30-45`) | eight requests at a time, in two processes: nothing in memory protects them from each other. Triggered batches and verifications are children or threads of a worker |
| backup-cron | `restart: unless-stopped`; runs `sync-schedules.py`, then `crond` (`docker-compose.yml:55-73`) | runs `backup-profile-batch.sh` per schedule |
| backup-monitor | loop (`docker-compose.yml:75-85`) | reports |
| verify-postgres | PostgreSQL server | the scratch server of the test restores; it outlives workers, so what a run leaves on it is still there in the next |

### What they share

| state | written by | protected by |
|---|---|---|
| `backup.lock` (flock) | `backup-all.sh`, `backup_lock` (`app.py:275`), the probe of `app_backup_state` (`app.py:184`) | itself |
| `backup.state` | the holder of `backup.lock` | `backup.lock`, by convention |
| `verify.lock` (flock) | the thread of a verification; shared by GETs for the moment of a probe | itself |
| `verifications/<snapshot>.json` | the job; deleted with the backup | atomic replacement, `verify.lock` by convention |
| `verify_*` work directories | the job; swept by the next one | `verify.lock` by convention |
| `verify-postgres-roles.json`, databases and roles on the scratch server | `PostgresRestoreTester` | `verify.lock` by convention |
| `profiles.json`, `restic_repositories.json` | the dashboard's handlers | a flock per operation, atomic replacement |
| `schedules.cron` | handlers that changed a profile, `sync-schedules.py`, `POST /api/schedule` | `schedules.cron.lock`, atomic replacement |
| staging directories, the restic repositories | `backup-all.sh` under `backup.lock`; deletion of a backup without it | `backup.lock`; restic's own locks |
| `manual_backup.log`, `.1`, `.2`, ... | `run-with-rotating-log.py` | a flock per write |

### Components

For each: its state, its operations, how it interacts, what is hard, and what makes it correct.

1. **Backup lock** (`backup-all.sh:80-101`, `backup-profile-batch.sh`, `app.py:184-315`).
   *State*: the flock and `backup.state`. *Operations*: take it at once, queue for it with a timeout
   (`flock -w`, or a polling loop in Python), publish, clean up, release; probe it. *Hard*: the three
   kinds of user are written in two languages with different clean-up mechanisms (EXIT trap and
   `finally`); a script killed with SIGKILL leaves its children with the locked descriptor; a job
   that times out must leave no trace. *Correct* when repository users exclude one another, the
   state file belongs to the holder, everybody who starts ends, and a batch reports failures.
2. **Verification records** (`verification.py:84-213`, `app.py:1077-1167`, `app.py:956-967`).
   *State*: the latest record per snapshot, `verify.lock`. *Operations*: POST verify, the job's
   saves, the two GETs, deletion of a backup, pruning. *Hard*: a GET combines two reads that are not
   atomic; a thread releases a lock its request took; every save can fail; workers die. *Correct*
   when one job runs at a time, only the current job replaces results, a result is not lost, and
   answers tell the truth as far as two reads can.
3. **Verification pipeline** (`verification.py:469-731`). *State*: seven steps, the verdict, the
   copies in the work directory, what was found of each archive. *Hard*: a step may raise, a save between
   steps may fail; failures and warnings of many files become one verdict; disk space is asked for once. *Correct* when the verdict is no better than the steps, and the space suffices.
4. **PostgreSQL test restore** (`postgres_verify.py`). *State*: databases and roles on the scratch
   server, the list of roles on file, a psql process per segment of a dump. *Hard*: leftovers of dead
   runs, somebody else's roles, statements that time out with unknown effect, a line-by-line state
   machine that splits, holds back, filters and rewrites. *Correct* when a dump is replayed in
   databases of its own, every segment in a different one, nothing foreign is dropped and everything
   of its own is eventually dropped.
5. **Profiles, repositories and schedules** (`profiles.py`, `schedules.py`, `app.py:559-745`,
   `app.py:1194-1255`, `sync-schedules.py`). *Hard*: each storage call is atomic, a handler is not;
   three files are related; secrets are sealed with a key that two containers take from their environments,
   and a request that names no secret merges an old one in. *Correct* when the cron file follows the profiles, nothing deleted comes
   back, no update is lost, references stay valid, and what is stored is sealed and valid.
6. **Profile runs and retention** (`backup-all.sh:103-300`). *State*: snapshots, staging
   directories. *Hard*: four `restic forget` commands with different selections and groupings over
   snapshots of many runs, profiles and edits between them; kills. *Correct* when no retention removes
   a profile's newest snapshot, keeps to its bound, a snapshot has fresh files only, and the dashboard
   shows it as its profile's.
7. **Legacy modes** (`backup-all.sh`): runs for all services without a profile.
8. **Dump scripts** (`postgresql.sh`, `mongodb.sh`, ...): one external tool each.
9. **Manual backup log** (`run-with-rotating-log.py`). *State*: the current file and the numbered ones
   before it. *Operations*: trim and remove what other settings left, rotate, append. *Hard*: several
   wrappers at a time, and a rotation is a sequence of renames that a crash can end anywhere. *Correct*
   when the files keep within number and size, and only the oldest output is lost.
10. **restic lock recovery and snapshot deletion** (`app.py:164-273`, `app.py:956-975`,
    `backup-all.sh:54-66`). *State*: restic's lock files in the repository, who runs which command.
    *Operations*: run a command, ask whether a backup runs, unlock, run it again; a batch's check of the
    repository. *Hard*: the question and the unlock are two steps, and deletions take no `backup.lock`;
    killed commands leave locks, in containers that cannot tell whether the other's process lives.
    *Correct* when a prune is alone in the repository and no dead lock keeps a request out.
11. **Dashboard API and authentication** (`app.py`, `auth.py`): stateless.
12. **Dashboard client** (`static/index.html`).
13. **Monitoring and restore tools** (`monitor.sh`, `restore.sh`, `init.sh`).
14. **Deployment** (`docker-compose.yml`).

`PROJECT.json` has the same list with what is modelled of each, and the list of hazards: each at its
line, with the properties that cover it or the reason why none does.

## 2. Modules

Each component module has the state, one action per operation, the specification, and the properties;
`MC<module>` adds the symmetry for TLC, and `<module>_proofs` has the theorems. Definitions named
`X_Fault` ("Faulty: ...") are variants of the operation `X` with a plausible bug; nothing uses them in
a specification. They document what each property is able to notice: with `X_Fault` in the place of
`X`, the property is violated.

| module | models | state | atomicity |
|---|---|---|---|
| `RepositoryAccess` | what component 1 promises | who uses the repositories, whom the notice names | entering, publishing, leaving |
| `BackupLock` | components 1 and 14 | `lock`, `state` (who `backup.state` names), a stage per batch, verifier and probe, the results and exit status of a batch, the restores whose worker is dead | each flock call, each write or removal of the state file, each end of a process |
| `VerificationService` | what component 2 promises | the job at work, the jobs that are over, the latest record of each snapshot | a save, a beginning, an end |
| `VerificationStore` | component 2 | `exLock`/`shLock` (exclusive and shared `verify.lock`), `record`, `dirs`, a stage per job, what each reader has seen | each save, lock call and read |
| `ArchiveInspection` | what component 3 finds of one file of a backup | none: operators on the kind and state of a file | |
| `VerificationRun` | component 3 and the server side of 4 | the steps, the copies, what the archives showed, the server's databases and roles, the tester's lists, the list on file | each statement, each save, each file operation; opening and writing the list of roles are two steps |
| `DumpReplay` | the line-by-line part of 4 | what `split_dump` and `_SegmentRunner` keep between two lines | one line of the dump |
| `ProfileSchedules` | component 5, but for secrets | the three files, the cron lock, what each request has in hand | each storage call; reading and replacing the cron file are two steps under its lock |
| `StoredSecrets` | the secrets of component 5 | the records of both files with the seal of each secret, the containers' keys, the update each request has in hand | each storage call, each opening of a file |
| `ResticLocks` | component 10, over what 1 and 6 do to a repository | `backup.lock`, the locks in the repository, a stage and a running command per request and batch | each restic command's start and end, each probe and unlock |
| `RotatingLog` | component 9 | the numbered files as sequences of bytes, what each wrapper still has to do | each removal, renaming, trim and append |
| `ProfileRuns` | components 6 and 7, the attribution of snapshots in listings | profiles, snapshots, staging directories, the run that holds the lock | each command of `backup-all.sh` |

How state and actions correspond to the code (every definition's lines are in `PROJECT.json`, "map"):

- **BackupLock.** `TryLock`, `AcquireQueued` and `TimeOut` are `flock -n`, and the two ends of
  `flock -w` (`backup-all.sh:80-88`); `InstallTrap` and `NoTempDir` the two ends of `mktemp -d`, before
  which no EXIT trap is set; `PublishState`, `Finish`, `Cleanup` (or `CleanupFails`), `Exit` the way from
  `write_backup_state` through the trap; `Advance` one turn of the loop of
  `backup-profile-batch.sh`. `PollLocks` to `CloseLock` are the context manager `backup_lock`, with
  its failing write and its failing unlink (`UnlinkFails`). `Probe` is `app_backup_state`, which takes the
  lock exclusively to see whether it could. `KillScript` may leave an `Orphan`: bash lets children inherit
  descriptor 9, and a running restic or dump keeps the flock. Python closes its descriptors in
  children: after `KillWorker` the lock is free and the `restic restore` of the dead worker may run on, a
  member of `strays`. `StopContainer` ends everything inside; the volume, and `backup.state` on it, stays.
- **VerificationStore.** `Request` to `StartFails` are `start_backup_verification`; `Prepare` to
  `Release` `run_verification_job` around `Verification.run`, whose saves each may fail, and whose steps
  end unless psql stops reading (`Hang`). A reader of
  kind `load` reads the record and then probes; one of kind `all` probes and then reads
  (`verification.py:165-190`). `ProbeErrs` is `is_busy` when the lock file cannot be opened: it answers
  that nothing runs (`verification.py:115-118`).
- **VerificationRun.** `BeginStep`/`EndStep`/`BreakStep` are `_step`, with its saves; `Makes` and
  `Frees` are the directories each step writes and removes. `Inspect` reads one archive of any kind and
  state, with what `ArchiveInspection!Inspected` says of it; `EndArchives` is the step's summary. From `StartPostgres` on it is
  `PostgresRestoreTester`: leftover databases and roles, then per dump the refusal or the listing of
  the roles, the replay, and the clean-up. `ServerProblem` may leave a database that a timed-out
  `CREATE DATABASE` made after all. `Hang` is a psql that stops reading its standard input.
  `OtherMakesRole` and `OtherDropsRole` are other users of the server, at any time.
- **DumpReplay.** `Read` is the line state of `split_dump`; `Enter`, `Filter`, `Buffer`,
  `StartGlobals`, `Start` and `Write` are the branches of `_SegmentRunner.feed`. A line is the set of
  regular expressions it matches. The reference (`SegmentOf`, `DbOf`, `EncodingOf`, `Wanted`, `AsMeant`)
  says what a dump means as a whole, by quantifying over its lines, with none of the runner's state.
  The specification is called `ReplaySpec`, and its parts likewise, so that one module can extend it
  together with `VerificationRun`, of whose replay it is the detail.
- **ProfileSchedules.** `Start...` is a handler's read (`StartUpdate` with any merge, of any fields), the action named after the storage call its
  write, `SyncRead` and `SyncWrite` are `sync_profile_schedules_from_loader`. `Abort` ends a request
  anywhere: a call raises or the worker dies.
- **ProfileRuns.** One run from `Begin` (profile read under the lock) to `Finish`, `Fail` or `Kill`.
  `restic forget` is what it keeps of which group: `KeepLast`, `KeepPolicy`, `ForgetByTags`. Restic
  itself is external and modelled from the flags the script passes.
- **StoredSecrets.** `Open` is the constructor of a storage (creation, default repository, migration),
  `StartUpdate` the read, merge and validation of an update, `Update` its storage call. A value is a text
  and its seal. Strings are sealed and nothing else: `NonStrings` are the numbers and other JSON that
  validation lets pass as a secret and `_encrypt` stores as they are. `Decrypt` gives the empty string for a foreign key, as the code does.
- **ResticLocks.** `Run` to `Done` are `run_restic_command_with_stale_lock_retry` with the probe inside
  it (`LockError`, `Probe` or `ProbeErrs`, `Unlock`); `RunStage` to `StageDone` the commands of
  `backup-all.sh` in their order (`Following`), with those whose failure is ignored (`Tolerated`); `StartCommand`, `EndCommand`, `KillCommand` and `Age` are restic, modelled from the commands the
  code runs and the two ways in which `restic unlock` finds a lock stale.
- **RotatingLog.** `Open` to `Opened` are `_normalise_existing_logs`, a trim in its two halves;
  `Read` is a turn of `main`'s loop with the truncation of `write`; `Rotate` is one removal or
  renaming of `_rotate`, the highest number first. A byte is its number in the order of the writes,
  so a gap, a repetition or a change of order is visible.

### Abstractions that matter

- Time is only in the days of `ProfileRuns`. A timeout may fire whenever its wait is on. Prune after a
  year (`prune_history`) removes any record other than the one just saved.
- A torn `backup.state` is as good as none: readers treat a parse error as a missing file.
- Names, passwords, digests and error messages are not spelled out: an outcome that depends on
  them is nondeterministic. A "name" in `ProfileRuns` is the pair of a profile's name and type.
- In `VerificationRun` psql dies with its worker, as when the container stops. A worker killed alone
  leaves a psql that reads what is still in its pipe. Others drop only
  roles of their own.
- A worker's death in `ProfileSchedules` and an exception are the same step (`Abort`).
- The wrappers of `RotatingLog` run with the same limits. Different ones were in force when the files
  it finds were written.
- Validation is in `StoredSecrets` as far as secrets go. Elsewhere it is done before the first action: the
  inputs are valid ones. A user's secret that itself begins with the seal's prefix `enc:v1:`, which the
  code takes for sealed, is left out. Of each field there is a set of texts that may be entered
  (`Entered`), any set in the proofs.
- In `VerificationStore` `rmtree` of a stale work directory succeeds (the code ignores its errors), and
  the restic of a worker that was killed alone, which may still write to that directory, is not shown. A record
  that cannot be read is answered like one that is not there.
- In `RotatingLog` a chunk is what is written of it: what `write` cuts off a chunk that is longer than a
  file (`run-with-rotating-log.py:83-84`, only with a limit below 64 KiB) has no numbers, and
  `OnlyOldestLost` and `LatestBytesKept` say nothing of it.
- A file in `ArchiveInspection` has one defect at most. What the code does not look at (JSON inside a
  compressed file, a plain `.sql` without the header of pg_dump) passes, as in the code.
- `ResticLocks` has one repository, and `restic` finds its own host's dead locks at once.

## 3. What the runs check

Bounds are constants of the modules, named in their declarations (`Max...`); the sets of actors are
the other bound.

| run | instance | what it shows |
|---|---|---|
| `lock` | 2 batches of 2 profiles, 1 verifier, 2 probes, 2 faults (kills, failing clean-ups), with fairness | `backup.lock` and `backup.state` implement `RepositoryAccess`; the batch's report; everything ends |
| `verify` | 2 jobs, 1 reader of either kind, 1 snapshot, with fairness | the store implements `VerificationService`; the job's directory, its outcome, the lock; who is called interrupted |
| `schedules` | 2 requests of any kind, 1 profile id, 2 repositories, a restart of cron, with fairness | cron file and profiles agree, no resurrection, the cron lock |
| `stored_secrets` | 2 requests, 1 profile, the default repository, 3 types, a password that is a string, a number, blank, null or absent, 2 keys, 1 deployment | strings among secrets are sealed, updates leave valid records and keep what was left blank |
| `runs_safety` | 2 profiles, 2 hosts, 2 runs, 2 days, 1 kill | the retention, the attribution of the newest snapshot and the staging directories |
| `runs_by_name` | 2 profiles of one name, 3 runs | departure 2 |
| `verification_run` | 2 runs over any archives with up to 2 dumps of 2 databases, 2 roles that others make and drop too, 1 death, with fairness | space, verdict, leftovers, roles, termination |
| `dump_replay` | every dump of at most 5 lines, 2 encodings | the replay against its reference |
| `dump_data` | every dump of at most 4 lines | departure 3 |
| `log` | 3 wrappers, files of at most 3 bytes, 0 to 2 old ones, 5 chunks, 1 kill; any files from before with numbers up to 3 and sizes 2 and 4 | the bounds of the log, and what it keeps |
| `restic_locks` | 2 requests, a batch in each of 2 containers, 2 kills | prunes are alone, the unlock under `backup.lock` meets no backup, a request alone is served |
| `restic_stale` | 1 request, 1 batch, 1 kill | departure 1 |

Two runs check a refinement: the abstract specification is a PROPERTY, through an INSTANCE in the
component's module that says what its state is in the terms of the promise.

- `BackupLock!ImplementsAccess`: the users of `RepositoryAccess` are the scripts, verifications and
  children that hold the lock, in a stage that holds it, but for a job that failed to remove its file and
  does nothing more than end; its notice is whom `backup.state` names. A probe, which
  holds the flock for an instant, is nobody there: its steps are stutters. One step of the abstract
  specification cannot admit a second user under the lock, change the notice from outside or, without a
  mishap, leave with one up. Its `Mishap` says what a kill can do: leave the notice, leave a survivor with
  the lock, or a restore without it.
- `VerificationStore!ImplementsService`: the job at work is the holder of the exclusive `verify.lock`, the
  latest record of a snapshot is its file. Failing saves, readers and their shared locks are stutters.

Why the bounds are enough. *lock*: the interesting cases need a holder, one who queues and times out,
and a third that takes the lock meanwhile; two batches, a verifier and an orphan are four. With two
profiles a batch has an outcome behind and one before it; the second fault can hit what follows the
first, as a `mktemp` that fails where a dead script's `backup.state` still lies. *verify*: a result of a first job, a second job that replaces it, a reader between them, and a
deletion; the safety properties are about pairs of jobs and one snapshot, and proved for any number.
*schedules*: a lost or stale rebuild takes two writers, and the resurrection a deleter and an updater;
the start-up script is a third rebuild. One id makes the step from the first profile to none, where the
file changes its kind; both safety properties are proved for any number of ids. *stored_secrets*: a merge
goes wrong between two updates of one record; a type without a secret and one that needs it are all that
validation tells apart, and of the other fields one string is all that `Entered` has; a record of each file, since each has its own migration. Proved for any types of the
code, ids, secrets and keys. *runs_safety*: retention
properties relate a snapshot of before the run, that of the run, and one from before the id tags
existed, which the initial state may have; max_backups of 0 takes the global policy, 1 the tightest
retention. *verification_run*: the second run finds what the first left; two databases and two roles
so that some are dropped and some not, and one belongs to somebody else while the other is a dump's; an
archive may be any of the 90 that the inspection tells apart,
and any number of them are read. *dump_replay*: five lines hold a header, a held-back line, a
statement, a second header and a statement of the second segment; what is reset between segments
needs no more. *log*: five chunks fill three files of three bytes and rotate once more; a file of 4 bytes is
too long and number 3 too high. *restic_locks*: a lock that an unlock takes away wrongly needs its owner, the
request that unlocks and a third command that profits; a fourth actor and a second kill leave the dead locks
of both containers beside them.

Five runs (`stored_secrets`, `runs_safety`, `runs_by_name`, `log`, `restic_locks`) use symmetry
(`Symmetric` in their MC modules); none of them checks liveness. Deadlock checking is
off where the system stops: after `MaxRuns` verifications, at the end of a dump and when all wrappers have ended.

### Fairness

- `BackupLock!FairSpec`: a process that can take its next step takes one. Scripts run on; `flock -w`
  and the polling loop have finite timeouts, which is why a waiting job's disjunction of "got it" and
  "gave up" is always enabled, and weak fairness is enough: nobody is promised the lock. Nobody has
  to launch, to probe, to be killed or to fail. An orphan ends: it is a restic or a dump that ends. That a
  stray does is not assumed: nobody waits for it.
- `VerificationStore!FairSpec`: the job's thread and the readers run on. The progress saves are not
  forced, and a step ends, since each restic or tar command has a timeout, unless it is the replay and
  psql stops reading: `Hang` may happen, nothing fair leads out of it, and `VerifyLockReleased` says that
  the lock becomes free again and again or a job hangs for ever.
- `ProfileSchedules!FairSpec`: requests and the start-up script run on; `flock` on the cron file waits
  without a limit, but its holders only read and write a file.
- `VerificationRun!FairSpec`: the job's thread runs on, in whatever way (`WF_vars(Work)`). What psql
  does is the server's affair: `Hang` is not fair and excluded in the property, because the code has no
  timeout at that place (see below). Nothing is assumed of the other users of the server (`Others`).

## 4. What is proved

Eight modules have proofs: `BackupLock_proofs`, `VerificationStore_proofs`, `ProfileSchedules_proofs`,
`StoredSecrets_proofs`, `ProfileRuns_proofs`, `VerificationRun_proofs`, `ResticLocks_proofs`,
`RotatingLog_proofs`. The proofs of `DumpReplay` are the second part of `VerificationRun_proofs`, which
extends both. They assume what the component modules' named ASSUMEs
say and no more: sets of processes are disjoint, the "nobody" value is none of them, bounds are
numbers. There may be any number of processes, profiles, snapshots and files, and a dump may have any
number of lines.

The argument is the same in each: the properties are not inductive, so the module has an invariant that is
(`Inv` or `IInv`, a conjunction of named parts), which holds initially, is kept by every action (one
step of the proof each), and implies the properties.

- **BackupLock**: `LockInv` ties stages to the lock in both directions. Exclusion under the lock follows
  from it, and only from it; without a fault there is no stray either. `StateInv` adds that the file is
  gone at the moment before release, by trap and by `finally`, or could not be removed, which is a fault;
  `BatchInv` that a batch has outcomes for exactly the profiles behind it. `Implementation`
  shows that every step is a step of `RepositoryAccess` or a stutter; `Exclusion`, `StateOwnership`,
  `StateWriters` and `CleanRelease` state its consequences in the component's own terms: one user of the
  repositories under the lock, none beside it while nothing was killed; the file is gone at every release but
  that of a job which could not remove it, was killed or had no temporary directory. Also
  `BatchReport`, `TypeCorrect`.
- **VerificationStore**: `LockInv`; `DirInv` (after the sweep there is no directory, so the job's is
  the only one); `RecordInv` (a final record belongs to a job past its last save: without it a job
  could still overwrite a newer result); `OwnerInv` (a record is about its job's snapshot); `ReaderInv`
  (what a reader remembers of a job that was over or at work stays true).
  `InterruptedSound` is about every answer but one whose probe could not open the lock file. Theorems `Implementation` (of
  `VerificationService`), `InterruptedSound`, `SingleJob`, `WorkDirs`, `Outcomes`, `ResultsDurable`,
  `TypeCorrect`.
- **ProfileSchedules**: `CronInv` is the point: whenever a rebuild is not lost and none is due, either
  nobody has the cron lock and the file is right, or whoever has it has read what is stored now.
  It is inductive because a change of the profiles always makes the changer's own rebuild due. Theorems
  `CronReconciled`, `DeletedStaysDeleted`, `TypeCorrect`.
- **StoredSecrets**: `StoreInv` (seals are on strings only), `HandInv` (an update holds the valid merge of
  what it read, for a record that can still become it), `OneKey` (without a deployment every seal can be
  opened). `StillValid` holds because an update stores every field it validated over the record, and what
  it leaves absent the type family forbids. `StoredSealed` says that every string among the secrets is sealed
  once; other JSON values are not (see below). Theorems `StoredSealed`, `UpdatesStayValid`, `BlankIsKept`,
  `TypeCorrect`.
- **ProfileRuns**: `LatestInv` (the last snapshot of a profile is newer than all others of it, in
  whatever group a retention puts it), `StageInv`. That the newest of a group is kept needs no
  cardinalities beyond that of the empty set. That at most `max_backups` are kept does: since every
  snapshot has a time of its own (`TimesInv`), the number of later ones in its group tells the snapshots
  that are kept apart, and it is below `max_backups`. Theorems `RetentionKeepsLatest`, `RetentionBounds`,
  `SnapshotsAreFresh`, `NothingLeftStaged`, `TypeCorrect`.
- **VerificationRun**: `StepsInv` and `CopiesInv` (between two steps the directory holds exactly
  `After[n]`), `FlawInv` (a broken archive leads to a failed step), `DbsInv` (names on the server carry a
  number of this or an earlier run), `RolesInv` (what a dump made is on file
  until it is dropped, or on the lists of the clean-up that rewrites the file). `ForeignRolesKept` is about the
  steps: one that puts a name on the lists of Backupstic names nobody else's role, and a role that
  Backupstic drops has its name on them. Theorems
  `DiskSpaceSuffices`, `Verdict`, `ServerCleanBeforeReplay`, `ForeignRolesKept`, `RolesOnFile`,
  `TypeCorrect`.
- **ResticLocks**: `HoldInv` (a running command has its lock in the repository, and `backup.lock` belongs to
  whoever's stage says so) is what unlocks cannot break, since they remove dead locks only; `AloneInv` says
  what may be left beside a request that is alone. Theorems `PruneExclusive`, `LockProves`, `AloneServed`,
  `TypeCorrect`.
- **RotatingLog**: `LockInv`; `NormaliseInv` (what a wrapper has not yet to put in order is in order);
  `RotateInv` (a rotation ends with the current file, after which any chunk fits). The bound is not inductive
  without them: a killed wrapper leaves the files anywhere between two renames. A second, stronger
  invariant is about what is in the files: `OrderInv` (the bytes ascend from the highest number to the
  current file, and those after some byte are all there), for which `GapInv` (a rotation moves files to
  free numbers only, so it changes no order) and `WrittenInv` (once there is output, every file is in
  order and none of it is trimmed away) are needed; `KeepInv` (a rotation is only made for a chunk that does
  not fit: between the removal of the oldest and the append, the files it has moved and that chunk are
  more than a file may hold). Theorems `Bounded`, `InOrder`, `LatestKept`, `TypeCorrect`.
- **DumpReplay**: `SplitInv` (the segment and the COPY state of `split_dump` are those of the reference),
  `RunnerInv` (a segment that holds a statement has its psql, in its own database; of one that does not
  yet, exactly its lines are held back, in order, and the encoding is the one they name), `ScratchInv`
  (the scratch databases are those of the segments that hold a statement, each with its encoding). The
  proof is about one more line: it changes nothing of what the reference says of the lines before
  (`DataKept` to `EncodingKept`), but for one thing: with a segment's first statement all its held lines
  become wanted, and they are given at that moment. Theorems `NeverInAnotherDatabase`, `ReplayTypeCorrect`.

TLC checked each property on the instances above before it was proved.

`IInv` of `RotatingLog_proofs`, `ProfileRuns!IInv` and `DumpReplay!ReplayInv` were
checked by TLC on the same instances before their steps were proved.

**Only model-checked**: liveness (`LockReleased`, `BatchEnds`, `VerifyLockReleased`,
`CronLockReleased`, `RunsEndUnlessHung`), which the prover does not do. Every other property of a
passing run is a theorem.

## 5. Where the code departs from what it says

Three runs expect a violation: what a comment or the documentation says, and TLC shows the code not
doing.

1. `restic_stale` (`backup-all.sh:59`): the branch that would run `restic unlock` is conditioned on a pipeline
   whose status, under `pipefail`, is that of the failing `restic snapshots`. It is never entered, `restic init`
   fails on the existing repository, and every batch fails until somebody unlocks it.
2. `runs_by_name` (`backup-all.sh:264`): the "best-effort cleanup" by name and type also removes tagged
   snapshots of other profiles with that name and type.
3. `dump_data` (`postgres_verify.py:370`): rows of a COPY are filtered and rewritten like statements.

The modules state more promises that the code does not keep. They are definitions of the modules, no
run checks them, and TLC violates each on the instances above (`LegacyExcluded` with
no `Fallback`):

- `BackupLock!StatusTruthful`: the status probe takes `backup.lock` exclusively (`app.py:194`), so two
  requests at a time can report a running backup, and a starting `backup-all.sh` queues, when there
  is none.
- `BackupLock!StateExplainsLock`: after a kill, and until the next holder has published itself, a
  busy lock is explained by a dead job's `backup.state` (`app.py:198`). The file also stays behind a trap or
  `finally` that cannot remove it (`backup-all.sh:101`, `app.py:311-314`), and a dead predecessor's behind a
  script whose `mktemp` fails before the trap is set (`backup-all.sh:99`): `StateNamesHolder` is proved
  without such faults only.
- `BackupLock!RestoreExcludesBackups` (`app.py:276`): a worker that is killed alone while its verification
  restores frees `backup.lock`, since Python's children inherit no descriptors, and the `restic restore` it
  waited for runs on beside the next backup and its prune (`app.py:164-172`, `543`). Nothing but restic's own
  locks is between them.
- `VerificationStore!WorkingNotInterrupted`: when the lock file cannot be opened, `is_busy` answers that
  nothing runs (`verification.py:115-118`), and a job that works all the while is reported as interrupted.
- `VerificationStore!InterruptedOverlaps` allows what both GETs do (`verification.py:168`, `184`): one reads the
  record and then probes the lock, the other probes and then reads, so a job that ends, or starts, in
  between is reported as interrupted, although the comment (`verification.py:155`) takes it for dead.
- `VerificationStore!DeadIsInterrupted` (`docs/API.md:835`): the record of a dead job is reported as
  running for as long as another job holds the lock (`verification.py:156`).
- `VerificationStore!RefusalHonest`: a POST that meets a GET's probe is answered 409 although nothing
  runs (`verification.py:120`).
- `ProfileSchedules!OtherFieldsKept` (`app.py:635`): a partial update writes back every field it read, so of two
  updates of different fields one is lost.
- `StoredSecrets!EverySecretSealed` (`docs/API.md:119-121`): a secret that is a JSON number, or any other value
  that is true and no string, passes validation (`profiles.py:230`, `525`), is stored as it is
  (`profiles.py:39`), and no migration finds it (`profiles.py:80`).
- `StoredSecrets!SecretsOutliveKeys` (`docs/SETUP.md:16`, `profiles.py:51`): what cannot be unsealed reads as
  the empty string, and the next update or schedule of the record stores that: the secret is lost even if the
  key comes back.
- `ProfileSchedules!ReferencedReposKept` (`app.py:743`): a repository is checked and deleted under
  different locks.
- `ProfileSchedules!LegacyExcluded` (`app.py:1219`): likewise for the check that there is no profile.
  A legacy entry is also lost when the cron container restarts, whose script rebuilds the file from
  profiles and `BACKUP_CRON`.
- `ProfileRuns!AtMostMax` (`backup-all.sh:261`): `--group-by tags` puts the snapshots from before a
  rename into a group of their own, which keeps `max_backups` of its own for ever, against
  `backup-all.sh:255-256`.
- `ProfileRuns!KeptByGlobalRetention` (`backup-all.sh:282`): a run without `max_backups` applies the
  global policy to every profile's snapshots, against `docs/API.md:330`.
- `ProfileRuns!DisabledSkipped` (`backup-all.sh:136`): jq's `.enabled // true` is true for false, so the
  check of line 148 never fires, and a profile disabled after its batch was started still runs.
- `ProfileRuns!LatestShown` (`app.py:365-394`): the list cut to max_backups counts snapshots that were attributed
  by name; a newer one of a deleted profile with the same name and type takes the place of the profile's own.
- `VerificationRun!RolesRecoverable` (`postgres_verify.py:221`): the list of roles is truncated and then
  written; a worker that dies in between loses it.
- `VerificationRun!ForeignNeverDropped` (`postgres_verify.py:225`): roles are dropped by name, from a list
  written before they are made and from the file of a run that died (`postgres_verify.py:187-191`, `201-207`).
  A role that somebody else makes under such a name after the check is dropped with them.
- `VerificationRun!BrokenStepReported` (`verification.py:512`): the save of a step's start is outside
  its `try`; if it fails, the run is failed and no step is.
- `VerificationRun!RunsEnd` (`postgres_verify.py:399`): writing to psql has no timeout, against
  `docs/API.md:856`. `RunsEndUnlessHung` is the property that holds.

- `RotatingLog!NoTemporaryLeft` (`run-with-rotating-log.py:20`): a wrapper killed while it trims leaves
  `manual_backup.log.trim.<pid>`, which no later one looks for.

Without a property: a batch that meets another command's exclusive lock at its first command fails instead of waiting
(`backup-all.sh:54-66`; the dashboard's deletions take no `backup.lock`, `app.py:963`); a wrapper that cannot write the log ends, and the backup it runs with it, of SIGPIPE at its
next line of output (`run-with-rotating-log.py:136`); a plain dump made with `pg_dump -C` keeps its ALTER, COMMENT and GRANT ON DATABASE
lines as they are, since the name is known only in cluster dumps (`postgres_verify.py:400`); roles that
Backupstic itself could not drop count as foreign objects, and later cluster dumps are then refused
(`postgres_verify.py:231`); a worker that is killed alone leaves a psql that executes what is still in its
pipe, beside the next run's clean-up (`postgres_verify.py:307`); the sweep of stale work directories ignores errors
(`app.py:1080`), and a restic whose worker was killed alone may write on in the directory it removes.

## 6. What is not modelled

- The dump scripts and the monitoring and restore tools: sequences of external commands without
  shared state, one step of `ProfileRuns` where they are part of a run.
- The dashboard client, request parsing, authentication (tokens are stateless).
- Validation and normalisation of the fields that are no secrets, the SSH check of a profile, URLs, the
  statistics of a restore and the classification of psql's messages by their text.
- How the formats of archives are read: `ArchiveInspection` starts from what their structure shows.
- The composition of `RotatingLog` with `BackupLock`: that a wrapper's end costs the backup its output is
  reported above.

## 7. Plan

Done, in this order, the most important first: `BackupLock` (everything else relies on it),
`VerificationStore`, `ProfileSchedules`, `ProfileRuns`, `VerificationRun`, `DumpReplay`,
`RotatingLog`; then the promises `RepositoryAccess` and `VerificationService` with their refinements,
`ResticLocks`, `StoredSecrets`, `ArchiveInspection`; the proofs of every safety property of a passing
run.

Next:

1. A register of schedules with one copy, implemented by `ProfileSchedules`: whenever no rebuild is
   due, cron reads what the last request stored.
2. `VerificationStore` refined by `VerificationRun`, one job in detail.
3. A composition of `ProfileSchedules` and `ProfileRuns`: a profile changed while its batch waits.

## 8. Running it

    tlc -workers 2 -config BackupLock_all.cfg MCBackupLock
    tlapm BackupLock_proofs.tla

and likewise for the other runs: `PROJECT.json`, "runs", has the module and the configuration of each.
