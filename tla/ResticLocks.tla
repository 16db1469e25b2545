----------------------------- MODULE ResticLocks -----------------------------
(***************************************************************************)
(* Who runs restic on one repository, and how the dashboard recovers from  *)
(* the locks that killed restic processes leave in it.                     *)
(*                                                                         *)
(*   - A dashboard request runs one command after another, each through    *)
(*     run_restic_command_with_stale_lock_retry: refused by a restic lock, *)
(*     it asks whether a backup runs (a probe of backup.lock), then runs   *)
(*     restic unlock and the command once more.  Only a verification's     *)
(*     restore holds backup.lock itself and asks nobody.                   *)
(*   - backup-all.sh runs its commands under backup.lock, in the container *)
(*     of the dashboard or in that of cron.                                *)
(*                                                                         *)
(* restic itself is modelled from how the code uses it: snapshots, ls,     *)
(* restore and backup lock the repository for sharing, forget --prune for  *)
(* itself alone; a killed command leaves its lock; unlock removes the      *)
(* locks of dead processes of its own host and those not refreshed for     *)
(* half an hour.                                                           *)
(***************************************************************************)
EXTENDS Naturals

CONSTANTS
    Requests,   \* dashboard threads that use restic
    Local,      \* batches started by the dashboard, in its container
    Cron,       \* batches started by cron, in the other container
    MaxKills,   \* bound on killed processes and timeouts
    None        \* nobody

Batches == Local \cup Cron
Actors == Requests \cup Batches

ASSUME KillsAssumption == MaxKills \in Nat
ASSUME ActorsAssumption ==
    /\ Requests \cap Batches = {} /\ Local \cap Cron = {}
    /\ None \notin Actors

VARIABLES
    flock,   \* who holds backup.lock: a batch or a child of it, a restore, a probe
    pc,      \* where each request and batch is
    kind,    \* what each request is about to do with restic
    cmd,     \* the lock mode of the restic command each one runs, if any
    files,   \* those whose running command has its lock in the repository
    dead,    \* the locks that killed commands left behind
    alone,   \* the request that has had the repository to itself (history)
    kills    \* how many commands and processes were killed so far

vars == <<flock, pc, kind, cmd, files, dead, alone, kills>>

Kinds == {"list", "find", "forget", "restore"}
Modes == {"none", "shared", "exclusive"}

(* The restic commands of backup-all.sh: the check of the repository, the  *)
(* backup, the retention by id or by days, that by name, looking for the   *)
(* snapshots of older versions, and forgetting them.                       *)
Stages == {"ensure", "store", "retain", "byName", "query", "legacy"}
Resting == {"idle", "refused", "failed"}

Host(a) == IF a \in Cron THEN "cron" ELSE "dashboard"
LeftLocks == [host : {"cron", "dashboard", "gone"}, excl : BOOLEAN, old : BOOLEAN]

TypeOK ==
    /\ flock \in Actors \cup {None}
    /\ pc \in [Actors -> Resting \cup Stages \cup
                 {"first", "locked", "probing", "unlock", "retry", "start", "orphan"}]
    /\ kind \in [Requests -> Kinds]
    /\ cmd \in [Actors -> Modes]
    /\ files \in SUBSET Actors
    /\ dead \in SUBSET LeftLocks
    /\ alone \in Requests \cup {None}
    /\ kills \in 0..MaxKills

Init ==
    /\ flock = None
    /\ pc = [a \in Actors |-> "idle"]
    /\ kind = [r \in Requests |-> "list"]
    /\ cmd = [a \in Actors |-> "none"]
    /\ files = {}
    /\ dead = {}
    /\ alone = None
    /\ kills = 0

-----------------------------------------------------------------------------
(* restic *)

(* A lock of the repository, of a running command or left by a dead one,   *)
(* stands in the way of a command.                                         *)
Blocked(mode) ==
    \/ \E a \in files : "exclusive" \in {mode, cmd[a]}
    \/ \E d \in dead : mode = "exclusive" \/ d.excl

Goto(a, stage) == pc' = [pc EXCEPT ![a] = stage]

StartCommand(a, mode) ==
    /\ cmd' = [cmd EXCEPT ![a] = mode]
    /\ files' = files \cup {a}

EndCommand(a) ==
    /\ cmd' = [cmd EXCEPT ![a] = "none"]
    /\ files' = files \ {a}

(* The command dies without removing its lock. *)
KillCommand(a) ==
    /\ kills < MaxKills
    /\ kills' = kills + 1
    /\ EndCommand(a)
    /\ dead' = dead \cup {[host |-> Host(a), excl |-> cmd[a] = "exclusive", old |-> FALSE] :
                              x \in files \cap {a}}

(* Half an hour passes; between an unlock and the retry that follows it,   *)
(* the request cannot count on what it unlocked any more.                  *)
Age ==
    /\ \E d \in dead : ~d.old
    /\ dead' = {[d EXCEPT !.old = TRUE] : d \in dead}
    /\ alone' = IF \E r \in Requests : pc[r] = "retry" /\ cmd[r] = "none"
                THEN None ELSE alone
    /\ UNCHANGED <<flock, pc, kind, cmd, files, kills>>

(* A container is replaced: the new one has another host name.             *)
Recreate ==
    /\ \E h \in {"cron", "dashboard"} :
          /\ \A a \in Actors : Host(a) = h => pc[a] \in Resting
          /\ \E d \in dead : d.host = h
          /\ dead' = {IF d.host = h THEN [d EXCEPT !.host = "gone"] ELSE d : d \in dead}
    /\ UNCHANGED <<flock, pc, kind, cmd, files, alone, kills>>

-----------------------------------------------------------------------------
(* run_restic_command_with_stale_lock_retry, in a dashboard request *)

(* A request arrives: a listing, a check or a download; a deletion, which  *)
(* looks for the snapshot first; or a verification's restore, which has    *)
(* taken backup.lock.                                                      *)
Arrive(r) ==
    /\ pc[r] \in Resting
    /\ \E k \in {"list", "find", "restore"} :
          /\ kind' = [kind EXCEPT ![r] = k]
          /\ IF k = "restore" THEN flock = None /\ flock' = r ELSE flock' = flock
    /\ Goto(r, "first")
    /\ alone' = IF \A a \in Actors \ {r} : pc[a] \in Resting THEN r ELSE None
    /\ UNCHANGED <<cmd, files, dead, kills>>

Mode(r) == IF kind[r] = "forget" THEN "exclusive" ELSE "shared"

(* backup_lock's finally clause, when the request that ends held the lock. *)
LetGo(a) == flock' = IF flock = a THEN None ELSE flock

(* The command starts. *)
Run(r) ==
    /\ pc[r] \in {"first", "retry"} /\ cmd[r] = "none"
    /\ ~Blocked(Mode(r))
    /\ StartCommand(r, Mode(r))
    /\ UNCHANGED <<flock, pc, kind, dead, alone, kills>>

(* Faulty: the restore does not say that it holds backup.lock. *)
LockError_AsksItself(r) ==
    /\ pc[r] = "first" /\ cmd[r] = "none"
    /\ Blocked(Mode(r))
    /\ Goto(r, "locked")
    /\ UNCHANGED <<flock, kind, cmd, files, dead, alone, kills>>

(* Or a lock is in its way.  A restore under backup.lock goes on to unlock. *)
LockError(r) ==
    /\ pc[r] = "first" /\ cmd[r] = "none"
    /\ Blocked(Mode(r))
    /\ Goto(r, IF kind[r] = "restore" THEN "unlock" ELSE "locked")
    /\ UNCHANGED <<flock, kind, cmd, files, dead, alone, kills>>

(* app_backup_state: the probe takes backup.lock for an instant, or is     *)
(* refused by whoever holds it: then the command's error is the answer.    *)
Probe(r) ==
    /\ pc[r] = "locked"
    /\ IF flock = None
       THEN flock' = r /\ Goto(r, "probing")
       ELSE flock' = flock /\ Goto(r, "refused")
    /\ UNCHANGED <<kind, cmd, files, dead, alone, kills>>

(* Or backup.lock cannot be opened: no backup, it takes it.                *)
ProbeErrs(r) ==
    /\ pc[r] = "locked"
    /\ Goto(r, "unlock")
    /\ UNCHANGED <<flock, kind, cmd, files, dead, alone, kills>>

ProbeUnlocks(r) ==
    /\ pc[r] = "probing"
    /\ flock' = None
    /\ Goto(r, "unlock")
    /\ UNCHANGED <<kind, cmd, files, dead, alone, kills>>

(* Faulty: restic unlock --remove-all. *)
Unlock_RemovesAll(r) ==
    /\ pc[r] = "unlock"
    /\ dead' = {} /\ files' = {}
    /\ Goto(r, "retry")
    /\ UNCHANGED <<flock, kind, cmd, alone, kills>>

(* restic unlock, whatever has started since the probe. *)
Unlock(r) ==
    /\ pc[r] = "unlock"
    /\ dead' = {d \in dead : d.host # Host(r) /\ ~d.old}
    /\ Goto(r, "retry")
    /\ UNCHANGED <<flock, kind, cmd, files, alone, kills>>

(* restic unlock fails, or times out: its error is the answer. *)
UnlockFails(r) ==
    /\ pc[r] = "unlock"
    /\ Goto(r, "failed")
    /\ LetGo(r)
    /\ UNCHANGED <<kind, cmd, files, dead, alone, kills>>

(* The second try is the last. *)
StillLocked(r) ==
    /\ pc[r] = "retry" /\ cmd[r] = "none"
    /\ Blocked(Mode(r))
    /\ Goto(r, "refused")
    /\ LetGo(r)
    /\ UNCHANGED <<kind, cmd, files, dead, alone, kills>>

(* Faulty: what follows the find is left open. *)
Done_Undecided(r) ==
    /\ pc[r] \in {"first", "retry"} /\ cmd[r] # "none"
    /\ EndCommand(r)
    /\ kind' = [kind EXCEPT ![r] = "none"]
    /\ Goto(r, IF kind[r] = "find" THEN "first" ELSE "idle") /\ LetGo(r)
    /\ UNCHANGED <<dead, alone, kills>>

(* The command ends: a snapshot that was found is forgotten next.          *)
Done(r) ==
    /\ pc[r] \in {"first", "retry"} /\ cmd[r] # "none"
    /\ EndCommand(r)
    /\ \/ kind[r] = "find" /\ kind' = [kind EXCEPT ![r] = "forget"]
          /\ Goto(r, "first") /\ flock' = flock
       \/ kind' = kind /\ Goto(r, "idle") /\ LetGo(r)
    /\ UNCHANGED <<dead, alone, kills>>

(* subprocess.run kills a command that takes too long, or the worker dies  *)
(* with its children: no error about locks, so nothing is tried again.     *)
TimeOut(r) ==
    /\ pc[r] \notin Resting
    /\ KillCommand(r)
    /\ Goto(r, "failed")
    /\ LetGo(r)
    /\ UNCHANGED <<kind, alone>>

(* The worker alone is killed: its descriptors are closed, the restic it   *)
(* started runs on to its end.                                             *)
KillWorker(r) ==
    /\ kills < MaxKills
    /\ pc[r] \notin Resting \cup {"orphan"} /\ cmd[r] # "none"
    /\ kills' = kills + 1
    /\ Goto(r, "orphan")
    /\ LetGo(r)
    /\ UNCHANGED <<kind, cmd, files, dead, alone>>

-----------------------------------------------------------------------------
(* backup-all.sh *)

Launch(b) ==
    /\ pc[b] \in Resting
    /\ Goto(b, "start")
    /\ alone' = None
    /\ UNCHANGED <<flock, kind, cmd, files, dead, kills>>

Lock(b) ==
    /\ pc[b] = "start"
    /\ flock = None
    /\ flock' = b
    /\ Goto(b, "ensure")
    /\ UNCHANGED <<kind, cmd, files, dead, alone, kills>>

Needs(stage) == IF stage \in {"retain", "byName", "legacy"} THEN "exclusive" ELSE "shared"

(* Their failure is ignored (|| true).                                     *)
Tolerated == {"byName", "legacy"}

Following(stage) ==
    CASE stage = "ensure" -> "store"
      [] stage = "store" -> "retain"
      [] stage = "retain" -> "byName"
      [] stage = "byName" -> "query"
      [] stage = "query" -> "legacy"
      [] stage = "legacy" -> "idle"

(* The script goes on after a command.                                     *)
GoOn(b) ==
    /\ Goto(b, Following(pc[b]))
    /\ flock' = IF pc[b] = "legacy" THEN None ELSE flock

RunStage(b) ==
    /\ pc[b] \in Stages /\ cmd[b] = "none"
    /\ ~Blocked(Needs(pc[b]))
    /\ StartCommand(b, Needs(pc[b]))
    /\ UNCHANGED <<flock, pc, kind, dead, alone, kills>>

(* A lock is in the way: the script ends, unless the failure is ignored.   *)
(* It does in the check at the beginning: under pipefail the status of     *)
(* "restic snapshots | grep" is the failing restic's, the branch with      *)
(* restic unlock is never entered, and restic init fails because the       *)
(* repository exists.                                                      *)
StageBlocked(b) ==
    /\ pc[b] \in Stages /\ cmd[b] = "none"
    /\ Blocked(Needs(pc[b]))
    /\ IF pc[b] \in Tolerated THEN GoOn(b) ELSE Goto(b, "failed") /\ flock' = None
    /\ UNCHANGED <<kind, cmd, files, dead, alone, kills>>

(* The command ends, and the next one follows; or the command failed; or   *)
(* there is nothing to store, no retention by number, no jq or nothing     *)
(* left by older versions.                                                 *)
StageDone(b) ==
    /\ pc[b] \in Stages /\ cmd[b] # "none"
    /\ EndCommand(b)
    /\ \/ GoOn(b)
       \/ pc[b] \notin Tolerated /\ Goto(b, "failed") /\ flock' = None
       \/ pc[b] \in {"ensure", "retain", "byName", "query"} /\ Goto(b, "idle") /\ flock' = None
    /\ UNCHANGED <<kind, dead, alone, kills>>

(* Faulty: the children do not inherit fd 9. *)
KillScript_FreesLock(b) ==
    /\ kills < MaxKills
    /\ pc[b] \in Stages
    /\ kills' = kills + 1
    /\ Goto(b, "orphan")
    /\ flock' = None
    /\ UNCHANGED <<kind, cmd, files, dead, alone>>

(* SIGKILL of the script: its child runs on with fd 9. *)
KillScript(b) ==
    /\ kills < MaxKills
    /\ pc[b] \in Stages
    /\ kills' = kills + 1
    /\ Goto(b, "orphan")
    /\ UNCHANGED <<flock, kind, cmd, files, dead, alone>>

(* The child of a killed script, or of a killed worker, ends. *)
OrphanEnds(a) ==
    /\ pc[a] = "orphan"
    /\ EndCommand(a)
    /\ Goto(a, "failed")
    /\ LetGo(a)
    /\ UNCHANGED <<kind, dead, alone, kills>>

(* The container stops, or the command is killed under the script. *)
KillBatch(b) ==
    /\ pc[b] \in Stages \cup {"orphan"}
    /\ KillCommand(b)
    /\ \/ Goto(b, "failed") /\ LetGo(b)
       \/ pc[b] \in Tolerated /\ cmd[b] # "none" /\ GoOn(b)
    /\ UNCHANGED <<kind, alone>>

-----------------------------------------------------------------------------

Next ==
    \/ Age \/ Recreate
    \/ \E r \in Requests :
          \/ Arrive(r) \/ Run(r) \/ LockError(r) \/ Probe(r) \/ ProbeErrs(r) \/ ProbeUnlocks(r)
          \/ Unlock(r) \/ UnlockFails(r) \/ StillLocked(r) \/ Done(r)
          \/ TimeOut(r) \/ KillWorker(r)
    \/ \E b \in Batches :
          \/ Launch(b) \/ Lock(b) \/ RunStage(b) \/ StageBlocked(b) \/ StageDone(b)
          \/ KillScript(b) \/ KillBatch(b)
    \/ \E a \in Actors : OrphanEnds(a)

Spec == Init /\ [][Next]_vars

-----------------------------------------------------------------------------
(* Properties *)

(* The inductive invariant: a running command has its lock in the          *)
(* repository; backup.lock belongs to the batch that works, or to its      *)
(* surviving child, to the restore of a verification, or to a probe ...    *)
HoldsFlock(a) ==
    IF a \in Batches THEN pc[a] \in Stages \cup {"orphan"}
    ELSE \/ pc[a] = "probing"
         \/ kind[a] = "restore" /\ pc[a] \in {"first", "unlock", "retry"}

HoldInv ==
    /\ files = {a \in Actors : cmd[a] # "none"}
    /\ \A a \in Actors : HoldsFlock(a) <=> flock = a
    /\ \A a \in Actors : cmd[a] # "none" =>
          pc[a] \in Stages \cup {"first", "retry", "orphan"}
    /\ \A r \in Requests :
          /\ pc[r] \notin Stages \cup {"start"}
          /\ kind[r] = "restore" => pc[r] \notin {"locked", "probing"}
    /\ \A b \in Batches : pc[b] \in Resting \cup Stages \cup {"start", "orphan"}

(* ... and beside a request that is alone everybody rests, so that what is *)
(* left after its unlock are young locks of other containers.              *)
AloneInv ==
    alone # None =>
        /\ \A a \in Actors \ {alone} : pc[a] \in Resting
        /\ pc[alone] = "retry" /\ cmd[alone] = "none" =>
              \A d \in dead : d.host # Host(alone) /\ ~d.old

(* Deleting a backup prunes the repository without backup.lock, and        *)
(* restic unlock may run after a backup started (app.py:222-228, 963): all *)
(* the same, no prune ever runs beside another restic command on the       *)
(* repository, whoever runs it and whatever was killed or unlocked before. *)
PruneAlone ==
    \A a, c \in Actors : a # c /\ cmd[a] = "exclusive" => cmd[c] = "none"

Inv == TypeOK /\ HoldInv /\ PruneAlone /\ AloneInv

(* "Holding the backup lock ourselves proves no backup owns the restic     *)
(* lock" (app.py:222): while a verification's restore unlocks, no command  *)
(* of a backup runs, not even one that outlived its killed script.         *)
HoldingProves ==
    \A r \in Requests : kind[r] = "restore" /\ pc[r] = "unlock" =>
        \A b \in Batches : cmd[b] = "none"

(* A request that has the repository to itself is not refused for a lock:  *)
(* it gets past every lock a killed command left, except a young one of    *)
(* the other container, and never takes its own lock for a backup's        *)
(* (app.py:217-236).                                                       *)
AloneNeverRefused ==
    [][\A r \in Requests :
          alone = r /\ pc[r] # "refused" /\ pc'[r] = "refused"
              => \E d \in dead : d.host # Host(r) /\ ~d.old]_vars

(* "Restic repository has a stale lock; running restic unlock..."          *)
(* (backup-all.sh:60): a batch does not fail its check of the repository   *)
(* for a lock that restic unlock would have removed.                       *)
BatchClearsStale ==
    [][\A b \in Batches :
          pc[b] = "ensure" /\ cmd[b] = "none" /\ pc'[b] = "failed" /\ kills' = kills
              => \/ \E a \in Actors : cmd[a] = "exclusive"
                 \/ \E d \in dead : d.excl /\ d.host # Host(b) /\ ~d.old]_vars

=============================================================================
