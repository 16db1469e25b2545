--------------------------- MODULE ProfileSchedules ---------------------------
(***************************************************************************)
(* Backup profiles, the restic repositories they name, and the cron file   *)
(* derived from them, under the dashboard's concurrent requests:           *)
(*                                                                         *)
(*   - profiles.json and restic_repositories.json are each guarded by a    *)
(*     flock per operation and replaced atomically, so one storage call is *)
(*     one step, and a handler that makes several is not atomic;           *)
(*   - schedules.cron is rebuilt from the profiles under a lock of its own *)
(*     by every handler that changed a profile and by the cron container   *)
(*     when it starts; POST /api/schedule replaces it by one legacy entry. *)
(*                                                                         *)
(* A profile is its schedule, whether it is enabled, and its repository;   *)
(* the cron file is its legacy entry or one batch of profiles per time.    *)
(***************************************************************************)
EXTENDS Naturals

CONSTANTS
    Requests,     \* dashboard threads; each serves one request after another
    Cron,         \* the start of the backup-cron container
    Ops,          \* the kinds of request that arrive
    Ids,          \* profile ids (uuids: never used twice)
    Repos,        \* repository ids
    Default,      \* the repository "default"
    Times,        \* cron expressions
    Fallback,     \* the entry of BACKUP_CRON, or None
    MaxRestarts,  \* bound on starts of the cron container
    None          \* no profile / no entry / the lock is free

AllOps == {"create", "update", "schedule", "delete", "legacy", "add", "remove"}

ASSUME OpsAssumption == Ops \subseteq AllOps
ASSUME ReposAssumption == Default \in Repos
ASSUME ActorsAssumption == Cron \notin Requests /\ None \notin Requests \cup {Cron}
ASSUME TimesAssumption == None \notin Times /\ Fallback \in Times \cup {None}
ASSUME RestartsAssumption == MaxRestarts \in Nat

VARIABLES
    profiles,  \* profiles.json
    repos,     \* restic_repositories.json
    used,      \* ids given to profiles or repositories so far
    cron,      \* schedules.cron
    cronLock,  \* who holds schedules.cron.lock
    req,       \* what each thread and the cron container is doing
    lost,      \* history: a rebuild failed, or a legacy entry was written,
               \* since the last rebuild began
    restarts   \* starts of the cron container so far

vars == <<profiles, repos, used, cron, cronLock, req, lost, restarts>>

Actors == Requests \cup {Cron}
Profile == [schedule : Times, enabled : BOOLEAN, repo : Repos]
Fields == {"schedule", "enabled", "repo"}
ProfileMap == [Ids -> Profile \cup {None}]
NoProfiles == [i \in Ids |-> None]
CronFile == [legacy : Times \cup {None}, batches : [Times -> SUBSET Ids]]

(* What an actor has in hand: the id and value it will store, the fields   *)
(* its request changes, the repository it removes, and the profiles it     *)
(* read for a rebuild.                                                     *)
Stages == {"idle", "create", "merged", "update", "schedule", "delete", "remove",
           "legacy", "sync", "publish"}
Actor == [pc : Stages, id : Ids \cup {None}, val : Profile \cup {None},
          fields : SUBSET Fields, repo : Repos \cup {None},
          time : Times \cup {None}, seen : ProfileMap]
Idle == [pc |-> "idle", id |-> None, val |-> None, fields |-> {}, repo |-> None,
         time |-> None, seen |-> NoProfiles]

TypeOK ==
    /\ profiles \in ProfileMap
    /\ repos \in SUBSET Repos /\ Default \in repos
    /\ used \in SUBSET (Ids \cup Repos)
    /\ cron \in CronFile
    /\ cronLock \in Actors \cup {None}
    /\ req \in [Actors -> Actor]
    /\ \A a \in Actors :
          /\ req[a].pc \in {"create", "merged", "update"} => req[a].val \in Profile
          /\ req[a].pc \in {"merged", "update", "schedule", "delete"} => req[a].id \in Ids
          /\ req[a].pc \in {"schedule", "legacy"} => req[a].time \in Times
    /\ lost \in BOOLEAN
    /\ restarts \in 0..MaxRestarts

-----------------------------------------------------------------------------
(* The contents of schedules.cron for the profiles ps: one sequential      *)
(* batch of the enabled profiles of each time; without any profile the     *)
(* fallback entry of BACKUP_CRON.                                          *)

Entry(t) == [legacy |-> t, batches |-> [u \in Times |-> {}]]

Lines(ps) ==
    IF ps = NoProfiles THEN Entry(Fallback)
    ELSE [legacy |-> None,
          batches |-> [t \in Times |->
              {i \in Ids : ps[i] # None /\ ps[i].enabled /\ ps[i].schedule = t}]]

Init ==
    /\ profiles = NoProfiles
    /\ repos = {Default}
    /\ used = {Default}
    /\ cron = Entry(Fallback)
    /\ cronLock = None
    /\ req = [a \in Actors |-> Idle]
    /\ lost = FALSE
    /\ restarts = 0

-----------------------------------------------------------------------------
Goto(r, stage) == req' = [req EXCEPT ![r].pc = stage]
Answer(r) == req' = [req EXCEPT ![r] = Idle]
Arrives(r, op) == req[r].pc = "idle" /\ op \in Ops

Start(r, stage, i, v, F, x, t) ==
    req' = [req EXCEPT ![r] = [pc |-> stage, id |-> i, val |-> v, fields |-> F,
                               repo |-> x, time |-> t, seen |-> NoProfiles]]

storageVars == <<profiles, repos, used>>
syncVars == <<cron, cronLock, lost>>

(* create_profile: the profile is valid and its repository exists; the SSH *)
(* check that may follow takes its time.                                   *)
StartCreate(r) ==
    /\ Arrives(r, "create")
    /\ \E v \in Profile : v.repo \in repos /\ Start(r, "create", None, v, {}, None, None)
    /\ UNCHANGED <<storageVars, syncVars, restarts>>

Create(r) ==
    /\ req[r].pc = "create"
    /\ \E i \in Ids \ used :
          /\ profiles' = [profiles EXCEPT ![i] = req[r].val]
          /\ used' = used \cup {i}
    /\ Goto(r, "sync")
    /\ UNCHANGED <<repos, syncVars, restarts>>

(* update_profile: the stored profile is read and merged with the fields   *)
(* of the request, some of which are different ...                         *)
StartUpdate(r) ==
    /\ Arrives(r, "update")
    /\ \E i \in Ids, v \in Profile :
          /\ profiles[i] # None
          /\ Start(r, "merged", i, v, {g \in Fields : v[g] # profiles[i][g]}, None, None)
    /\ UNCHANGED <<storageVars, syncVars, restarts>>

(* ... get_profile_repository looks its repository up ...                  *)
CheckRepository(r) ==
    /\ req[r].pc = "merged"
    /\ IF req[r].val.repo \in repos THEN Goto(r, "update") ELSE Answer(r)
    /\ UNCHANGED <<storageVars, syncVars, restarts>>

(* Faulty: the merged profile is stored without looking for the id. *)
Update_Unchecked(r) ==
    /\ req[r].pc = "update"
    /\ profiles' = [profiles EXCEPT ![req[r].id] = req[r].val]
    /\ Goto(r, "sync")
    /\ UNCHANGED <<repos, used, syncVars, restarts>>

(* ... and the merged profile is stored as a whole, if it still exists.    *)
Update(r) ==
    /\ req[r].pc = "update"
    /\ IF profiles[req[r].id] # None
       THEN profiles' = [profiles EXCEPT ![req[r].id] = req[r].val] /\ Goto(r, "sync")
       ELSE profiles' = profiles /\ Answer(r)
    /\ UNCHANGED <<repos, used, syncVars, restarts>>

(* update_profile_schedule: the profile exists; then its schedule alone is *)
(* updated, inside the storage's lock.                                     *)
StartSchedule(r) ==
    /\ Arrives(r, "schedule")
    /\ \E i \in Ids, t \in Times :
          profiles[i] # None /\ Start(r, "schedule", i, None, {}, None, t)
    /\ UNCHANGED <<storageVars, syncVars, restarts>>

SetSchedule(r) ==
    /\ req[r].pc = "schedule"
    /\ IF profiles[req[r].id] # None
       THEN /\ profiles' = [profiles EXCEPT ![req[r].id].schedule = req[r].time]
            /\ Goto(r, "sync")
       ELSE profiles' = profiles /\ Answer(r)
    /\ UNCHANGED <<repos, used, syncVars, restarts>>

(* delete_profile *)
StartDelete(r) ==
    /\ Arrives(r, "delete")
    /\ \E i \in Ids : profiles[i] # None /\ Start(r, "delete", i, None, {}, None, None)
    /\ UNCHANGED <<storageVars, syncVars, restarts>>

Delete(r) ==
    /\ req[r].pc = "delete"
    /\ IF profiles[req[r].id] # None
       THEN profiles' = [profiles EXCEPT ![req[r].id] = None] /\ Goto(r, "sync")
       ELSE profiles' = profiles /\ Answer(r)
    /\ UNCHANGED <<repos, used, syncVars, restarts>>

-----------------------------------------------------------------------------
(* create_restic_repository *)
AddRepository(r) ==
    /\ Arrives(r, "add")
    /\ \E x \in Repos \ used : repos' = repos \cup {x} /\ used' = used \cup {x}
    /\ UNCHANGED <<profiles, req, syncVars, restarts>>

(* delete_restic_repository: no profile refers to the repository ...       *)
StartRemove(r) ==
    /\ Arrives(r, "remove")
    /\ \E x \in Repos :
          /\ \A i \in Ids : profiles[i] # None => profiles[i].repo # x
          /\ Start(r, "remove", None, None, {}, x, None)
    /\ UNCHANGED <<storageVars, syncVars, restarts>>

(* Faulty: the default repository is removed like any other. *)
Remove_Default(r) ==
    /\ req[r].pc = "remove"
    /\ repos' = repos \ {req[r].repo}
    /\ Answer(r)
    /\ UNCHANGED <<profiles, used, syncVars, restarts>>

(* ... and it is removed, unless it is the default one.                    *)
Remove(r) ==
    /\ req[r].pc = "remove"
    /\ repos' = IF req[r].repo = Default THEN repos ELSE repos \ {req[r].repo}
    /\ Answer(r)
    /\ UNCHANGED <<profiles, used, syncVars, restarts>>

-----------------------------------------------------------------------------
(* update_schedule: there is no profile ...                                *)
StartLegacy(r) ==
    /\ Arrives(r, "legacy")
    /\ profiles = NoProfiles
    /\ \E t \in Times : Start(r, "legacy", None, None, {}, None, t)
    /\ UNCHANGED <<storageVars, syncVars, restarts>>

(* ... and the cron file becomes the one legacy entry.                     *)
WriteLegacy(r) ==
    /\ req[r].pc = "legacy"
    /\ cronLock = None
    /\ cron' = Entry(req[r].time)
    /\ lost' = TRUE
    /\ Answer(r)
    /\ UNCHANGED <<storageVars, cronLock, restarts>>

(* Faulty: the profiles are read before the lock is taken, as              *)
(* sync_profile_schedules does for a caller that loads them itself.        *)
SyncRead_NoLock(a) ==
    /\ req[a].pc = "sync"
    /\ req' = [req EXCEPT ![a].pc = "publish", ![a].seen = profiles]
    /\ lost' = FALSE
    /\ UNCHANGED <<storageVars, cron, cronLock, restarts>>

(* sync_profile_schedules_from_loader takes the lock, loads the profiles   *)
SyncRead(a) ==
    /\ req[a].pc = "sync"
    /\ cronLock = None
    /\ cronLock' = a
    /\ req' = [req EXCEPT ![a].pc = "publish", ![a].seen = profiles]
    /\ lost' = FALSE
    /\ UNCHANGED <<storageVars, cron, restarts>>

(* and replaces the file.                                                  *)
SyncWrite(a) ==
    /\ req[a].pc = "publish"
    /\ cron' = Lines(req[a].seen)
    /\ cronLock' = None
    /\ Answer(a)
    /\ UNCHANGED <<storageVars, lost, restarts>>

(* Faulty: the lock is not given back when the write fails. *)
Abort_KeepsLock(a) ==
    /\ req[a].pc # "idle"
    /\ lost' = (lost \/ req[a].pc \in {"sync", "publish"})
    /\ Answer(a)
    /\ UNCHANGED <<storageVars, cron, cronLock, restarts>>

(* A call raises, or the worker or the container is killed: the request    *)
(* ends where it is, and what it already stored stays.                     *)
Abort(a) ==
    /\ req[a].pc # "idle"
    /\ cronLock' = IF cronLock = a THEN None ELSE cronLock
    /\ lost' = (lost \/ req[a].pc \in {"sync", "publish"})
    /\ Answer(a)
    /\ UNCHANGED <<storageVars, cron, restarts>>

(* The backup-cron container starts: sync-schedules.py.                    *)
StartCron ==
    /\ req[Cron].pc = "idle"
    /\ restarts < MaxRestarts
    /\ restarts' = restarts + 1
    /\ Goto(Cron, "sync")
    /\ UNCHANGED <<storageVars, syncVars>>

-----------------------------------------------------------------------------
Arrival(r) ==
    \/ StartCreate(r) \/ StartUpdate(r) \/ StartSchedule(r) \/ StartDelete(r)
    \/ AddRepository(r) \/ StartRemove(r) \/ StartLegacy(r)

Storage(r) ==
    \/ Create(r) \/ CheckRepository(r) \/ Update(r) \/ SetSchedule(r) \/ Delete(r)
    \/ Remove(r) \/ WriteLegacy(r)

Sync(a) == SyncRead(a) \/ SyncWrite(a)

Next ==
    \/ \E r \in Requests : Arrival(r) \/ Storage(r)
    \/ \E a \in Actors : Sync(a) \/ Abort(a)
    \/ StartCron

Spec == Init /\ [][Next]_vars

(* A thread and the container's start-up script keep running. *)
FairSpec ==
    /\ Spec
    /\ \A r \in Requests : WF_vars(Storage(r))
    /\ \A a \in Actors : WF_vars(Sync(a))

-----------------------------------------------------------------------------
(* Properties *)

(* The inductive invariant.  Exactly the actor that publishes has the lock *)
(* of the cron file ...                                                    *)
LockInv == \A a \in Actors : req[a].pc = "publish" <=> cronLock = a

(* ... and, unless a rebuild is lost or still due, the file, or what will  *)
(* replace it, is built from the profiles as they are.                     *)
Due == \E a \in Actors : req[a].pc = "sync"

CronInv ==
    lost \/ Due \/ IF cronLock = None THEN cron = Lines(profiles)
                   ELSE req[cronLock].seen = profiles

(* Every stored id was handed out, and a request works on such an id.      *)
UsedInv ==
    /\ \A i \in Ids : profiles[i] # None => i \in used
    /\ \A a \in Actors : req[a].pc \in {"merged", "update", "schedule", "delete"} =>
          req[a].id \in used

Inv == TypeOK /\ LockInv /\ CronInv /\ UsedInv

(* "profile create/update/delete operations reconcile it immediately"      *)
(* (README.md:82-83): once every change has run its rebuild, the cron file *)
(* is the one of the stored profiles, whichever of the rebuilds came last; *)
(* one that succeeds makes good for the lost ones before it.               *)
CronCurrent ==
    (\A a \in Actors : req[a].pc \notin {"sync", "publish"}) /\ ~lost
        => cron = Lines(profiles)

(* An update that read a profile before it was deleted does not bring it   *)
(* back (profiles.py:158-169): an id is stored only once.                  *)
NoResurrection ==
    [][\A i \in Ids : profiles[i] = None /\ profiles'[i] # None => i \notin used]_vars

(* The lock of the cron file becomes free again and again.                 *)
CronLockReleased == []<>(cronLock = None)

(* "Validate the merged profile so partial updates keep existing fields"   *)
(* (app.py:617): a request that updates some fields of a profile leaves   *)
(* the other stored fields as they are.                                    *)
OtherFieldsKept ==
    [][\A r \in Requests, i \in Ids :
          (/\ req[r].pc = "update" /\ req'[r].pc = "sync" /\ req[r].id = i
           /\ profiles[i] # None)
             => \A g \in Fields \ req[r].fields : profiles'[i][g] = profiles[i][g]]_vars

(* "Repository is still referenced by backup profiles" (app.py:740): a     *)
(* repository that a profile uses is not deleted.                          *)
ReferencedReposKept ==
    [][\A x \in Repos : x \in repos /\ x \notin repos' =>
          \A i \in Ids : profiles[i] # None => profiles[i].repo # x]_vars

(* "Global legacy schedules cannot be combined with profile schedules"     *)
(* (app.py:1213): an entry other than that of BACKUP_CRON is only written  *)
(* while there is no profile.                                              *)
LegacyExcluded ==
    [][cron' # cron /\ cron'.legacy \notin {None, Fallback} => profiles = NoProfiles]_vars

=============================================================================
