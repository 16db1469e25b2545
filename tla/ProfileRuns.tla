------------------------------ MODULE ProfileRuns ------------------------------
(***************************************************************************)
(* What backup-all.sh does while it holds backup.lock, one run at a time:  *)
(* it collects a profile's files in a staging directory of its own, stores *)
(* them in the restic repository under the tags "profile:<id>" and the     *)
(* profile's name and type, and applies the retention: max_backups when it *)
(* is positive, and the global policy otherwise.  Meanwhile the dashboard  *)
(* edits and deletes profiles and deletes snapshots, commands fail, and    *)
(* scripts are killed.                                                     *)
(*                                                                         *)
(* One repository; a name stands for a profile's name and type together.   *)
(* restic forget is modelled by what it keeps of which group of snapshots. *)
(***************************************************************************)
EXTENDS Integers, FiniteSets

CONSTANTS
    Ids,          \* profile ids
    Service,      \* the services of the legacy modes, which have no profile
    Names,        \* profile names
    Hosts,        \* host names of the containers that run backup-all.sh
    Keeps,        \* values of max_backups
    Days, Weeks, Months,  \* RETENTION_DAYS, _WEEKLY, _MONTHLY
    MaxRuns,      \* bound on runs
    MaxDay,       \* bound on the days that pass
    MaxKills,     \* bound on killed runs
    None          \* no profile / no run / no snapshot

ASSUME IdsAssumption == Service \notin Ids /\ None \notin Ids \cup Names
ASSUME KeepsAssumption == Keeps \subseteq Nat
ASSUME PolicyAssumption == Days \in Nat \ {0} /\ Weeks \in Nat /\ Months \in Nat
ASSUME BoundsAssumption == MaxRuns \in Nat /\ MaxDay \in Nat /\ MaxKills \in Nat

VARIABLES
    profiles,  \* profiles.json
    due,       \* profiles in a batch that was started and has not come to them
    run,       \* the run that holds backup.lock
    clock,     \* number of the next run
    day,       \* the day it is
    snaps,     \* the snapshots in the repository
    stage,     \* whose files are in each staging directory: numbers of runs
    latest,    \* history: the last snapshot of each profile, if nobody deleted it
    kills      \* runs killed so far

vars == <<profiles, due, run, clock, day, snaps, stage, latest, kills>>
dashboardVars == <<profiles, due>>
timeVars == <<clock, day>>

Profile == [name : Names, max : Keeps, enabled : BOOLEAN]
Snapshot == [time : Nat, day : Nat, by : Ids \cup {Service}, host : Hosts,
             tagged : BOOLEAN, name : Names \cup {None}]
Steps == {"stage", "dump", "store", "service", "byId", "byName", "untagged", "global",
          "clean"}
Run == [pc : Steps, p : Ids \cup {Service}, name : Names \cup {None}, max : Keeps \cup {0},
        n : Nat, host : Hosts]

ASSUME RunAssumption == None \notin Run

TypeOK ==
    /\ profiles \in [Ids -> Profile \cup {None}]
    /\ due \in SUBSET Ids
    /\ run \in Run \cup {None}
    /\ run # None => (run.p = Service <=> run.name = None) /\ run.n < clock
    /\ clock \in 1..(MaxRuns + 1)
    /\ day \in 0..MaxDay
    /\ snaps \in SUBSET Snapshot
    /\ \A s \in snaps : s.time < clock
    /\ stage \in [Ids -> SUBSET Nat]
    /\ latest \in [Ids -> Snapshot \cup {None}]
    /\ kills \in 0..MaxKills

(* There may be one snapshot from before the stable profile id tag.        *)
Init ==
    /\ profiles \in [Ids -> Profile]
    /\ due = {}
    /\ run = None
    /\ clock = 1
    /\ day = 0
    /\ \E old \in [time : {0}, day : {0}, by : Ids, host : Hosts, tagged : {FALSE},
                   name : Names] : snaps \in {{}, {old}}
    /\ stage = [p \in Ids |-> {}]
    /\ latest = [p \in Ids |-> None]
    /\ kills = 0

-----------------------------------------------------------------------------
(* restic forget *)

Later(S, s) == {t \in S : t.time > s.time}

(* --keep-last n *)
KeepLast(S, n) == {s \in S : Cardinality(Later(S, s)) < n}

(* --keep-daily and its like: the newest of each of the last n periods of  *)
(* len days that have a snapshot.                                          *)
KeepNewestPer(S, n, len) ==
    {s \in S :
        /\ \A t \in Later(S, s) : t.day \div len # s.day \div len
        /\ Cardinality({t.day \div len : t \in Later(S, s)}) < n}

(* --keep-daily --keep-weekly --keep-monthly *)
KeepPolicy(S) ==
    KeepNewestPer(S, Days, 1) \cup KeepNewestPer(S, Weeks, 7) \cup KeepNewestPer(S, Months, 30)

Tags(s) == [id |-> IF s.tagged THEN s.by ELSE None, name |-> s.name]

(* forget --keep-last n --group-by tags, of the snapshots in S *)
ForgetByTags(S, n) ==
    snaps' = {s \in snaps : s \in S => s \in KeepLast({t \in S : Tags(t) = Tags(s)}, n)}

-----------------------------------------------------------------------------
Goto(pc) == run' = [run EXCEPT !.pc = pc]
In(pc) == run # None /\ run.pc = pc

(* A batch is started with the enabled profiles, by cron or by the         *)
(* dashboard's trigger_backup.                                             *)
Launch(p) ==
    /\ profiles[p] # None /\ profiles[p].enabled
    /\ due' = due \cup {p}
    /\ UNCHANGED <<profiles, run, timeVars, snaps, stage, latest, kills>>

(* jq's alternative operator. *)
Alternative(x, default) == IF x = FALSE THEN default ELSE x

(* Faulty: the profile's number of backups is not read. *)
Begin_NoMax(p) ==
    /\ p \in due /\ run = None
    /\ clock <= MaxRuns
    /\ due' = due \ {p}
    /\ \E h \in Hosts :
          run' = IF profiles[p] = None \/ ~Alternative(profiles[p].enabled, TRUE) THEN None
                 ELSE [pc |-> "stage", p |-> p, name |-> profiles[p].name,
                       max |-> None, n |-> clock, host |-> h]
    /\ clock' = clock + 1
    /\ UNCHANGED <<profiles, day, snaps, stage, latest, kills>>

(* The batch comes to profile p and its backup-all.sh has the lock: it     *)
(* reads the profile, and ends when there is none or it is not enabled     *)
(* (.enabled // true).                                                     *)
Begin(p) ==
    /\ p \in due /\ run = None
    /\ clock <= MaxRuns
    /\ due' = due \ {p}
    /\ \E h \in Hosts :
          run' = IF profiles[p] = None \/ ~Alternative(profiles[p].enabled, TRUE) THEN None
                 ELSE [pc |-> "stage", p |-> p, name |-> profiles[p].name,
                       max |-> profiles[p].max, n |-> clock, host |-> h]
    /\ clock' = clock + 1
    /\ UNCHANGED <<profiles, day, snaps, stage, latest, kills>>

(* A run of a legacy mode collects the dumps of the services. *)
BeginService ==
    /\ run = None
    /\ clock <= MaxRuns
    /\ \E h \in Hosts :
          run' = [pc |-> "service", p |-> Service, name |-> None, max |-> 0,
                  n |-> clock, host |-> h]
    /\ clock' = clock + 1
    /\ UNCHANGED <<dashboardVars, day, snaps, stage, latest, kills>>

(* Faulty: the staging directory is made, not made anew. *)
Prepare_KeepsFiles ==
    /\ In("stage")
    /\ Goto("dump")
    /\ UNCHANGED <<dashboardVars, timeVars, snaps, stage, latest, kills>>

(* The repository is loaded and ensured, the staging directory made anew.  *)
Prepare ==
    /\ In("stage")
    /\ stage' = [stage EXCEPT ![run.p] = {}]
    /\ Goto("dump")
    /\ UNCHANGED <<dashboardVars, timeVars, snaps, latest, kills>>

(* The dump or rsync of the profile's type, which may have nothing to do.  *)
Dump ==
    /\ In("dump")
    /\ stage' \in {stage, [stage EXCEPT ![run.p] = @ \cup {run.n}]}
    /\ Goto("store")
    /\ UNCHANGED <<dashboardVars, timeVars, snaps, latest, kills>>

NewSnapshot == [time |-> run.n, day |-> day, by |-> run.p, host |-> run.host,
                tagged |-> run.p # Service, name |-> run.name]

(* restic backup, unless the staging directory is empty *)
Store ==
    /\ In("store")
    /\ IF stage[run.p] = {}
       THEN Goto("clean") /\ UNCHANGED <<snaps, latest>>
       ELSE /\ snaps' = snaps \cup {NewSnapshot}
            /\ latest' = [latest EXCEPT ![run.p] = NewSnapshot]
            /\ Goto(IF run.max > 0 THEN "byId" ELSE "global")
    /\ UNCHANGED <<dashboardVars, timeVars, stage, kills>>

(* store_in_restic: the services' directories that have files *)
StoreService ==
    /\ In("service")
    /\ snaps' \in {snaps, snaps \cup {NewSnapshot}}
    /\ Goto("global")
    /\ UNCHANGED <<dashboardVars, timeVars, stage, latest, kills>>

(* Faulty: restic's default grouping, by host and paths. *)
ForgetById_ByHost ==
    /\ In("byId")
    /\ LET S == {s \in snaps : s.tagged /\ s.by = run.p} IN
       snaps' = {s \in snaps : s \in S => s \in KeepLast({t \in S : t.host = s.host}, run.max)}
    /\ Goto("byName")
    /\ UNCHANGED <<dashboardVars, timeVars, stage, latest, kills>>

(* forget --tag profile:<id> *)
ForgetById ==
    /\ In("byId")
    /\ ForgetByTags({s \in snaps : s.tagged /\ s.by = run.p}, run.max)
    /\ Goto("byName")
    /\ UNCHANGED <<dashboardVars, timeVars, stage, latest, kills>>

(* forget --tag <name>,<type> || true: both tags, with or without an id *)
ForgetByName ==
    /\ In("byName")
    /\ \/ ForgetByTags({s \in snaps : s.name = run.name}, run.max)
       \/ snaps' = snaps
    /\ Goto("untagged")
    /\ UNCHANGED <<dashboardVars, timeVars, stage, latest, kills>>

(* forget of the snapshots of this staging directory without this id's tag *)
ForgetUntagged ==
    /\ In("untagged")
    /\ \/ snaps' = {s \in snaps : s.tagged \/ s.by # run.p}
       \/ snaps' = snaps
    /\ Goto("clean")
    /\ UNCHANGED <<dashboardVars, timeVars, stage, latest, kills>>

(* The global policy, on all snapshots, grouped by host and paths. *)
ForgetGlobal ==
    /\ In("global")
    /\ snaps' = {s \in snaps : s \in KeepPolicy({t \in snaps : t.by = s.by /\ t.host = s.host})}
    /\ Goto("clean")
    /\ UNCHANGED <<dashboardVars, timeVars, stage, latest, kills>>

Unstaged == [p \in Ids |-> IF p = run.p THEN {} ELSE stage[p]]

(* The run succeeds and removes its staging directory. *)
Finish ==
    /\ In("clean")
    /\ stage' = Unstaged
    /\ run' = None
    /\ UNCHANGED <<dashboardVars, timeVars, snaps, latest, kills>>

(* Faulty: the EXIT trap knows nothing of the staging directory. *)
Fail_NoTrap ==
    /\ run # None
    /\ run' = None
    /\ UNCHANGED <<dashboardVars, timeVars, snaps, stage, latest, kills>>

(* A command fails: the script exits and its trap removes the staging      *)
(* directory, once the run has one.                                        *)
Fail ==
    /\ run # None
    /\ stage' = IF In("stage") THEN stage ELSE Unstaged
    /\ run' = None
    /\ UNCHANGED <<dashboardVars, timeVars, snaps, latest, kills>>

(* SIGKILL: no trap runs. *)
Kill ==
    /\ run # None /\ kills < MaxKills
    /\ run' = None
    /\ kills' = kills + 1
    /\ UNCHANGED <<dashboardVars, timeVars, snaps, stage, latest>>

-----------------------------------------------------------------------------
(* The dashboard, at any moment of a run *)

Edit(p) ==
    /\ profiles[p] # None
    /\ \E v \in Profile : profiles' = [profiles EXCEPT ![p] = v]
    /\ UNCHANGED <<due, run, timeVars, snaps, stage, latest, kills>>

(* Bound: the last profile is not deleted. *)
DeleteProfile(p) ==
    /\ profiles[p] # None
    /\ \E q \in Ids \ {p} : profiles[q] # None
    /\ profiles' = [profiles EXCEPT ![p] = None]
    /\ UNCHANGED <<due, run, timeVars, snaps, stage, latest, kills>>

DeleteSnapshot(s) ==
    /\ snaps' = snaps \ {s}
    /\ latest' = [p \in Ids |-> IF latest[p] = s THEN None ELSE latest[p]]
    /\ UNCHANGED <<dashboardVars, run, timeVars, stage, kills>>

(* snapshot_profile_id: the profile whose id a snapshot is tagged with, if *)
(* there is one; else the one whose staging directory it has the path of;  *)
(* else any of that name and type.                                         *)
OwnersByName(s) == {p \in Ids : profiles[p] # None /\ profiles[p].name = s.name}

(* Faulty: names are looked at before ids. *)
Owners_NameFirst(s) ==
    IF OwnersByName(s) # {} THEN OwnersByName(s)
    ELSE {p \in Ids : profiles[p] # None /\ s.by = p}

Owners(s) ==
    LET here == {p \in Ids : profiles[p] # None /\ s.by = p} IN
    IF here # {} THEN here ELSE OwnersByName(s)

(* apply_profile_snapshot_policy with respect_retention: what the          *)
(* dashboard shows as the backups of profile p, when whose is where each   *)
(* snapshot belongs                                                        *)
Shown(p, whose) ==
    LET S == {s \in snaps : whose[s] = p} IN
    IF profiles[p].max > 0 THEN KeepLast(S, profiles[p].max) ELSE S

NextDay ==
    /\ day < MaxDay
    /\ day' = day + 1
    /\ UNCHANGED <<dashboardVars, run, clock, snaps, stage, latest, kills>>

-----------------------------------------------------------------------------
RunStep ==
    \/ Prepare \/ Dump \/ Store \/ StoreService \/ ForgetById \/ ForgetByName
    \/ ForgetUntagged \/ ForgetGlobal \/ Finish \/ Fail \/ Kill

Next ==
    \/ \E p \in Ids : Launch(p) \/ Begin(p) \/ Edit(p) \/ DeleteProfile(p)
    \/ BeginService \/ RunStep \/ NextDay
    \/ \E s \in snaps : DeleteSnapshot(s)

Spec == Init /\ [][Next]_vars

-----------------------------------------------------------------------------
(* Properties *)

(* Parts of the inductive invariant: a profile's last snapshot is newer    *)
(* than all others of it, and a run's number is newer than all snapshots   *)
(* before it has stored its own ...                                        *)
LatestInv ==
    /\ \A p \in Ids : latest[p] # None =>
          /\ latest[p] \in snaps /\ latest[p].tagged /\ latest[p].by = p
          /\ \A s \in snaps : s.by = p => s.time <= latest[p].time
    /\ run # None /\ run.pc \in {"stage", "dump", "store", "service"} =>
          \A s \in snaps : s.time < run.n

(* ... and a run works in a staging directory it has emptied.              *)
StageInv ==
    /\ run # None => (run.pc = "service" => run.p = Service)
    /\ run # None /\ run.pc \in {"stage", "dump", "store", "byId", "byName", "untagged"} =>
          run.p \in Ids
    /\ In("dump") => stage[run.p] = {}
    /\ In("store") => stage[run.p] \subseteq {run.n}
    /\ run # None /\ run.pc \in {"byId", "byName", "untagged"} => run.max > 0
    /\ kills = 0 => \A p \in Ids : stage[p] # {} =>
          run # None /\ run.p = p /\ run.pc # "stage"


(* No retention, of this or another profile or of the legacy modes, ever   *)
(* removes the newest snapshot of a profile: only a user does              *)
(* (backup-all.sh:258-283); and however profiles are renamed and deleted,  *)
(* the dashboard has it under its profile as long as that exists           *)
(* (app.py:342-363).                                                       *)
LatestKept ==
    \A p \in Ids : latest[p] # None =>
        /\ latest[p] \in snaps
        /\ profiles[p] # None => Owners(latest[p]) = {p}

(* After the retention by id, at most max_backups snapshots with the       *)
(* profile's id and its name of this run are left, whatever hosts made     *)
(* them (backup-all.sh:261).                                               *)
OwnBounded ==
    run # None /\ run.pc \in {"byName", "untagged"} =>
        Cardinality({s \in snaps : s.tagged /\ s.by = run.p /\ s.name = run.name}) <= run.max

(* Each of the finitely many snapshots has a time of its own: the number   *)
(* kept of a group is then the number of times.                            *)
TimesInv == IsFiniteSet(snaps) /\ \A s, t \in snaps : s.time = t.time => s = t

IInv == TypeOK /\ LatestInv /\ StageInv /\ TimesInv /\ OwnBounded

(* "Per-profile staging dir: holds ONLY this run's fresh output"           *)
(* (backup-all.sh:160): a snapshot never contains what a killed run left.  *)
FreshOnly ==
    [][\A s \in snaps' \ snaps : s.by \in Ids => stage[s.by] = {s.time}]_vars

(* "raw dump files never accumulate in the backup volume"                  *)
(* (backup-all.sh:98): unless runs were killed, only the running profile   *)
(* has files staged.                                                       *)
StageCleared == kills = 0 => \A p \in Ids : stage[p] # {} => run # None /\ run.p = p

(* "The id tag keeps retention correct even if the user later renames the  *)
(* profile" (backup-all.sh:255-256) and "only that number of the profile's *)
(* last snapshots is kept" (docs/API.md:330): after the retention of a     *)
(* run, its profile has at most max_backups tagged snapshots.              *)
AtMostMax ==
    run # None /\ run.pc \in {"byName", "untagged"} =>
        Cardinality({s \in snaps : s.tagged /\ s.by = run.p}) <= run.max

(* Runs of other profiles and of the legacy modes, at step pc, remove none *)
(* of the last max_backups snapshots of a profile.                         *)
OthersKeptAt(pc) ==
    In(pc) /\ run' # run =>
        \A s \in snaps \ snaps' :
           s.tagged /\ s.by # run.p /\ profiles[s.by] # None /\ profiles[s.by].max > 0 =>
              Cardinality({t \in Later(snaps, s) : t.tagged /\ t.by = s.by}) >= profiles[s.by].max

(* "respect_retention" (app.py:365-394) shows the newest backup of every   *)
(* profile.                                                                *)
LatestShown ==
    \A p \in Ids : latest[p] # None /\ profiles[p] # None =>
        \A whose \in [snaps -> Ids \cup {None}] :
            (\A s \in snaps : IF Owners(s) = {} THEN whose[s] = None ELSE whose[s] \in Owners(s))
                => latest[p] \in Shown(p, whose)

(* "only that number of the last snapshots of that profile is kept"        *)
(* (docs/API.md:330), and the retention by name is for "older snapshots    *)
(* created before the stable profile id tag existed" (backup-all.sh:262):  *)
(* it leaves another profile's last max_backups snapshots alone ...        *)
KeptByNameRetention == [][OthersKeptAt("byName")]_vars

(* ... and so does the global policy of another profile's run.             *)
KeptByGlobalRetention == [][OthersKeptAt("global")]_vars

(* "Check if profile is enabled" (backup-all.sh:148): no run starts for a  *)
(* disabled profile.                                                       *)
DisabledSkipped ==
    [][run = None /\ run' # None /\ run'.p # Service => profiles[run'.p].enabled]_vars

=============================================================================
