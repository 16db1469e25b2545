---------------------------- MODULE VerificationRun ----------------------------
(***************************************************************************)
(* One verification after the other: the seven steps of Verification.run   *)
(* with the copies of the backup they make in the work directory, and the  *)
(* archives found in the backup, and the last step's                       *)
(* PostgresRestoreTester, which replays the dumps among them on a scratch  *)
(* PostgreSQL server.  On the server a run makes                           *)
(* databases of its own and a cluster dump makes roles; both are dropped   *)
(* after each dump, and what an interrupted run left is dropped by the     *)
(* next one: databases by the prefix of their names, roles by the list in  *)
(* the file verify-postgres-roles.json, written before they are made.      *)
(*                                                                         *)
(* Any statement can fail or time out, any save of the record can fail and *)
(* the worker can die.  verify.lock keeps the runs apart.  Other users of  *)
(* the server make and drop roles of their own at any time.                *)
(***************************************************************************)
EXTENDS Integers, FiniteSets, Sequences, ArchiveInspection

CONSTANTS
    Roles,       \* roles that dumps create or that are on the server
    MaxRuns,     \* bound on verifications
    MaxDumps,    \* bound on the dumps of one backup
    MaxDbs,      \* bound on the databases of one dump
    MaxDeaths,   \* bound on dying workers
    None         \* no file / no copy

ASSUME BoundsAssumption ==
    /\ MaxRuns \in Nat /\ MaxDumps \in Nat /\ MaxDbs \in Nat \ {0} /\ MaxDeaths \in Nat

ASSUME NoneAssumption == \A R \in SUBSET Roles : R # None

VARIABLES
    pc,        \* where the run is
    no,        \* its number: the token in the names of its databases
    steps,     \* the status of each step
    broken,    \* an exception ended the steps
    status,    \* the verdict
    copies,    \* the copies of the backup in the work directory
    results,   \* what the inspection of its archives found so far
    flawed,    \* history: one of them fails its inspection
    dumps,     \* dumps among them that are still to be replayed
    worst,     \* the worst result of a dump
    dbs,       \* Backupstic's databases on the server
    roles,     \* roles on the server
    foreign,   \* those of them that somebody else has made
    hung,      \* psql does not read on
    mine,      \* scratch_dbs: databases the current dump has made
    created,   \* _created_roles: the roles of the current dump
    todo,      \* roles that are still to be listed or dropped
    kept,      \* roles that could not be dropped
    pending,   \* verify-postgres-roles.json; an unreadable file counts as empty
    torn,      \* history: the list of roles that are still there was not written
    deaths     \* workers that died

archiveVars == <<results, flawed>>
stepVars == <<steps, broken, status, copies, archiveVars>>
serverVars == <<dbs, roles, foreign, hung>>
dumpVars == <<dumps, worst>>
testerVars == <<mine, created, todo, kept>>
fileVars == <<pending, torn>>
pgVars == <<dumpVars, serverVars, testerVars, fileVars>>
vars == <<pc, no, stepVars, pgVars, deaths>>

(* restore, package, extract, decrypt, compare, archives and postgres *)
Nth == 1..7
Statuses == {"pending", "running", "passed", "warning", "failed", "skipped"}
Verdicts == {"running", "passed", "warning", "failed"}
Copies == {"data", "repository", "archive", "extracted", "decrypted"}
Databases == (1..MaxRuns) \X (0..MaxDbs - 1)

(* What a step writes, and what it removes when it has written it.         *)
Makes == <<{"data"}, {"repository", "archive"}, {"extracted"}, {"decrypted"}, {}, {}, {}>>
Frees == <<{}, {"repository"}, {"archive"}, {"extracted"}, {"data"}, {}, {}>>

(* Where the tester is once no database of an earlier run is left, and     *)
(* where a run is at all.                                                  *)
CleanStages == {"leftoverRoles", "leftoverList", "dump", "list", "feed", "drain",
                "dropDbs", "dropRoles", "relist"}
TesterStages == {"leftoverDbs"} \cup CleanStages
Stages == {"idle", "next", "step", "made", "ending"} \cup TesterStages

TypeOK ==
    /\ pc \in Stages
    /\ no \in 0..MaxRuns
    /\ steps \in [Nth -> Statuses]
    /\ broken \in BOOLEAN
    /\ status \in Verdicts
    /\ copies \in SUBSET Copies
    /\ results \in SUBSET {"passed", "warning", "failed"} /\ flawed \in BOOLEAN
    /\ dumps \in 0..MaxDumps
    /\ worst \in {"passed", "warning", "failed"}
    /\ dbs \in SUBSET Databases /\ mine \in SUBSET Databases
    /\ roles \in SUBSET Roles /\ foreign \in SUBSET Roles
    /\ created \in SUBSET Roles /\ todo \in SUBSET Roles /\ kept \in SUBSET Roles
    /\ hung \in BOOLEAN
    /\ pending \in {None} \cup SUBSET Roles
    /\ torn \in BOOLEAN
    /\ deaths \in 0..MaxDeaths

(* The scratch server may have roles of somebody else.                     *)
Init ==
    /\ pc = "idle" /\ no = 0
    /\ steps = [k \in Nth |-> "pending"] /\ broken = FALSE /\ status = "passed"
    /\ copies = {} /\ results = {} /\ flawed = FALSE
    /\ dumps = 0 /\ worst = "passed"
    /\ dbs = {} /\ roles \in SUBSET Roles /\ foreign = roles /\ hung = FALSE
    /\ mine = {} /\ created = {} /\ todo = {} /\ kept = {}
    /\ pending = None /\ torn = FALSE
    /\ deaths = 0

-----------------------------------------------------------------------------
(* The steps *)

(* run_verification_job has removed the work directories of dead runs; the *)
(* first save may fail.                                                    *)
StartRun ==
    /\ pc = "idle" /\ no < MaxRuns
    /\ no' = no + 1
    /\ steps' = [k \in Nth |-> "pending"] /\ broken' = FALSE
    /\ copies' = {} /\ results' = {} /\ flawed' = FALSE
    /\ dumps' = 0
    /\ \/ pc' = "next" /\ status' = "running"
       \/ pc' = "idle" /\ status' = "failed"
    /\ UNCHANGED <<worst, serverVars, testerVars, fileVars, deaths>>

Current == {k \in Nth : steps[k] = "running"}
Waiting == {k \in Nth : steps[k] = "pending"}

(* The next step is saved as running, or the save fails.                   *)
BeginStep ==
    /\ pc = "next" /\ Waiting # {}
    /\ \E k \in Waiting :
          /\ \A j \in Waiting : k <= j
          /\ steps' = [steps EXCEPT ![k] = "running"]
    /\ \/ pc' = "step" /\ broken' = broken
       \/ pc' = "ending" /\ broken' = TRUE
    /\ UNCHANGED <<no, status, copies, archiveVars, pgVars, deaths>>

(* The current step ends with a status, which is saved, or the save fails. *)
EndStep(st) ==
    /\ \E k \in Current : steps' = [steps EXCEPT ![k] = st]
    /\ \/ pc' = "next" /\ broken' = broken
       \/ pc' = "ending" /\ broken' = TRUE
    /\ UNCHANGED <<no, status, deaths>>

(* The current step raises. *)
BreakStep ==
    /\ \E k \in Current : steps' = [steps EXCEPT ![k] = "failed"]
    /\ pc' = "ending" /\ broken' = TRUE
    /\ UNCHANGED <<no, status, deaths>>

(* restic, tar or the file system fails, the password, the copy or an      *)
(* archive is wrong, the lock or the disk space is not to be had.          *)
FailStep ==
    /\ pc \in {"step", "made"}
    /\ \E k \in Current :
          /\ k < 7
          /\ copies' \in {copies, copies \cup Makes[k]}
    /\ BreakStep
    /\ UNCHANGED <<archiveVars, pgVars>>

MakeCopy ==
    /\ pc = "step"
    /\ \E k \in Current : k < 6 /\ copies' = copies \cup Makes[k]
    /\ pc' = "made"
    /\ UNCHANGED <<no, steps, broken, status, archiveVars, pgVars, deaths>>

(* Faulty: the archive stays when it is extracted. *)
PassStep_KeepsArchive ==
    /\ pc = "made"
    /\ \E k \in Current :
          /\ copies' = IF k = 3 THEN copies ELSE copies \ Frees[k]
          /\ \E st \in IF k = 3 THEN {"passed", "warning"} ELSE {"passed"} : EndStep(st)
    /\ UNCHANGED <<archiveVars, pgVars>>

(* A bundle without its README is a warning.                               *)
PassStep ==
    /\ pc = "made"
    /\ \E k \in Current :
          /\ copies' = copies \ Frees[k]
          /\ \E st \in IF k = 3 THEN {"passed", "warning"} ELSE {"passed"} : EndStep(st)
    /\ UNCHANGED <<archiveVars, pgVars>>

(* The sixth step reads one archive after the other, and remembers those   *)
(* that are dumps of PostgreSQL.                                           *)
Inspect ==
    /\ pc = "step" /\ Current = {6}
    /\ \E f \in File : \E result \in Inspected(f) :
          /\ results' = results \cup {result}
          /\ flawed' = (flawed \/ Fails(f))
          /\ PostgresDump(f, result) => dumps < MaxDumps
          /\ dumps' = IF PostgresDump(f, result) THEN dumps + 1 ELSE dumps
    /\ UNCHANGED <<pc, no, steps, broken, status, copies, worst, serverVars, testerVars,
                   fileVars, deaths>>

(* Faulty: warnings are looked at before failures. *)
EndArchives_WarningFirst ==
    /\ pc = "step" /\ Current = {6}
    /\ IF results = {} \/ "warning" \in results THEN EndStep("warning")
       ELSE IF "failed" \in results THEN BreakStep ELSE EndStep("passed")
    /\ UNCHANGED <<copies, archiveVars, pgVars>>

(* All are read: a failed one fails the step, and none at all is a         *)
(* warning.                                                                *)
EndArchives ==
    /\ pc = "step" /\ Current = {6}
    /\ IF "failed" \in results THEN BreakStep
       ELSE EndStep(IF results = {} \/ "warning" \in results THEN "warning" ELSE "passed")
    /\ UNCHANGED <<copies, archiveVars, pgVars>>

(* Faulty: the open steps get a status that is no status of a step. *)
EndRun_Interrupted ==
    /\ pc = "ending" \/ (pc = "next" /\ Waiting = {})
    /\ copies' = {}
    /\ steps' = [k \in Nth |-> IF broken /\ steps[k] \in {"pending", "running"}
                               THEN "interrupted" ELSE steps[k]]
    /\ status' = IF broken THEN "failed" ELSE "passed"
    /\ pc' = "idle"
    /\ UNCHANGED <<no, broken, archiveVars, pgVars, deaths>>

(* The work directory is removed and the verdict given; what becomes of    *)
(* the last save is VerificationStore's.                                   *)
EndRun ==
    /\ pc = "ending" \/ (pc = "next" /\ Waiting = {})
    /\ copies' = {}
    /\ steps' = [k \in Nth |-> IF broken /\ steps[k] \in {"pending", "running"}
                               THEN "skipped" ELSE steps[k]]
    /\ status' = CASE broken -> "failed"
                   [] ~broken /\ \E k \in Nth : steps[k] = "warning" -> "warning"
                   [] OTHER -> "passed"
    /\ pc' = "idle"
    /\ UNCHANGED <<no, broken, archiveVars, pgVars, deaths>>

-----------------------------------------------------------------------------
(* The last step: the scratch server *)

(* No dumps in the backup, or no VERIFY_POSTGRES_URL *)
SkipPostgres ==
    /\ pc = "step" /\ Current = {7}
    /\ EndStep("skipped")
    /\ UNCHANGED <<copies, archiveVars, pgVars>>

StartPostgres ==
    /\ pc = "step" /\ Current = {7}
    /\ dumps > 0
    /\ pc' = "leftoverDbs"
    /\ worst' = "passed"
    /\ UNCHANGED <<no, stepVars, dumps, serverVars, testerVars, fileVars, deaths>>

(* "Verification PostgreSQL server is unavailable": the version cannot be  *)
(* read, or the clean-up of leftovers fails or times out.                  *)
Unavailable ==
    /\ pc \in {"leftoverDbs", "leftoverRoles", "leftoverList"}
    /\ EndStep("warning")
    /\ todo' = {} /\ kept' = {}
    /\ torn' = (torn \/ pc = "leftoverList")
    /\ UNCHANGED <<copies, archiveVars, dumpVars, serverVars, mine, created, pending>>

DropLeftoverDb ==
    /\ pc = "leftoverDbs"
    /\ \E d \in dbs : dbs' = dbs \ {d}
    /\ UNCHANGED <<pc, no, stepVars, dumpVars, roles, foreign, hung, testerVars, fileVars, deaths>>

(* The roles in the file *)
Listed == IF pending = None THEN {} ELSE pending

(* Faulty: whatever databases are left, the roles are next. *)
ReadList_Anyway ==
    /\ pc = "leftoverDbs"
    /\ pc' = "leftoverRoles"
    /\ todo' = Listed /\ kept' = {}
    /\ UNCHANGED <<no, stepVars, dumpVars, serverVars, mine, created, fileVars, deaths>>

ReadList ==
    /\ pc = "leftoverDbs" /\ dbs = {}
    /\ pc' = "leftoverRoles"
    /\ todo' = Listed /\ kept' = {}
    /\ UNCHANGED <<no, stepVars, dumpVars, serverVars, mine, created, fileVars, deaths>>

(* drop_roles: one role is dropped, whoever made it, or cannot be.         *)
DropRole ==
    /\ pc \in {"leftoverRoles", "dropRoles"}
    /\ \E r \in todo :
          /\ todo' = todo \ {r}
          /\ \/ roles' = roles \ {r} /\ foreign' = foreign \ {r} /\ kept' = kept
             \/ UNCHANGED <<roles, foreign>> /\ kept' = kept \cup {r}
    /\ UNCHANGED <<pc, no, stepVars, dumpVars, dbs, hung, mine, created, fileVars, deaths>>

(* Faulty: the roles that were kept are tried again. *)
EndDropRoles_Retries ==
    /\ pc \in {"leftoverRoles", "dropRoles"} /\ todo = {}
    /\ todo' = kept /\ kept' = {}
    /\ IF kept = {} THEN pending' = None /\ pc' = "dump"
       ELSE pending' = pending /\ pc' = pc
    /\ UNCHANGED <<no, stepVars, dumpVars, serverVars, mine, created, torn, deaths>>

(* Faulty: the file is removed although roles were kept. *)
EndDropRoles_Unlinks ==
    /\ pc \in {"leftoverRoles", "dropRoles"} /\ todo = {}
    /\ pending' = None
    /\ pc' = "dump"
    /\ UNCHANGED <<no, stepVars, dumpVars, serverVars, testerVars, torn, deaths>>

(* All roles were tried: the file is removed, or opened for the new list.  *)
EndDropRoles ==
    /\ pc \in {"leftoverRoles", "dropRoles"} /\ todo = {}
    /\ IF kept = {} THEN pending' = None /\ pc' = "dump"
       ELSE pending' = {} /\ pc' = IF pc = "dropRoles" THEN "relist" ELSE "leftoverList"
    /\ UNCHANGED <<no, stepVars, dumpVars, serverVars, testerVars, torn, deaths>>

(* The list of the kept roles is written. *)
WriteKept ==
    /\ pc \in {"leftoverList", "relist"}
    /\ pending' = kept /\ kept' = {}
    /\ pc' = "dump"
    /\ UNCHANGED <<no, stepVars, dumpVars, serverVars, mine, created, todo, torn, deaths>>

(* The clean-up after a dump goes wrong beyond a role that stays: it is    *)
(* noted in the dump's detail.                                             *)
CleanupProblem ==
    /\ pc \in {"dropRoles", "relist"}
    /\ pc' = "dump"
    /\ todo' = {} /\ kept' = {}
    /\ torn' = (torn \/ pc = "relist")
    /\ UNCHANGED <<no, stepVars, dumpVars, serverVars, mine, created, pending, deaths>>

-----------------------------------------------------------------------------
(* The last step: the dumps *)

(* A plain dump is replayed. *)
BeginPlain ==
    /\ pc = "dump" /\ dumps > 0
    /\ dumps' = dumps - 1
    /\ pc' = "feed"
    /\ UNCHANGED <<no, stepVars, worst, serverVars, testerVars, fileVars, deaths>>

(* Faulty: whatever is on the server. *)
BeginCluster_Anywhere ==
    /\ pc = "dump" /\ dumps > 0
    /\ dumps' = dumps - 1
    /\ pending' = {} /\ pc' = "list" /\ todo' \in SUBSET Roles
    /\ UNCHANGED <<no, stepVars, worst, serverVars, mine, created, kept, torn, deaths>>

(* Of a cluster dump the roles are listed first, on an empty server.       *)
BeginCluster ==
    /\ pc = "dump" /\ dumps > 0 /\ roles = {}
    /\ dumps' = dumps - 1
    /\ pending' = {} /\ pc' = "list" /\ todo' \in SUBSET Roles
    /\ UNCHANGED <<no, stepVars, worst, serverVars, mine, created, kept, torn, deaths>>

(* The server has objects of others, or cannot be asked. *)
RefuseCluster ==
    /\ pc = "dump" /\ dumps > 0
    /\ dumps' = dumps - 1
    /\ pc' = "dropDbs"
    /\ worst' = IF worst = "failed" THEN worst ELSE "warning"
    /\ UNCHANGED <<no, stepVars, serverVars, testerVars, fileVars, deaths>>

(* The save of the dump's detail fails. *)
FailDetail ==
    /\ pc = "dump" /\ dumps > 0
    /\ BreakStep
    /\ UNCHANGED <<copies, archiveVars, pgVars>>

ListRoles ==
    /\ pc = "list"
    /\ pending' = todo
    /\ created' = todo /\ todo' = {}
    /\ pc' = "feed"
    /\ UNCHANGED <<no, stepVars, dumpVars, serverVars, mine, kept, torn, deaths>>

(* psql executes statements of the globals. *)
CreateRole ==
    /\ pc = "feed" /\ ~hung /\ mine = {}
    /\ \E r \in created \ roles : roles' = roles \cup {r}
    /\ UNCHANGED <<pc, no, stepVars, dumpVars, dbs, foreign, hung, testerVars, fileVars, deaths>>

Scratch == <<no, Cardinality(mine)>>

(* create_scratch_database for the next segment of the dump, after the     *)
(* psql of the one before has ended.                                       *)
CreateDatabase ==
    /\ pc = "feed" /\ ~hung
    /\ Cardinality(mine) < MaxDbs /\ Scratch \notin dbs
    /\ dbs' = dbs \cup {Scratch}
    /\ mine' = mine \cup {Scratch}
    /\ UNCHANGED <<pc, no, stepVars, dumpVars, roles, foreign, hung, created, todo, kept,
                   fileVars, deaths>>

(* psql stops reading for good: while lines are written to it nothing is   *)
(* timed.                                                                  *)
Hang ==
    /\ pc = "feed" /\ ~hung
    /\ hung' = TRUE
    /\ UNCHANGED <<pc, no, stepVars, dumpVars, dbs, roles, foreign, testerVars, fileVars, deaths>>

(* The last line is written. *)
EndFeed ==
    /\ pc = "feed" /\ ~hung
    /\ pc' = "drain"
    /\ UNCHANGED <<no, stepVars, pgVars, deaths>>

(* psql ends and its errors are classified. *)
EndDump ==
    /\ pc = "drain"
    /\ pc' = "dropDbs"
    /\ \E result \in {"passed", "warning", "failed"} :
          worst' = CASE "failed" \in {result, worst} -> "failed"
                     [] "failed" \notin {result, worst} /\ "warning" \in {result, worst} -> "warning"
                     [] OTHER -> "passed"
    /\ UNCHANGED <<no, stepVars, dumps, serverVars, testerVars, fileVars, deaths>>

(* The server fails or psql does not end in time; a statement whose answer *)
(* did not come may have made its database.                                *)
ServerProblem ==
    /\ pc \in {"list", "feed", "drain"} /\ ~hung
    /\ pc' = "dropDbs"
    /\ worst' = IF worst = "failed" THEN worst ELSE "warning"
    /\ todo' = {}
    /\ \/ dbs' = dbs
       \/ pc = "feed" /\ Cardinality(mine) < MaxDbs /\ dbs' = dbs \cup {Scratch}
    /\ UNCHANGED <<no, stepVars, dumps, roles, foreign, hung, mine, created, kept, fileVars, deaths>>

(* An exception that is none of the server's, such as a broken archive:    *)
(* after the clean-up it ends the step, and no other dump is replayed.     *)
BreakDump ==
    /\ pc \in {"list", "feed", "drain"} /\ ~hung
    /\ pc' = "dropDbs"
    /\ dumps' = 0 /\ worst' = "failed"
    /\ todo' = {}
    /\ UNCHANGED <<no, stepVars, serverVars, mine, created, kept, fileVars, deaths>>

(* cleanup: each of the dump's databases is dropped or reported. *)
DropScratch ==
    /\ pc = "dropDbs"
    /\ \E d \in mine : mine' = mine \ {d} /\ dbs' \in {dbs, dbs \ {d}}
    /\ UNCHANGED <<pc, no, stepVars, dumpVars, roles, foreign, hung, created, todo, kept,
                   fileVars, deaths>>

BeginDropRoles ==
    /\ pc = "dropDbs" /\ mine = {}
    /\ todo' = created /\ created' = {}
    /\ kept' = {}
    /\ pc' = IF created = {} THEN "dump" ELSE "dropRoles"
    /\ UNCHANGED <<no, stepVars, dumpVars, serverVars, mine, fileVars, deaths>>

(* All dumps are done. *)
EndPostgres ==
    /\ pc = "dump" /\ dumps = 0
    /\ IF worst = "failed" THEN BreakStep ELSE EndStep(worst)
    /\ UNCHANGED <<copies, archiveVars, pgVars>>

(* The container stops or the worker dies, and its psql with it. *)
Die ==
    /\ pc # "idle" /\ deaths < MaxDeaths
    /\ pc' = "idle"
    /\ deaths' = deaths + 1
    /\ status' = "running"
    /\ torn' = (torn \/ pc \in {"leftoverList", "relist"})
    /\ hung' = FALSE
    /\ mine' = {} /\ created' = {} /\ todo' = {} /\ kept' = {} /\ dumps' = 0
    /\ UNCHANGED <<no, steps, broken, copies, archiveVars, worst, dbs, roles, foreign, pending>>

-----------------------------------------------------------------------------
(* Other users of the server *)

OtherMakesRole ==
    /\ \E r \in Roles \ roles : roles' = roles \cup {r} /\ foreign' = foreign \cup {r}
    /\ UNCHANGED <<pc, no, stepVars, dumpVars, dbs, hung, testerVars, fileVars, deaths>>

OtherDropsRole ==
    /\ \E r \in foreign : roles' = roles \ {r} /\ foreign' = foreign \ {r}
    /\ UNCHANGED <<pc, no, stepVars, dumpVars, dbs, hung, testerVars, fileVars, deaths>>

Others == OtherMakesRole \/ OtherDropsRole

-----------------------------------------------------------------------------
Tester ==
    \/ SkipPostgres \/ StartPostgres \/ Unavailable \/ DropLeftoverDb \/ ReadList
    \/ DropRole \/ EndDropRoles \/ WriteKept \/ CleanupProblem
    \/ BeginPlain \/ BeginCluster \/ RefuseCluster \/ FailDetail \/ ListRoles
    \/ CreateRole \/ CreateDatabase \/ EndFeed \/ EndDump \/ ServerProblem \/ BreakDump
    \/ DropScratch \/ BeginDropRoles \/ EndPostgres

Work ==
    \/ BeginStep \/ FailStep \/ MakeCopy \/ PassStep \/ Inspect \/ EndArchives \/ EndRun
    \/ Tester

Next == StartRun \/ Work \/ Hang \/ Die \/ Others

Spec == Init /\ [][Next]_vars

(* The job's thread goes on; whether psql reads on is the server's affair. *)
FairSpec == Spec /\ WF_vars(Work)

-----------------------------------------------------------------------------
(* Properties *)

(* The inductive invariant.  The steps end one after the other ...         *)
Ended(k) == {"passed", "warning"} \cup {st \in {"skipped"} : k = 7}
Passed(n) == \A k \in Nth : k <= n => steps[k] \in Ended(k)
Open(n) == \A k \in Nth : k > n => steps[k] = "pending"

(* ... and leave these copies behind ...                                   *)
After == [n \in 0..7 |-> CASE n = 0 -> {}
                           [] n = 1 -> {"data"}
                           [] n = 2 -> {"data", "archive"}
                           [] n = 3 -> {"data", "extracted"}
                           [] n = 4 -> {"data", "decrypted"}
                           [] n \in 5..7 -> {"decrypted"}]

StepsInv ==
    /\ pc # "idle" => no > 0
    /\ pc \notin {"idle", "ending"} => ~broken
    /\ pc = "ending" => broken
    /\ pc = "next" => \E n \in 0..7 : Passed(n) /\ Open(n) /\ copies = After[n]
    /\ pc \in {"step", "made"} \cup TesterStages =>
          \E n \in Nth :
              /\ Passed(n - 1) /\ steps[n] = "running" /\ Open(n)
              /\ copies = IF pc = "made" THEN After[n - 1] \cup Makes[n] ELSE After[n - 1]
              /\ pc = "made" => n < 6
              /\ pc \in TesterStages => n = 7

CopiesInv == \E n \in Nth : copies \subseteq After[n - 1] \cup Makes[n]

(* ... the databases of earlier runs are gone once leftovers were dropped, *)
DbsInv == pc \in CleanStages => \A d \in dbs : d[1] = no

(* and every role that a dump has made is on file until it is dropped.     *)
Own == roles \ foreign

RolesInv ==
    /\ foreign \subseteq roles
    /\ pc = "list" => Own = {} /\ created = {}
    /\ created # {} => /\ pc \in {"feed", "drain", "dropDbs"}
                       /\ pending = created /\ Own \subseteq created
    /\ ~torn => /\ pc \in {"leftoverRoles", "dropRoles"} => Own \subseteq todo \cup kept
                /\ pc \in {"leftoverList", "relist"} => Own \subseteq kept
                /\ pc \notin {"leftoverList", "relist"} => Own \subseteq Listed

(* The work directory never holds more than three copies of the backup:    *)
(* "needed = self.expected_size * 3" (verification.py:532) is enough.      *)
AtMostThreeCopies == Cardinality(copies) <= 3

(* What is replayed meets no database of an earlier run, whichever failed  *)
(* or died (postgres_verify.py:182-191).                                   *)
OwnScratchOnly == pc \in {"feed", "drain"} => \A d \in dbs : d[1] = no

(* The names that Backupstic takes for those of its own roles: in the      *)
(* file, or in the hands of a run that makes, keeps or drops them.         *)
Claimed == Listed \cup created \cup todo \cup kept

(* What becomes of roles that somebody else has made, at any time, also    *)
(* while a dump is replayed (postgres_verify.py:182-217, 276-295): no name *)
(* of such a role gets claimed while the role is there, over all dumps,    *)
(* failures and deaths, and only claimed roles are dropped.  So those that *)
(* Backupstic drops were made under a name it had claimed before.          *)
ForeignKept ==
    [][\A r \in foreign :
          (r \in foreign' /\ r \in Claimed') \/ (r \notin foreign' /\ ~Others) => r \in Claimed]_vars

(* "Anything on the server that Backupstic did not create"                 *)
(* (postgres_verify.py:225) is never dropped.  Not so: roles are dropped   *)
(* by their names, those of a run that died and those of a dump under way. *)
ForeignNeverDropped == [][foreign \subseteq foreign' \/ Others]_vars

(* Every role that a dump has made is in the file, before it is made and   *)
(* until it is dropped, unless a rewriting of the file is under way or was *)
(* interrupted (postgres_verify.py:201-222, 287-295).                      *)
RolesRecorded ==
    torn \/ pc \in {"leftoverList", "relist"} \/ Own \subseteq Listed

(* "Fully read one archive and report whether it opens cleanly"            *)
(* (verification.py:361): a verdict other than failed is given only when   *)
(* every step up to the archives has passed, and no archive of the backup  *)
(* is broken in a way that reading it can tell.                            *)
VerdictHonest ==
    pc = "idle" /\ status \in {"passed", "warning"} /\ no > 0 =>
        /\ \A k \in 1..6 : steps[k] \in {"passed", "warning"}
        /\ steps[7] \in {"passed", "warning", "skipped"}
        /\ ~flawed

(* A broken archive leads to a failed step. *)
FlawInv ==
    flawed => \/ steps[6] = "failed"
              \/ /\ steps[6] = "running"
                 /\ \/ pc = "step" /\ "failed" \in results
                    \/ pc = "idle" /\ status = "running"

IInv == TypeOK /\ StepsInv /\ CopiesInv /\ FlawInv /\ DbsInv /\ RolesInv /\ VerdictHonest

(* Every run ends, unless psql hangs for ever. *)
RunsEndUnlessHung == []<>(pc = "idle") \/ <>[]hung

(* "Record the roles this dump creates before running it, so an            *)
(* interrupted run can still be cleaned up next time"                      *)
(* (postgres_verify.py:287-288): between runs every role of a dump is in   *)
(* the file.                                                               *)
RolesRecoverable == pc = "idle" => Own \subseteq Listed

(* "still report which step broke" (verification.py:519): a failed run has *)
(* a failed step.                                                          *)
BrokenStepReported ==
    pc = "idle" /\ status = "failed" /\ steps # [k \in Nth |-> "pending"] =>
        \E k \in Nth : steps[k] = "failed"

(* VERIFY_POSTGRES_TIMEOUT is "the most time the restore of a dump takes"  *)
(* (docs/API.md:856): every run ends.                                      *)
RunsEnd == []<>(pc = "idle")

=============================================================================
