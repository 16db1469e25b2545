------------------------ MODULE VerificationRun_proofs ------------------------
(***************************************************************************)
(* Proofs about VerificationRun, for any roles and any numbers of runs,    *)
(* dumps, databases and deaths, and about DumpReplay, which has the replay *)
(* of one of the dumps line by line, for dumps of any length.              *)
(***************************************************************************)
EXTENDS VerificationRun, DumpReplay, FiniteSetTheorems, TLAPS

(* What a step may be, for the case distinctions below. *)
LEMMA StepCases ==
    ASSUME [Next]_vars
    PROVE  \/ StartRun \/ BeginStep \/ FailStep \/ MakeCopy \/ PassStep \/ EndRun
           \/ Inspect \/ EndArchives \/ SkipPostgres \/ StartPostgres \/ Unavailable \/ DropLeftoverDb \/ ReadList
           \/ DropRole \/ EndDropRoles \/ WriteKept \/ CleanupProblem
           \/ BeginPlain \/ BeginCluster \/ RefuseCluster \/ FailDetail \/ ListRoles
           \/ CreateRole \/ CreateDatabase \/ EndFeed \/ EndDump \/ ServerProblem \/ BreakDump
           \/ DropScratch \/ BeginDropRoles \/ EndPostgres \/ Hang \/ Die \/ Others
           \/ UNCHANGED vars
  BY DEF Next, Work, Tester

-----------------------------------------------------------------------------
(* Types *)

(* The next scratch database has a name of its own among those there are.  *)
LEMMA ScratchType ==
    ASSUME TypeOK, no > 0, Cardinality(mine) < MaxDbs
    PROVE  Scratch \in Databases
<1>1. IsFiniteSet(1..MaxRuns) /\ IsFiniteSet(0..MaxDbs - 1)
  BY FS_Interval, BoundsAssumption
<1>2. IsFiniteSet(Databases)
  BY <1>1, FS_Product DEF Databases
<1>3. Cardinality(mine) \in Nat
  BY <1>2, FS_Subset, FS_CardinalityType DEF TypeOK
<1>4. QED
  BY <1>3, BoundsAssumption DEF TypeOK, Scratch, Databases

LEMMA StepsType ==
    ASSUME TypeOK, NEW S \in SUBSET Nth, NEW st \in Statuses
    PROVE  \A k \in S : [steps EXCEPT ![k] = st] \in [Nth -> Statuses]
  BY DEF TypeOK

LEMMA EndStepType ==
    ASSUME TypeOK, NEW st \in {"passed", "warning", "skipped"}, EndStep(st)
    PROVE  /\ pc' \in {"next", "ending"} /\ steps' \in [Nth -> Statuses] /\ broken' \in BOOLEAN
           /\ no' = no /\ status' = status /\ deaths' = deaths
  BY DEF TypeOK, EndStep, Current, Statuses

LEMMA BreakStepType ==
    ASSUME TypeOK, BreakStep
    PROVE  /\ pc' = "ending" /\ steps' \in [Nth -> Statuses] /\ broken' = TRUE
           /\ no' = no /\ status' = status /\ deaths' = deaths
  BY DEF TypeOK, BreakStep, Current, Statuses

LEMMA CopiesTyped ==
    \A k \in Nth : Makes[k] \in SUBSET Copies /\ Frees[k] \in SUBSET Copies
  BY DEF Makes, Frees, Nth, Copies

LEMMA ListedType == TypeOK => Listed \in SUBSET Roles
  BY DEF TypeOK, Listed

LEMMA InitType == Init => TypeOK
<1> SUFFICES ASSUME Init PROVE TypeOK
  OBVIOUS
<1>1. steps \in [Nth -> Statuses]
  BY DEF Init, Statuses
<1>2. 0 \in 0..MaxRuns /\ 0 \in 0..MaxDumps /\ 0 \in 0..MaxDeaths
  BY BoundsAssumption
<1>3. pc \in Stages /\ status \in Verdicts /\ copies \in SUBSET Copies
  BY DEF Init, Stages, Verdicts
<1>4. foreign \in SUBSET Roles /\ roles \in SUBSET Roles
  BY DEF Init
<1>5. QED
  BY <1>1, <1>2, <1>3, <1>4 DEF Init, TypeOK

LEMMA StepType ==
    ASSUME TypeOK, StepsInv, [Next]_vars
    PROVE  TypeOK'
<1> USE DEF stepVars, archiveVars, serverVars, dumpVars, testerVars, fileVars, pgVars
<1> USE DEF Stages, TesterStages, CleanStages, Verdicts
<1>1. CASE StartRun
  <2>1. steps' \in [Nth -> Statuses]
    BY <1>1 DEF StartRun, Statuses
  <2>2. no' \in 0..MaxRuns /\ dumps' \in 0..MaxDumps
    BY <1>1, BoundsAssumption DEF TypeOK, StartRun
  <2>3. QED
    BY <1>1, <2>1, <2>2 DEF TypeOK, StartRun
<1>2. CASE BeginStep
  <2>1. steps' \in [Nth -> Statuses]
    BY <1>2 DEF BeginStep, TypeOK, Statuses, Waiting
  <2>2. QED
    BY <1>2, <2>1 DEF TypeOK, BeginStep
<1>3. CASE FailStep
  <2>1. copies' \in SUBSET Copies
    BY <1>3, CopiesTyped DEF FailStep, TypeOK, Current
  <2>2. /\ pc' \in Stages /\ steps' \in [Nth -> Statuses] /\ broken' \in BOOLEAN
        /\ no' = no /\ status' = status /\ deaths' = deaths
    BY <1>3, BreakStepType DEF FailStep
  <2>3. UNCHANGED <<archiveVars, pgVars>>
    BY <1>3 DEF FailStep
  <2>4. QED
    BY <2>1, <2>2, <2>3 DEF TypeOK
<1>4. CASE MakeCopy
  <2>1. copies' \in SUBSET Copies
    BY <1>4, CopiesTyped DEF MakeCopy, TypeOK, Current
  <2>2. QED
    BY <1>4, <2>1 DEF TypeOK, MakeCopy
<1>5. CASE PassStep
  <2>1. copies' \in SUBSET Copies
    BY <1>5 DEF PassStep, TypeOK
  <2>2. PICK st \in {"passed", "warning"} : EndStep(st)
    BY <1>5 DEF PassStep
  <2>3. QED
    BY <1>5, <2>1, <2>2, EndStepType DEF TypeOK, PassStep
<1>6. CASE EndRun
  <2>1. steps' \in [Nth -> Statuses]
    BY <1>6 DEF EndRun, TypeOK, Statuses
  <2>2. status' \in Verdicts
    BY <1>6 DEF EndRun, TypeOK
  <2>3. QED
    BY <1>6, <2>1, <2>2 DEF TypeOK, EndRun, Copies
<1>7. CASE SkipPostgres
  BY <1>7, EndStepType DEF TypeOK, SkipPostgres
<1>8. CASE Unavailable
  BY <1>8, EndStepType DEF TypeOK, Unavailable
<1>9. CASE FailDetail
  BY <1>9, BreakStepType DEF TypeOK, FailDetail
<1>10. CASE EndPostgres
  <2>1. CASE worst = "failed"
    BY <1>10, <2>1, BreakStepType DEF TypeOK, EndPostgres
  <2>2. CASE worst # "failed"
    <3>1. worst \in {"passed", "warning"}
      BY <2>2 DEF TypeOK
    <3>2. QED
      BY <1>10, <2>2, <3>1, EndStepType DEF TypeOK, EndPostgres
  <2>3. QED
    BY <2>1, <2>2
<1>11. CASE StartPostgres
  BY <1>11, BoundsAssumption DEF TypeOK, StartPostgres
<1>12. CASE ReadList
  BY <1>12, ListedType DEF TypeOK, ReadList
<1>13. CASE DropLeftoverDb \/ CreateRole
  <2>1. CASE DropLeftoverDb
    BY <2>1 DEF TypeOK, DropLeftoverDb
  <2>2. CASE CreateRole
    BY <2>2 DEF TypeOK, CreateRole
  <2>3. QED
    BY <1>13, <2>1, <2>2
<1>14. CASE DropRole
  BY <1>14 DEF TypeOK, DropRole
<1>15. CASE EndDropRoles
  BY <1>15 DEF TypeOK, EndDropRoles
<1>16. CASE WriteKept \/ CleanupProblem
  <2>1. CASE WriteKept
    BY <2>1 DEF TypeOK, WriteKept
  <2>2. CASE CleanupProblem
    BY <2>2 DEF TypeOK, CleanupProblem
  <2>3. QED
    BY <1>16, <2>1, <2>2
<1>17. CASE BeginPlain \/ RefuseCluster
  <2>1. dumps' \in 0..MaxDumps /\ worst' \in {"passed", "warning", "failed"}
    BY <1>17, BoundsAssumption DEF TypeOK, BeginPlain, RefuseCluster
  <2>2. QED
    BY <1>17, <2>1 DEF TypeOK, BeginPlain, RefuseCluster
<1>18. CASE BeginCluster
  BY <1>18, BoundsAssumption DEF TypeOK, BeginCluster
<1>19. CASE ListRoles \/ EndFeed \/ Hang
  <2>1. CASE ListRoles
    BY <2>1 DEF TypeOK, ListRoles
  <2>2. CASE EndFeed
    BY <2>2 DEF TypeOK, EndFeed
  <2>3. CASE Hang
    BY <2>3 DEF TypeOK, Hang
  <2>4. QED
    BY <1>19, <2>1, <2>2, <2>3
<1>20. CASE CreateDatabase
  BY <1>20, ScratchType DEF TypeOK, CreateDatabase, StepsInv
<1>21. CASE EndDump
  <2>1. worst' \in {"passed", "warning", "failed"}
    BY <1>21 DEF EndDump
  <2>2. UNCHANGED <<no, steps, broken, status, copies, results, flawed, dumps, dbs, roles, foreign,
                    hung, mine, created, todo, kept, pending, torn, deaths>> /\ pc' = "dropDbs"
    BY <1>21 DEF EndDump
  <2>3. QED
    BY <2>1, <2>2 DEF TypeOK
<1>22. CASE ServerProblem
  <2>1. dbs' \in SUBSET Databases
    BY <1>22, ScratchType DEF TypeOK, ServerProblem, StepsInv
  <2>2. QED
    BY <1>22, <2>1 DEF TypeOK, ServerProblem
<1>23. CASE BreakDump
  BY <1>23, BoundsAssumption DEF TypeOK, BreakDump
<1>24. CASE DropScratch
  BY <1>24 DEF TypeOK, DropScratch
<1>25. CASE BeginDropRoles
  BY <1>25 DEF TypeOK, BeginDropRoles
<1>26. CASE Die
  <2>1. deaths' \in 0..MaxDeaths
    BY <1>26, BoundsAssumption DEF TypeOK, Die
  <2>2. torn' \in BOOLEAN /\ dumps' \in 0..MaxDumps
    BY <1>26, BoundsAssumption DEF TypeOK, Die
  <2>3. QED
    BY <1>26, <2>1, <2>2 DEF TypeOK, Die
<1>27. CASE UNCHANGED vars
  BY <1>27 DEF TypeOK, vars
<1>28. CASE Inspect
  <2>1. \A f \in File : Inspected(f) \subseteq {"passed", "warning", "failed"}
    BY DEF Inspected, CheckRdb
  <2>2. \A f \in File : Fails(f) \in BOOLEAN
    BY DEF Fails
  <2>3. results' \in SUBSET {"passed", "warning", "failed"} /\ flawed' \in BOOLEAN
    BY <1>28, <2>1, <2>2 DEF TypeOK, Inspect
  <2>4. dumps' \in 0..MaxDumps
    BY <1>28, BoundsAssumption DEF TypeOK, Inspect
  <2>5. QED
    BY <1>28, <2>3, <2>4 DEF TypeOK, Inspect
<1>29. CASE EndArchives
  <2>1. BreakStep \/ \E st \in {"passed", "warning", "skipped"} : EndStep(st)
    BY <1>29 DEF EndArchives
  <2>2. pc' \in {"next", "ending"} /\ steps' \in [Nth -> Statuses] /\ broken' \in BOOLEAN
    BY <2>1, EndStepType, BreakStepType
  <2>3. no' = no /\ status' = status /\ deaths' = deaths
    BY <2>1, EndStepType, BreakStepType
  <2>4. QED
    BY <1>29, <2>2, <2>3 DEF TypeOK, EndArchives
<1>30. CASE Others
  <2>1. roles' \in SUBSET Roles /\ foreign' \in SUBSET Roles
    BY <1>30 DEF TypeOK, Others, OtherMakesRole, OtherDropsRole
  <2>2. UNCHANGED <<pc, no, steps, broken, status, copies, results, flawed, dumps, worst, dbs, hung,
                    mine, created, todo, kept, pending, torn, deaths>>
    BY <1>30 DEF Others, OtherMakesRole, OtherDropsRole
  <2>3. QED
    BY <2>1, <2>2 DEF TypeOK
<1>31. QED
  BY StepCases, <1>28, <1>29, <1>30, <1>1, <1>2, <1>3, <1>4, <1>5, <1>6, <1>7, <1>8, <1>9, <1>10, <1>11, <1>12,
     <1>13, <1>14, <1>15, <1>16, <1>17, <1>18, <1>19, <1>20, <1>21, <1>22, <1>23, <1>24,
     <1>25, <1>26, <1>27

-----------------------------------------------------------------------------
(* The steps and the copies *)

(* What a step works with and leaves. *)
LEMMA CopiesFollow ==
    ASSUME NEW n \in 1..6
    PROVE  /\ (After[n - 1] \cup Makes[n]) \ Frees[n] = After[n]
           /\ After[n - 1] \subseteq After[n - 1] \cup Makes[n]
<1>1. CASE n = 1
  BY <1>1 DEF After, Makes, Frees
<1>2. CASE n = 2
  BY <1>2 DEF After, Makes, Frees
<1>3. CASE n = 3
  BY <1>3 DEF After, Makes, Frees
<1>4. CASE n = 4
  BY <1>4 DEF After, Makes, Frees
<1>5. CASE n = 5
  BY <1>5 DEF After, Makes, Frees
<1>6. CASE n = 6
  BY <1>6 DEF After, Makes, Frees
<1>7. QED
  BY <1>1, <1>2, <1>3, <1>4, <1>5, <1>6

(* The step that runs is the n of the invariant. *)
LEMMA CurrentIs ==
    ASSUME NEW n \in Nth, Passed(n - 1), steps[n] = "running", Open(n)
    PROVE  Current = {n}
<1>1. \A k \in Nth : k < n => steps[k] # "running"
  BY DEF Passed, Ended, Nth
<1>2. \A k \in Nth : k > n => steps[k] # "running"
  BY DEF Open
<1>3. QED
  BY <1>1, <1>2 DEF Current, Nth

(* The end of a step in good order. *)
LEMMA EndStepFollows ==
    ASSUME TypeOK, StepsInv, pc \in {"step", "made"} \cup TesterStages,
           NEW n \in Nth, Passed(n - 1), steps[n] = "running", Open(n),
           NEW st \in Ended(n), EndStep(st)
    PROVE  /\ no' > 0
           /\ pc' = "next" => ~broken' /\ Passed(n)' /\ Open(n)'
           /\ pc' = "ending" => broken'
           /\ pc' \in {"next", "ending"}
<1>1. Current = {n}
  BY CurrentIs
<1>2. steps' = [steps EXCEPT ![n] = st]
  BY <1>1 DEF EndStep
<1>3. Passed(n)'
  BY <1>2 DEF Passed, TypeOK, Nth
<1>4. Open(n)'
  BY <1>2 DEF Open, TypeOK, Nth
<1>5. QED
  BY <1>3, <1>4 DEF EndStep, StepsInv, Stages, TesterStages, CleanStages

(* What a verdict other than failed says of the steps, and with FlawInv of *)
(* the archives. *)
StepsPassed ==
    pc = "idle" /\ status \in {"passed", "warning"} /\ no > 0 =>
        /\ \A k \in 1..6 : steps[k] \in {"passed", "warning"}
        /\ steps[7] \in {"passed", "warning", "skipped"}

LEMMA VerdictFollows == StepsPassed /\ FlawInv <=> VerdictHonest /\ FlawInv
  BY DEF StepsPassed, FlawInv, VerdictHonest

LEMMA VerdictAfter == StepsPassed' /\ FlawInv' => VerdictHonest'
  BY DEF StepsPassed, FlawInv, VerdictHonest

LEMMA InitSteps == Init => StepsInv /\ CopiesInv /\ StepsPassed /\ FlawInv
  BY DEF Init, FlawInv, StepsInv, TesterStages, CleanStages, CopiesInv, StepsPassed, Nth

(* The steps that only work on the server *)
LEMMA TesterSteps ==
    \/ DropLeftoverDb \/ ReadList \/ DropRole \/ EndDropRoles \/ WriteKept
    \/ CleanupProblem \/ BeginPlain \/ BeginCluster \/ RefuseCluster
    \/ ListRoles \/ CreateRole \/ CreateDatabase \/ EndFeed \/ EndDump \/ ServerProblem
    \/ BreakDump \/ DropScratch \/ BeginDropRoles \/ Hang
    => UNCHANGED <<no, stepVars>> /\ pc \in TesterStages /\ pc' \in TesterStages
<1> USE DEF stepVars, archiveVars, TesterStages, CleanStages
<1>1. \/ DropLeftoverDb \/ ReadList \/ DropRole \/ EndDropRoles \/ WriteKept
       \/ CleanupProblem \/ BeginPlain \/ BeginCluster \/ RefuseCluster
       => UNCHANGED <<no, stepVars>> /\ pc \in TesterStages /\ pc' \in TesterStages
  BY DEF DropLeftoverDb, ReadList, DropRole, EndDropRoles, WriteKept, CleanupProblem,
         BeginPlain, BeginCluster, RefuseCluster
<1>2. \/ ListRoles \/ CreateRole \/ CreateDatabase \/ EndFeed \/ EndDump \/ ServerProblem
       \/ BreakDump \/ DropScratch \/ BeginDropRoles \/ Hang
       => UNCHANGED <<no, stepVars>> /\ pc \in TesterStages /\ pc' \in TesterStages
  BY DEF ListRoles, CreateRole, CreateDatabase, EndFeed, EndDump, ServerProblem, BreakDump,
         DropScratch, BeginDropRoles, Hang
<1>3. QED
  BY <1>1, <1>2

(* What others do to the server *)
LEMMA OtherSteps ==
    Others => UNCHANGED <<pc, no, stepVars, dbs, hung, mine, created, todo, kept, pending, torn>>
  BY DEF Others, OtherMakesRole, OtherDropsRole, testerVars, fileVars

LEMMA StepsStep ==
    ASSUME TypeOK, StepsInv, CopiesInv, StepsPassed, [Next]_vars
    PROVE  StepsInv' /\ CopiesInv' /\ StepsPassed'
<1> USE DEF stepVars, archiveVars, TesterStages, CleanStages
<1>1. CASE StartRun
  <2>1. Passed(0)' /\ Open(0)' /\ copies' = After[0]
    BY <1>1 DEF StartRun, Passed, Open, Nth, After
  <2>2. no' > 0
    BY <1>1 DEF StartRun, TypeOK
  <2>3. StepsInv'
    BY <1>1, <2>1, <2>2 DEF StartRun, StepsInv
  <2>4. QED
    BY <1>1, <2>3 DEF StartRun, CopiesInv, StepsPassed, Nth
<1>2. CASE BeginStep
  <2>1. PICK n \in 0..7 : Passed(n) /\ Open(n) /\ copies = After[n]
    BY <1>2 DEF BeginStep, StepsInv
  <2>2. PICK k \in Waiting :
          /\ \A j \in Waiting : k <= j
          /\ steps' = [steps EXCEPT ![k] = "running"]
    BY <1>2 DEF BeginStep
  <2>3. k = n + 1 /\ k \in Nth
    <3>1. k \in Nth /\ ~(k <= n)
      BY <2>1 DEF Waiting, Passed, Ended
    <3>2. n + 1 \in Waiting
      BY <2>1, <3>1 DEF Waiting, Open, Nth
    <3>3. QED
      BY <2>2, <3>1, <3>2 DEF Nth
  <2>4. Passed(n)' /\ steps'[k] = "running" /\ Open(k)'
    BY <2>1, <2>2, <2>3 DEF Passed, Open, TypeOK, Nth
  <2>5. copies' = After[k - 1] /\ pc' \in {"step", "ending"} /\ k - 1 = n
    BY <1>2, <2>1, <2>3 DEF BeginStep, Nth
  <2>6. StepsInv'
    BY <1>2, <2>3, <2>4, <2>5 DEF BeginStep, StepsInv
  <2>7. QED
    BY <2>3, <2>5, <2>6 DEF CopiesInv, StepsPassed
<1>3. CASE FailStep
  <2>1. PICK n \in Nth : /\ Passed(n - 1) /\ steps[n] = "running" /\ Open(n)
                         /\ copies \subseteq After[n - 1] \cup Makes[n]
    BY <1>3 DEF FailStep, StepsInv
  <2>2. Current = {n}
    BY <2>1, CurrentIs
  <2>3. copies' \subseteq After[n - 1] \cup Makes[n]
    BY <1>3, <2>1, <2>2 DEF FailStep
  <2>4. QED
    BY <1>3, <2>3 DEF FailStep, BreakStep, StepsInv, CopiesInv, StepsPassed
<1>4. CASE MakeCopy
  <2>1. PICK n \in Nth : /\ Passed(n - 1) /\ steps[n] = "running" /\ Open(n)
                         /\ copies = After[n - 1]
    BY <1>4 DEF MakeCopy, StepsInv
  <2>2. Current = {n}
    BY <2>1, CurrentIs
  <2>3. n < 6 /\ copies' = After[n - 1] \cup Makes[n]
    BY <1>4, <2>1, <2>2 DEF MakeCopy
  <2>4. Passed(n - 1)' /\ steps'[n] = "running" /\ Open(n)'
    BY <1>4, <2>1 DEF MakeCopy, Passed, Open
  <2>5. StepsInv'
    BY <1>4, <2>3, <2>4 DEF MakeCopy, StepsInv
  <2>6. QED
    BY <1>4, <2>3, <2>5 DEF MakeCopy, CopiesInv, StepsPassed
<1>5. CASE PassStep
  <2>1. PICK n \in Nth : /\ Passed(n - 1) /\ steps[n] = "running" /\ Open(n)
                         /\ copies = After[n - 1] \cup Makes[n] /\ n < 6
    BY <1>5 DEF PassStep, StepsInv
  <2>2. Current = {n}
    BY <2>1, CurrentIs
  <2>3. copies' = After[n]
    BY <1>5, <2>1, <2>2, CopiesFollow DEF PassStep, Nth
  <2>4. PICK st \in Ended(n) : EndStep(st)
    BY <1>5 DEF PassStep, Ended
  <2>5. /\ no' > 0 /\ pc' \in {"next", "ending"}
        /\ pc' = "next" => ~broken' /\ Passed(n)' /\ Open(n)'
        /\ pc' = "ending" => broken'
    BY <1>5, <2>1, <2>4, EndStepFollows DEF PassStep
  <2>6. copies' \subseteq After[n - 1] \cup Makes[n]
    BY <1>5, <2>1 DEF PassStep
  <2>7. n \in 0..7
    BY DEF Nth
  <2>8. StepsInv'
    BY <2>3, <2>5, <2>7 DEF StepsInv
  <2>9. QED
    BY <2>5, <2>6, <2>8 DEF CopiesInv, StepsPassed
<1>6. CASE EndRun
  <2>1. StepsInv' /\ CopiesInv'
    BY <1>6 DEF EndRun, StepsInv, CopiesInv, Nth
  <2>2. CASE broken
    BY <1>6, <2>1, <2>2 DEF EndRun, StepsPassed
  <2>3. CASE ~broken
    <3>1. PICK n \in 0..7 : Passed(n) /\ Open(n)
      BY <1>6, <2>3 DEF EndRun, StepsInv
    <3>2. pc = "next" /\ Waiting = {}
      BY <1>6, <2>3 DEF EndRun, StepsInv
    <3>3. n = 7
      BY <3>1, <3>2 DEF Open, Waiting, Nth
    <3>4. \A k \in Nth : steps[k] \in Ended(k)
      BY <3>1, <3>3 DEF Passed, Nth
    <3>5. steps' = [k \in Nth |-> steps[k]]
      BY <1>6, <2>3 DEF EndRun
    <3>6. \A k \in Nth : steps'[k] \in Ended(k)
      BY <3>4, <3>5
    <3>7. QED
      BY <2>1, <3>6 DEF StepsPassed, Ended, Nth
  <2>4. QED
    BY <2>2, <2>3 DEF TypeOK
<1>7. CASE SkipPostgres \/ Unavailable \/ FailDetail \/ EndPostgres
  <2>1. PICK n \in Nth : /\ Passed(n - 1) /\ steps[n] = "running" /\ Open(n)
                         /\ copies = After[n - 1]
    BY <1>7 DEF SkipPostgres, Unavailable, FailDetail, EndPostgres, StepsInv
  <2>2. Current = {n}
    BY <2>1, CurrentIs
  <2>3. n = 7
    <3>1. CASE SkipPostgres
      BY <2>2, <3>1 DEF SkipPostgres
    <3>2. CASE Unavailable \/ FailDetail \/ EndPostgres
      <4>1. pc \in TesterStages
        BY <3>2 DEF Unavailable, FailDetail, EndPostgres
      <4>2. PICK m \in Nth : /\ Passed(m - 1) /\ steps[m] = "running" /\ Open(m) /\ m = 7
        BY <4>1 DEF StepsInv
      <4>3. QED
        BY <2>2, <4>2, CurrentIs
    <3>3. QED
      BY <1>7, <3>1, <3>2
  <2>4. copies' = After[7 - 1] /\ After[7 - 1] = After[7]
    BY <1>7, <2>1, <2>3 DEF SkipPostgres, Unavailable, FailDetail, EndPostgres, After
  <2>5. CopiesInv'
    BY <2>4 DEF CopiesInv, Nth
  <2>6. CASE BreakStep
    BY <2>5, <2>6, <1>7 DEF BreakStep, StepsInv, StepsPassed,
       SkipPostgres, Unavailable, FailDetail, EndPostgres
  <2>7. CASE \E st \in Ended(7) : EndStep(st)
    <3>1. /\ no' > 0 /\ pc' \in {"next", "ending"}
          /\ pc' = "next" => ~broken' /\ Passed(7)' /\ Open(7)'
          /\ pc' = "ending" => broken'
      BY <1>7, <2>1, <2>3, <2>7, EndStepFollows
         DEF SkipPostgres, Unavailable, FailDetail, EndPostgres
    <3>2. StepsInv'
      BY <2>4, <3>1 DEF StepsInv
    <3>3. QED
      BY <2>5, <3>1, <3>2 DEF StepsPassed
  <2>8. BreakStep \/ \E st \in Ended(7) : EndStep(st)
    BY <1>7 DEF SkipPostgres, Unavailable, FailDetail, EndPostgres, Ended, TypeOK
  <2>9. QED
    BY <2>6, <2>7, <2>8
<1>8. CASE StartPostgres
  <2>1. PICK n \in Nth : /\ Passed(n - 1) /\ steps[n] = "running" /\ Open(n)
                         /\ copies = After[n - 1]
    BY <1>8 DEF StartPostgres, StepsInv
  <2>2. n = 7
    BY <1>8, <2>1, CurrentIs DEF StartPostgres
  <2>3. Passed(n - 1)' /\ steps'[n] = "running" /\ Open(n)'
    BY <1>8, <2>1 DEF StartPostgres, Passed, Open
  <2>4. StepsInv'
    BY <1>8, <2>1, <2>2, <2>3 DEF StartPostgres, StepsInv
  <2>5. QED
    BY <1>8, <2>4 DEF StartPostgres, CopiesInv, StepsPassed
<1>9. CASE UNCHANGED <<no, stepVars>> /\ pc \in TesterStages /\ pc' \in TesterStages
  <2>1. PICK n \in Nth : /\ Passed(n - 1) /\ steps[n] = "running" /\ Open(n)
                         /\ copies = After[n - 1] /\ n = 7
    BY <1>9 DEF StepsInv
  <2>2. Passed(n - 1)' /\ steps'[n] = "running" /\ Open(n)'
    BY <1>9, <2>1 DEF Passed, Open
  <2>3. StepsInv'
    BY <1>9, <2>1, <2>2 DEF StepsInv
  <2>4. QED
    BY <1>9, <2>3 DEF CopiesInv, StepsPassed
<1>10. CASE Die
  BY <1>10 DEF Die, StepsInv, CopiesInv, StepsPassed
<1>11. CASE UNCHANGED vars
  BY <1>11 DEF vars, StepsInv, CopiesInv, StepsPassed, Passed, Open
<1>12. CASE Inspect
  BY <1>12 DEF Inspect, StepsInv, CopiesInv, StepsPassed, Passed, Open
<1>13. CASE EndArchives
  <2>1. PICK n \in Nth : /\ Passed(n - 1) /\ steps[n] = "running" /\ Open(n)
                         /\ copies = After[n - 1]
    BY <1>13 DEF EndArchives, StepsInv
  <2>2. n = 6
    BY <1>13, <2>1, CurrentIs DEF EndArchives
  <2>3. copies' = After[6 - 1] /\ After[6 - 1] = After[6]
    BY <1>13, <2>1, <2>2 DEF EndArchives, After
  <2>4. CopiesInv'
    BY <2>3 DEF CopiesInv, Nth
  <2>5. CASE BreakStep
    BY <1>13, <2>4, <2>5 DEF BreakStep, StepsInv, StepsPassed, EndArchives
  <2>6. CASE \E st \in Ended(6) : EndStep(st)
    <3>1. /\ no' > 0 /\ pc' \in {"next", "ending"}
          /\ pc' = "next" => ~broken' /\ Passed(6)' /\ Open(6)'
          /\ pc' = "ending" => broken'
      BY <1>13, <2>1, <2>2, <2>6, EndStepFollows DEF EndArchives
    <3>2. StepsInv'
      BY <2>3, <3>1 DEF StepsInv
    <3>3. QED
      BY <2>4, <3>1, <3>2 DEF StepsPassed
  <2>7. BreakStep \/ \E st \in Ended(6) : EndStep(st)
    BY <1>13 DEF EndArchives, Ended
  <2>8. QED
    BY <2>5, <2>6, <2>7
<1>14. CASE Others
  BY <1>14 DEF Others, OtherMakesRole, OtherDropsRole, StepsInv, CopiesInv, StepsPassed, Passed, Open
<1>15. QED
  BY StepCases, <1>14, <1>1, <1>2, <1>3, <1>4, <1>5, <1>6, <1>7, <1>8, <1>9, <1>10, <1>11, TesterSteps, <1>12,
     <1>13

LEMMA FlawStep ==
    ASSUME TypeOK, StepsInv, FlawInv, [Next]_vars
    PROVE  FlawInv'
<1> USE DEF stepVars, archiveVars
<1>1. CASE ~flawed
  <2>1. CASE Inspect
    <3>1. \A f \in File : Fails(f) => Inspected(f) = {"failed"}
      BY DEF Inspected
    <3>2. flawed' => "failed" \in results'
      BY <1>1, <2>1, <3>1 DEF Inspect
    <3>3. steps'[6] = "running" /\ pc' = "step"
      BY <2>1 DEF Inspect, Current
    <3>4. QED
      BY <3>2, <3>3 DEF FlawInv
  <2>2. CASE ~Inspect
    <3>1. ~flawed'
      <4>1. CASE StartRun \/ BeginStep \/ FailStep \/ MakeCopy \/ PassStep \/ EndRun \/ EndArchives
        BY <1>1, <4>1 DEF StartRun, BeginStep, FailStep, MakeCopy, PassStep, EndRun, EndArchives
      <4>2. CASE SkipPostgres \/ StartPostgres \/ Unavailable \/ FailDetail \/ EndPostgres \/ Die
                 \/ UNCHANGED vars
        BY <1>1, <4>2 DEF SkipPostgres, StartPostgres, Unavailable, FailDetail, EndPostgres, Die, vars
      <4>3. CASE UNCHANGED stepVars
        BY <1>1, <4>3
      <4>4. QED
        BY <2>2, StepCases, TesterSteps, OtherSteps, <4>1, <4>2, <4>3
    <3>2. QED
      BY <3>1 DEF FlawInv
  <2>3. QED
    BY <2>1, <2>2
<1>2. CASE flawed /\ steps[6] = "failed"
  <2>1. ASSUME NEW k \in Current \cup Waiting, NEW st PROVE [steps EXCEPT ![k] = st][6] = "failed"
    BY <1>2, <2>1 DEF Current, Waiting, TypeOK, Nth
  <2>2. CASE StartRun
    BY <2>2 DEF StartRun, FlawInv
  <2>3. CASE BeginStep
    BY <2>1, <2>3 DEF BeginStep, FlawInv
  <2>4. CASE \/ FailStep \/ PassStep \/ EndArchives
             \/ SkipPostgres \/ Unavailable \/ FailDetail \/ EndPostgres
    <3>1. BreakStep \/ \E st \in Statuses \cup {worst} : EndStep(st)
      BY <2>4 DEF FailStep, PassStep, EndArchives, SkipPostgres, Unavailable, FailDetail, EndPostgres,
                  Statuses
    <3>2. steps'[6] = "failed"
      BY <2>1, <3>1 DEF EndStep, BreakStep
    <3>3. QED
      BY <3>2 DEF FlawInv
  <2>5. CASE EndRun
    BY <1>2, <2>5 DEF EndRun, FlawInv, Nth
  <2>6. CASE MakeCopy \/ Inspect \/ StartPostgres \/ Die \/ UNCHANGED vars
    BY <1>2, <2>6 DEF MakeCopy, Inspect, StartPostgres, Die, vars, FlawInv
  <2>7. CASE UNCHANGED stepVars
    BY <1>2, <2>7 DEF FlawInv
  <2>8. QED
    BY StepCases, TesterSteps, OtherSteps, <2>2, <2>3, <2>4, <2>5, <2>6, <2>7
<1>3. CASE /\ flawed /\ steps[6] = "running"
           /\ pc = "step" /\ "failed" \in results
  <2>1. Current = {6}
    <3>1. PICK n \in Nth : Passed(n - 1) /\ steps[n] = "running" /\ Open(n)
      BY <1>3 DEF StepsInv
    <3>2. Current = {n}
      BY <3>1, CurrentIs
    <3>3. QED
      BY <1>3, <3>2 DEF Current, Nth
  <2>2. CASE FailStep \/ EndArchives
    BY <1>3, <2>1, <2>2 DEF FailStep, EndArchives, BreakStep, FlawInv, TypeOK, Nth
  <2>3. CASE Inspect
    BY <1>3, <2>3 DEF Inspect, FlawInv
  <2>4. CASE Die
    BY <1>3, <2>4 DEF Die, FlawInv
  <2>5. CASE UNCHANGED <<pc, steps, results, flawed>>
    BY <1>3, <2>5 DEF FlawInv
  <2>6. ~MakeCopy /\ ~SkipPostgres /\ ~StartPostgres
    BY <2>1 DEF MakeCopy, SkipPostgres, StartPostgres
  <2>7. ~StartRun /\ ~BeginStep /\ ~PassStep /\ ~EndRun
    BY <1>3 DEF StartRun, BeginStep, PassStep, EndRun
  <2>8. pc \notin TesterStages
    BY <1>3 DEF TesterStages, CleanStages
  <2>9. ~Unavailable /\ ~FailDetail /\ ~EndPostgres
    BY <1>3 DEF Unavailable, FailDetail, EndPostgres
  <2>10. QED
    BY StepCases, TesterSteps, OtherSteps, <2>2, <2>3, <2>4, <2>5, <2>6, <2>7, <2>8, <2>9 DEF vars
<1>4. CASE flawed /\ steps[6] = "running" /\ pc = "idle" /\ status = "running"
  <2>1. CASE StartRun
    BY <2>1 DEF StartRun, FlawInv
  <2>2. CASE UNCHANGED <<pc, stepVars>>
    BY <1>4, <2>2 DEF FlawInv
  <2>3. ~BeginStep /\ ~FailStep /\ ~MakeCopy /\ ~PassStep /\ ~EndRun /\ ~Inspect /\ ~EndArchives
    BY <1>4 DEF BeginStep, FailStep, MakeCopy, PassStep, EndRun, Inspect, EndArchives
  <2>4. ~SkipPostgres /\ ~StartPostgres /\ ~Unavailable /\ ~FailDetail /\ ~EndPostgres /\ ~Die
    BY <1>4 DEF SkipPostgres, StartPostgres, Unavailable, FailDetail, EndPostgres, Die
  <2>5. pc \notin TesterStages
    BY <1>4 DEF TesterStages, CleanStages
  <2>6. QED
    BY StepCases, TesterSteps, OtherSteps, <2>1, <2>2, <2>3, <2>4, <2>5 DEF vars
<1>5. QED
  BY <1>1, <1>2, <1>3, <1>4 DEF FlawInv

-----------------------------------------------------------------------------
(* The scratch server *)

LEMMA DbsStep ==
    ASSUME TypeOK, DbsInv, [Next]_vars
    PROVE  DbsInv'
<1> USE DEF dumpVars, serverVars, testerVars, fileVars, pgVars, stepVars, archiveVars, CleanStages
<1>1. CASE \/ StartRun \/ BeginStep \/ FailStep \/ MakeCopy \/ PassStep \/ EndRun
           \/ Inspect \/ EndArchives
  BY <1>1 DEF StartRun, BeginStep, FailStep, MakeCopy, PassStep, EndRun, Inspect, EndArchives,
              EndStep, BreakStep, DbsInv
<1>2. CASE SkipPostgres \/ StartPostgres \/ Unavailable \/ FailDetail \/ EndPostgres
  BY <1>2 DEF SkipPostgres, StartPostgres, Unavailable, FailDetail, EndPostgres,
              EndStep, BreakStep, DbsInv
<1>3. CASE DropLeftoverDb \/ ReadList \/ DropRole \/ EndDropRoles \/ WriteKept \/ CleanupProblem
  BY <1>3 DEF DropLeftoverDb, ReadList, DropRole, EndDropRoles, WriteKept, CleanupProblem, DbsInv
<1>4. CASE BeginPlain \/ BeginCluster \/ RefuseCluster \/ ListRoles \/ CreateRole
  BY <1>4 DEF BeginPlain, BeginCluster, RefuseCluster, ListRoles, CreateRole, DbsInv
<1>5. CASE CreateDatabase \/ ServerProblem
  BY <1>5 DEF CreateDatabase, ServerProblem, Scratch, DbsInv
<1>6. CASE EndFeed \/ EndDump \/ BreakDump \/ DropScratch \/ BeginDropRoles \/ Hang
  BY <1>6 DEF EndFeed, EndDump, BreakDump, DropScratch, BeginDropRoles, Hang, DbsInv
<1>7. CASE Die \/ Others \/ UNCHANGED vars
  BY <1>7, OtherSteps DEF Die, vars, DbsInv
<1>8. QED
  BY StepCases, <1>1, <1>2, <1>3, <1>4, <1>5, <1>6, <1>7

LEMMA InitServer == Init => DbsInv /\ RolesInv
  BY DEF Init, DbsInv, CleanStages, RolesInv, Listed, Own

(* Whatever leaves the roles, their lists and the file alone. *)
LEMMA RolesAside ==
    ASSUME RolesInv, UNCHANGED <<roles, foreign, created, kept, todo, pending, torn>>,
           \/ pc' = pc
           \/ /\ pc \notin {"list", "leftoverRoles", "dropRoles", "leftoverList", "relist"}
              /\ pc' \notin {"list", "leftoverRoles", "dropRoles", "leftoverList", "relist"}
              /\ created = {} \/ pc' \in {"feed", "drain", "dropDbs"}
    PROVE  RolesInv'
  BY DEF RolesInv, Own, Listed

LEMMA RolesStep ==
    ASSUME TypeOK, StepsInv, RolesInv, [Next]_vars
    PROVE  RolesInv'
<1> USE DEF dumpVars, serverVars, testerVars, fileVars, pgVars, stepVars, archiveVars
<1>1. CASE \/ StartRun \/ BeginStep \/ FailStep \/ MakeCopy \/ PassStep \/ EndRun
           \/ Inspect \/ EndArchives
  <2>1. created = {}
    BY <1>1 DEF StartRun, BeginStep, FailStep, MakeCopy, PassStep, EndRun, Inspect, EndArchives,
                RolesInv
  <2>2. QED
    BY <1>1, <2>1, RolesAside
       DEF StartRun, BeginStep, FailStep, MakeCopy, PassStep, EndRun, Inspect, EndArchives,
           EndStep, BreakStep
<1>2. CASE SkipPostgres \/ StartPostgres \/ FailDetail \/ EndPostgres
  <2>1. created = {}
    BY <1>2 DEF SkipPostgres, StartPostgres, FailDetail, EndPostgres, RolesInv
  <2>2. QED
    BY <1>2, <2>1, RolesAside
       DEF SkipPostgres, StartPostgres, FailDetail, EndPostgres, EndStep, BreakStep
<1>3. CASE DropLeftoverDb \/ BeginPlain \/ RefuseCluster
  BY <1>3, RolesAside DEF DropLeftoverDb, BeginPlain, RefuseCluster
<1>4. CASE CreateDatabase \/ EndFeed \/ EndDump \/ Hang \/ DropScratch
  BY <1>4, RolesAside DEF CreateDatabase, EndFeed, EndDump, Hang, DropScratch
<1>5. CASE ServerProblem \/ BreakDump
  BY <1>5 DEF ServerProblem, BreakDump, RolesInv, Own, Listed
<1>6. CASE Unavailable
  BY <1>6 DEF Unavailable, EndStep, RolesInv, Own, Listed
<1>7. CASE ReadList
  BY <1>7 DEF ReadList, RolesInv, Own, Listed
<1>8. CASE DropRole
  BY <1>8 DEF DropRole, RolesInv, Own, Listed
<1>9. CASE EndDropRoles
  BY <1>9 DEF EndDropRoles, RolesInv, Own, Listed
<1>10. CASE WriteKept
  BY <1>10, NoneAssumption DEF WriteKept, RolesInv, Own, Listed, TypeOK
<1>11. CASE CleanupProblem
  BY <1>11 DEF CleanupProblem, RolesInv, Own, Listed
<1>12. CASE BeginCluster
  BY <1>12 DEF BeginCluster, RolesInv, Own, Listed
<1>13. CASE ListRoles
  BY <1>13, NoneAssumption DEF ListRoles, RolesInv, Own, Listed, TypeOK
<1>14. CASE CreateRole
  BY <1>14, NoneAssumption DEF CreateRole, RolesInv, Own, Listed, TypeOK
<1>15. CASE BeginDropRoles
  BY <1>15, NoneAssumption DEF BeginDropRoles, RolesInv, Own, Listed, TypeOK
<1>16. CASE Die
  BY <1>16 DEF Die, RolesInv, Own, Listed
<1>17. CASE UNCHANGED vars
  BY <1>17, RolesAside DEF vars
<1>18. CASE Others
  <2>1. foreign' \subseteq roles' /\ Own' = Own
    BY <1>18 DEF Others, OtherMakesRole, OtherDropsRole, RolesInv, Own
  <2>2. QED
    BY <1>18, <2>1, OtherSteps DEF RolesInv, Listed
<1>19. QED
  BY StepCases, <1>1, <1>2, <1>3, <1>4, <1>5, <1>6, <1>7, <1>8, <1>9, <1>10, <1>11, <1>12,
     <1>13, <1>14, <1>15, <1>16, <1>17, <1>18

(* What a step may do to the roles of others and the names claimed: only   *)
(* DropRole drops what is claimed, and only BeginCluster claims anew, on a *)
(* server without roles.                                                   *)
LEMMA ForeignStep ==
    ASSUME TypeOK, StepsInv, RolesInv, [Next]_vars
    PROVE  \/ Others /\ Claimed' = Claimed
           \/ DropRole /\ foreign \ foreign' \subseteq Claimed /\ Claimed' \subseteq Claimed
           \/ foreign' = foreign /\ (Claimed' \subseteq Claimed \/ foreign = {})
<1> USE DEF dumpVars, serverVars, testerVars, fileVars, pgVars, stepVars, archiveVars
<1>1. CASE \/ StartRun \/ BeginStep \/ FailStep \/ MakeCopy \/ PassStep \/ EndRun
           \/ Inspect \/ EndArchives \/ SkipPostgres \/ StartPostgres \/ FailDetail \/ EndPostgres
  BY <1>1 DEF StartRun, BeginStep, FailStep, MakeCopy, PassStep, EndRun, Inspect, EndArchives,
              SkipPostgres, StartPostgres, FailDetail, EndPostgres, Claimed, Listed
<1>2. CASE \/ DropLeftoverDb \/ BeginPlain \/ RefuseCluster \/ CreateDatabase \/ CreateRole
           \/ EndFeed \/ EndDump \/ Hang \/ DropScratch
  BY <1>2 DEF DropLeftoverDb, BeginPlain, RefuseCluster, CreateDatabase, CreateRole,
              EndFeed, EndDump, Hang, DropScratch, Claimed, Listed
<1>3. CASE ServerProblem \/ BreakDump \/ Unavailable \/ CleanupProblem \/ Die
  BY <1>3 DEF ServerProblem, BreakDump, Unavailable, CleanupProblem, Die, Claimed, Listed
<1>4. CASE ReadList \/ EndDropRoles \/ BeginDropRoles
  BY <1>4 DEF ReadList, EndDropRoles, BeginDropRoles, Claimed, Listed
<1>5. CASE WriteKept \/ ListRoles
  BY <1>5, NoneAssumption DEF WriteKept, ListRoles, Claimed, Listed, TypeOK
<1>6. CASE DropRole
  <2>1. foreign \ foreign' \subseteq Claimed /\ Claimed' \subseteq Claimed
    BY <1>6 DEF DropRole, Claimed, Listed
  <2>2. QED
    BY <1>6, <2>1
<1>7. CASE BeginCluster
  <2>1. foreign = {}
    BY <1>7 DEF BeginCluster, RolesInv
  <2>2. QED
    BY <1>7, <2>1 DEF BeginCluster
<1>8. CASE Others
  BY <1>8, OtherSteps DEF Claimed, Listed
<1>9. CASE UNCHANGED vars
  BY <1>9 DEF vars, Claimed, Listed
<1>10. QED
  BY StepCases, <1>1, <1>2, <1>3, <1>4, <1>5, <1>6, <1>7, <1>8, <1>9

-----------------------------------------------------------------------------
(* Theorems *)

(* IInv is inductive: the steps end one after the other and leave known    *)
(* copies behind, earlier databases are gone once leftovers were dropped,  *)
(* and roles to be dropped are a dump's and on file until they are.        *)
THEOREM Invariance == Spec => []IInv
<1>1. Init => IInv
  BY InitType, InitSteps, InitServer, VerdictFollows DEF IInv
<1>2. IInv /\ [Next]_vars => IInv'
  BY StepType, StepsStep, FlawStep, VerdictFollows, VerdictAfter, DbsStep, RolesStep DEF IInv
<1>3. QED
  BY <1>1, <1>2, PTL DEF Spec

(* Every variable keeps its type (verification.py:469-731,                 *)
(* postgres_verify.py:152-342).                                            *)
THEOREM TypeCorrect == Spec => []TypeOK
<1>1. IInv => TypeOK
  BY DEF IInv
<1>2. QED
  BY <1>1, Invariance, PTL

LEMMA ThreeAtMost ==
    ASSUME NEW a, NEW b, NEW c, NEW S \in SUBSET {a, b, c}
    PROVE  Cardinality(S) <= 3
<1>1. IsFiniteSet({a}) /\ Cardinality({a}) = 1
  BY FS_Singleton
<1>2. IsFiniteSet({a, b}) /\ Cardinality({a, b}) <= 2 /\ Cardinality({a, b}) \in Nat
  <2>1. {a, b} = {a} \cup {b}
    OBVIOUS
  <2>2. QED
    BY <1>1, <2>1, FS_AddElement
<1>3. IsFiniteSet({a, b, c}) /\ Cardinality({a, b, c}) <= 3 /\ Cardinality({a, b, c}) \in Nat
  <2>1. {a, b, c} = {a, b} \cup {c}
    OBVIOUS
  <2>2. QED
    BY <1>2, <2>1, FS_AddElement
<1>4. Cardinality(S) <= Cardinality({a, b, c}) /\ Cardinality(S) \in Nat
  BY <1>3, FS_Subset, FS_CardinalityType
<1>5. QED
  BY <1>3, <1>4

(* The work directory never holds more than three copies of the backup,    *)
(* for which "needed" of verification.py:532 is computed.                  *)
THEOREM DiskSpaceSuffices == Spec => []AtMostThreeCopies
<1>1. CopiesInv => AtMostThreeCopies
  <2> SUFFICES ASSUME CopiesInv PROVE AtMostThreeCopies
    OBVIOUS
  <2>1. PICK n \in Nth : copies \subseteq After[n - 1] \cup Makes[n]
    BY DEF CopiesInv
  <2>2. \/ copies \subseteq {"data", "repository", "archive"}
        \/ copies \subseteq {"data", "archive", "extracted"}
        \/ copies \subseteq {"data", "extracted", "decrypted"}
    <3>1. CASE n = 1
      BY <2>1, <3>1 DEF After, Makes
    <3>2. CASE n = 2
      BY <2>1, <3>2 DEF After, Makes
    <3>3. CASE n = 3
      BY <2>1, <3>3 DEF After, Makes
    <3>4. CASE n = 4
      BY <2>1, <3>4 DEF After, Makes
    <3>5. CASE n = 5
      BY <2>1, <3>5 DEF After, Makes
    <3>6. CASE n = 6
      BY <2>1, <3>6 DEF After, Makes
    <3>7. CASE n = 7
      BY <2>1, <3>7 DEF After, Makes
    <3>8. QED
      BY <3>1, <3>2, <3>3, <3>4, <3>5, <3>6, <3>7 DEF Nth
  <2>3. QED
    BY <2>2, ThreeAtMost DEF AtMostThreeCopies
<1>2. IInv => CopiesInv
  BY DEF IInv
<1>3. QED
  BY <1>1, <1>2, Invariance, PTL

(* What is replayed meets no database of an earlier run, whichever failed  *)
(* or died (postgres_verify.py:182-191).                                   *)
THEOREM ServerCleanBeforeReplay == Spec => []OwnScratchOnly
<1>1. IInv => OwnScratchOnly
  BY DEF IInv, DbsInv, OwnScratchOnly, CleanStages
<1>2. QED
  BY <1>1, Invariance, PTL

(* No name of a role that somebody else has on the server gets claimed,    *)
(* and only claimed roles are dropped (postgres_verify.py:182-217,         *)
(* 276-295).                                                               *)
THEOREM ForeignRolesKept == Spec => ForeignKept
<1> DEFINE Safe(r) == (r \in foreign' /\ r \in Claimed') \/ (r \notin foreign' /\ ~Others)
                        => r \in Claimed
<1>1. IInv /\ [Next]_vars => [\A r \in foreign : Safe(r)]_vars
  <2> SUFFICES ASSUME IInv, [Next]_vars, NEW r \in foreign PROVE Safe(r)
    OBVIOUS
  <2>1. \/ Others /\ Claimed' = Claimed
        \/ DropRole /\ foreign \ foreign' \subseteq Claimed /\ Claimed' \subseteq Claimed
        \/ foreign' = foreign /\ (Claimed' \subseteq Claimed \/ foreign = {})
    BY ForeignStep DEF IInv
  <2>2. QED
    BY <2>1
<1>2. QED
  BY <1>1, Invariance, PTL DEF Spec, ForeignKept

(* Every role that a dump has made is on file until it is dropped, but for *)
(* the moment in which the file is rewritten                               *)
(* (postgres_verify.py:201-222, 287-295).                                  *)
THEOREM RolesOnFile == Spec => []RolesRecorded
<1>1. IInv => RolesRecorded
  BY DEF IInv, RolesInv, RolesRecorded
<1>2. QED
  BY <1>1, Invariance, PTL

(* Only a run whose steps have all passed gets a verdict other than failed *)
(* (verification.py:710-727).                                              *)
THEOREM Verdict == Spec => []VerdictHonest
<1>1. IInv => VerdictHonest
  BY DEF IInv
<1>2. QED
  BY <1>1, Invariance, PTL

-----------------------------------------------------------------------------
(* The replay of one dump, for dumps of any length.  What a line more      *)
(* means for the lines before it comes first (DataKept to Concatenation),  *)
(* then what psql is given of it, then the invariant action by action.     *)

(* A line more of the dump, whose number is n                              *)
Grows(l, n) ==
    /\ dump \in Seq(Line) /\ l \in Line /\ n = Len(dump) + 1
    /\ dump' = Append(dump, l) /\ cluster' = cluster

LEMMA Grown ==
    ASSUME NEW l, NEW n, Grows(l, n)
    PROVE  /\ n \in Nat /\ n >= 1 /\ Len(dump) = n - 1 /\ n - 1 \in Nat
           /\ dump' \in Seq(Line) /\ Len(dump') = n
           /\ dump'[n] = l /\ \A i \in 1..(n - 1) : dump'[i] = dump[i]
<1>1. Len(dump) \in Nat
  BY DEF Grows
<1>2. QED
  BY <1>1 DEF Grows

(* The lines before keep what they are. *)
LEMMA DataKept ==
    ASSUME NEW l, NEW n, Grows(l, n), NEW i \in 1..n
    PROVE  Data(i)' <=> Data(i)
<1>1. n \in Nat /\ \A j \in 1..(n - 1) : dump'[j] = dump[j]
  BY Grown
<1>2. \A j \in 1..(i - 1) : j \in 1..(n - 1) /\ \A k \in (j + 1)..(i - 1) : k \in 1..(n - 1)
  BY <1>1
<1>3. \A j \in 1..(i - 1) : dump'[j] = dump[j] /\ \A k \in (j + 1)..(i - 1) : dump'[k] = dump[k]
  BY <1>1, <1>2
<1>4. QED
  BY <1>3 DEF Data

(* Data begins after a COPY and ends with its end. *)
LEMMA DataNext ==
    ASSUME NEW l, NEW n, Grows(l, n)
    PROVE  Data(n + 1)' <=> IF Data(n) THEN l.kind # "end" ELSE l.kind = "copy"
<1>1. n \in Nat /\ n >= 1 /\ dump'[n] = l /\ \A j \in 1..(n - 1) : dump'[j] = dump[j]
  BY Grown
<1>2. Data(n + 1)' <=> \E j \in 1..n : dump'[j].kind = "copy" /\ \A k \in (j + 1)..n : dump'[k].kind # "end"
  <2>1. (n + 1) - 1 = n
    BY <1>1
  <2>2. QED
    BY <2>1 DEF Data
<1>3. ASSUME NEW j \in 1..(n - 1)
      PROVE  (dump'[j].kind = "copy" /\ \A k \in (j + 1)..n : dump'[k].kind # "end")
             <=> (dump[j].kind = "copy" /\ \A k \in (j + 1)..(n - 1) : dump[k].kind # "end") /\ l.kind # "end"
  <2>1. (j + 1)..n = (j + 1)..(n - 1) \cup {n}
    BY <1>1
  <2>2. \A k \in (j + 1)..(n - 1) : dump'[k] = dump[k]
    BY <1>1
  <2>3. QED
    BY <1>1, <2>1, <2>2
<1>4. (dump'[n].kind = "copy" /\ \A k \in (n + 1)..n : dump'[k].kind # "end") <=> l.kind = "copy"
  BY <1>1
<1>5. 1..n = 1..(n - 1) \cup {n}
  BY <1>1
<1>6. Data(n) <=> \E j \in 1..(n - 1) : dump[j].kind = "copy" /\ \A k \in (j + 1)..(n - 1) : dump[k].kind # "end"
  BY DEF Data
<1>7. QED
  BY <1>2, <1>3, <1>4, <1>5, <1>6

LEMMA HeaderKept ==
    ASSUME NEW l, NEW n, Grows(l, n)
    PROVE  /\ \A i \in 1..(n - 1) : Header(i)' <=> Header(i)
           /\ Header(n)' <=> cluster /\ l.kind = "header" /\ ~Data(n)
<1>1. n \in Nat /\ n >= 1 /\ dump'[n] = l /\ \A j \in 1..(n - 1) : dump'[j] = dump[j] /\ j \in 1..n
  BY Grown
<1>2. n \in 1..n
  BY <1>1
<1>3. cluster' = cluster
  BY DEF Grows
<1>4. QED
  BY <1>1, <1>2, <1>3, DataKept DEF Header

(* Segments *)
LEMMA SegmentType ==
    ASSUME NEW i \in Nat
    PROVE  SegmentOf(i) \in 0..i
<1>1. IsFiniteSet(1..i) /\ Cardinality(1..i) = i
  BY FS_Interval
<1>2. {j \in 1..i : Header(j)} \subseteq 1..i
  OBVIOUS
<1>3. Cardinality({j \in 1..i : Header(j)}) \in Nat /\ Cardinality({j \in 1..i : Header(j)}) <= i
  BY <1>1, <1>2, FS_Subset, FS_CardinalityType
<1>4. QED
  BY <1>3 DEF SegmentOf

LEMMA SegmentGrows ==
    ASSUME NEW i \in Nat, NEW j \in Nat, i <= j
    PROVE  SegmentOf(i) <= SegmentOf(j)
<1>1. IsFiniteSet(1..j)
  BY FS_Interval
<1>2. {k \in 1..j : Header(k)} \subseteq 1..j
  OBVIOUS
<1>3. IsFiniteSet({k \in 1..j : Header(k)})
  BY <1>1, <1>2, FS_Subset
<1>4. {k \in 1..i : Header(k)} \subseteq {k \in 1..j : Header(k)}
  OBVIOUS
<1>5. QED
  BY <1>3, <1>4, FS_Subset DEF SegmentOf

LEMMA SegmentKept ==
    ASSUME NEW l, NEW n, Grows(l, n)
    PROVE  /\ \A i \in 0..(n - 1) : SegmentOf(i)' = SegmentOf(i)
           /\ SegmentOf(n)' = IF Header(n)' THEN SegmentOf(n - 1) + 1 ELSE SegmentOf(n - 1)
<1>1. n \in Nat /\ n >= 1
  BY Grown
<1>2. \A i \in 0..(n - 1) : {j \in 1..i : Header(j)'} = {j \in 1..i : Header(j)}
  <2> TAKE i \in 0..(n - 1)
  <2>1. \A j \in 1..i : j \in 1..(n - 1)
    BY <1>1
  <2>2. QED
    BY <2>1, HeaderKept
<1>3. \A i \in 0..(n - 1) : SegmentOf(i)' = SegmentOf(i)
  BY <1>2 DEF SegmentOf
<1>4. n - 1 \in 0..(n - 1)
  BY <1>1
<1> DEFINE S == {j \in 1..(n - 1) : Header(j)}
<1>5. S = {j \in 1..(n - 1) : Header(j)'}
  BY <1>2, <1>4
<1>6. 1..n = 1..(n - 1) \cup {n} /\ n \notin 1..(n - 1)
  BY <1>1
<1>7. {j \in 1..n : Header(j)'} = IF Header(n)' THEN S \cup {n} ELSE S
  BY <1>5, <1>6
<1>8. IsFiniteSet(S)
  <2>1. IsFiniteSet(1..(n - 1))
    BY <1>1, FS_Interval
  <2>2. QED
    BY <2>1, FS_Subset
<1>9. Cardinality(S \cup {n}) = Cardinality(S) + 1
  BY <1>6, <1>8, FS_AddElement
<1>10. SegmentOf(n)' = Cardinality({j \in 1..n : Header(j)'}) /\ SegmentOf(n - 1) = Cardinality(S)
  BY DEF SegmentOf
<1>11. QED
  BY <1>3, <1>7, <1>9, <1>10

LEMMA NeedsKept ==
    ASSUME NEW l, NEW n, Grows(l, n)
    PROVE  /\ \A i \in 1..(n - 1) : Needs(i)' <=> Needs(i)
           /\ Needs(n)' <=> /\ ~Header(n)' /\ ~Filtered(l)
                            /\ (cluster /\ SegmentOf(n)' = 0) \/ ~Prologue(l) \/ Data(n)
<1>1. n \in Nat /\ n >= 1 /\ dump'[n] = l /\ \A j \in 1..(n - 1) : dump'[j] = dump[j]
  BY Grown
<1>2. n \in 1..n /\ \A j \in 1..(n - 1) : j \in 1..n /\ j \in 0..(n - 1)
  BY <1>1
<1>3. cluster' = cluster
  BY DEF Grows
<1>4. \A i \in 1..n : Data(i)' <=> Data(i)
  BY DataKept
<1>5. \A i \in 1..(n - 1) : (Header(i)' <=> Header(i)) /\ SegmentOf(i)' = SegmentOf(i)
  BY <1>2, HeaderKept, SegmentKept
<1>6. QED
  BY <1>1, <1>2, <1>3, <1>4, <1>5 DEF Needs, IsGlobals

(* A segment is replayed from its first statement on. *)
LEMMA ReplayedKept ==
    ASSUME NEW l, NEW n, Grows(l, n), NEW s
    PROVE  Replayed(s)' <=> Replayed(s) \/ (s = SegmentOf(n)' /\ Needs(n)')
<1>1. n \in Nat /\ n >= 1 /\ Len(dump') = n /\ Len(dump) = n - 1
  BY Grown
<1>2. 1..n = 1..(n - 1) \cup {n} /\ \A j \in 1..(n - 1) : j \in 0..(n - 1)
  BY <1>1
<1>3. Replayed(s)' <=> \E i \in 1..n : SegmentOf(i)' = s /\ Needs(i)'
  BY <1>1 DEF Replayed
<1>4. Replayed(s) <=> \E i \in 1..(n - 1) : SegmentOf(i) = s /\ Needs(i)
  BY <1>1 DEF Replayed
<1>5. \A i \in 1..(n - 1) : SegmentOf(i)' = SegmentOf(i) /\ (Needs(i)' <=> Needs(i))
  BY <1>2, SegmentKept, NeedsKept
<1>6. QED
  BY <1>2, <1>3, <1>4, <1>5

(* What is named last counts, up to the first statement. *)
LEMMA NamedKept ==
    ASSUME NEW l, NEW n, Grows(l, n), NEW s
    PROVE  Named(s)' = IF s = SegmentOf(n)' /\ ~Header(n)' /\ NamesEncoding(l) /\ ~Replayed(s)'
                       THEN Named(s) \cup {n} ELSE Named(s)
<1>1. n \in Nat /\ n >= 1 /\ Len(dump') = n /\ Len(dump) = n - 1 /\ dump'[n] = l
      /\ \A j \in 1..(n - 1) : dump'[j] = dump[j]
  BY Grown
<1>2. 1..n = 1..(n - 1) \cup {n} /\ n \notin 1..(n - 1) /\ \A j \in 1..(n - 1) : j \in 0..(n - 1)
  BY <1>1
<1> DEFINE Early(i) == /\ SegmentOf(i) = s /\ ~Header(i) /\ NamesEncoding(dump[i])
                       /\ \A j \in 1..i : SegmentOf(j) = s => ~Needs(j)
<1>3. Named(s)' = {i \in 1..n : Early(i)'}
  BY <1>1 DEF Named
<1>4. Named(s) = {i \in 1..(n - 1) : Early(i)}
  BY <1>1 DEF Named
<1>5. \A i \in 1..(n - 1) : /\ SegmentOf(i)' = SegmentOf(i) /\ (Needs(i)' <=> Needs(i))
                            /\ Header(i)' <=> Header(i)
  BY <1>2, SegmentKept, NeedsKept, HeaderKept
<1>6. ASSUME NEW i \in 1..(n - 1) PROVE Early(i)' <=> Early(i)
  <2>1. \A j \in 1..i : j \in 1..(n - 1)
    BY <1>1
  <2>2. QED
    BY <1>1, <1>5, <2>1 DEF NamesEncoding
<1>7. Early(n)' <=> s = SegmentOf(n)' /\ ~Header(n)' /\ NamesEncoding(l) /\ ~Replayed(s)'
  BY <1>1 DEF Replayed, NamesEncoding
<1> HIDE DEF Early
<1>8. QED
  BY <1>2, <1>3, <1>4, <1>6, <1>7


LastNamed(s) == Named(s) # {} => \E i \in Named(s) : \A j \in Named(s) : j <= i

LEMMA EncodingKept ==
    ASSUME NEW l, NEW n, Grows(l, n), NEW s, LastNamed(s)
    PROVE  /\ LastNamed(s)'
           /\ Named(s)' = Named(s) => EncodingOf(s)' = EncodingOf(s)
           /\ Named(s)' = Named(s) \cup {n} => EncodingOf(s)' = l.encoding
<1>1. n \in Nat /\ n >= 1 /\ Len(dump) = n - 1 /\ dump'[n] = l
      /\ \A j \in 1..(n - 1) : dump'[j] = dump[j]
  BY Grown
<1>2. Named(s) \subseteq 1..(n - 1)
  BY <1>1 DEF Named
<1>3. CASE Named(s)' = Named(s)
  <2>1. LastNamed(s)'
    BY <1>3 DEF LastNamed
  <2>2. CASE Named(s) = {}
    BY <1>1, <1>2, <1>3, <2>1, <2>2 DEF EncodingOf
  <2>3. CASE Named(s) # {}
    <3> DEFINE m == CHOOSE i \in Named(s) : \A j \in Named(s) : j <= i
    <3>1. m \in Named(s)
      BY <2>3 DEF LastNamed
    <3>2. m \in 1..(n - 1)
      BY <1>2, <3>1
    <3>3. EncodingOf(s) = dump[m].encoding /\ EncodingOf(s)' = dump'[m].encoding
      BY <1>3, <2>3 DEF EncodingOf, Last
    <3> HIDE DEF m
    <3>4. EncodingOf(s)' = EncodingOf(s)
      BY <1>1, <3>2, <3>3
    <3>5. Named(s)' # Named(s) \cup {n}
      BY <1>1, <1>2, <1>3
    <3>6. QED
      BY <2>1, <3>4, <3>5
  <2>4. QED
    BY <2>2, <2>3
<1>4. CASE Named(s)' = Named(s) \cup {n}
  <2>1. n \in Named(s)' /\ \A j \in Named(s)' : j <= n /\ (j = n \/ j < n)
    BY <1>1, <1>2, <1>4
  <2>2. LastNamed(s)'
    BY <2>1 DEF LastNamed
  <2> DEFINE m == CHOOSE i \in Named(s)' : \A j \in Named(s)' : j <= i
  <2>3. m \in Named(s)' /\ \A j \in Named(s)' : j <= m
    BY <2>1
  <2>4. n <= m /\ (m = n \/ m \in 1..(n - 1))
    BY <1>2, <1>4, <2>1, <2>3
  <2>5. m = n
    <3> HIDE DEF m
    <3>1. QED
      BY <1>1, <2>4
  <2>6. EncodingOf(s)' = dump'[m].encoding
    BY <2>1 DEF EncodingOf, Last
  <2>7. EncodingOf(s)' = l.encoding
    BY <1>1, <2>5, <2>6
  <2>8. Named(s)' # Named(s)
    BY <1>1, <1>2, <1>4
  <2>9. QED
    BY <2>2, <2>7, <2>8
<1>5. QED
  BY <1>3, <1>4, NamedKept

(* Scratch databases *)
LEMMA MadeFinite ==
    ASSUME NEW s \in Nat
    PROVE  /\ IsFiniteSet({r \in 0..s : Replayed(r) /\ ~IsGlobals(r)})
           /\ Made(s) \in Nat
<1>1. IsFiniteSet(0..s)
  BY FS_Interval
<1>2. IsFiniteSet({r \in 0..s : Replayed(r) /\ ~IsGlobals(r)})
  BY <1>1, FS_Subset
<1>3. QED
  BY <1>2, FS_CardinalityType DEF Made

LEMMA MadeBounds ==
    ASSUME NEW s \in Nat, NEW t \in Nat, s <= t, Replayed(s), ~IsGlobals(s)
    PROVE  Made(s) \in 1..Made(t)
<1> DEFINE S == {r \in 0..s : Replayed(r) /\ ~IsGlobals(r)}
           T == {r \in 0..t : Replayed(r) /\ ~IsGlobals(r)}
<1>1. IsFiniteSet(S) /\ IsFiniteSet(T) /\ Made(s) \in Nat /\ Made(t) \in Nat
  BY MadeFinite
<1>2. S \subseteq T /\ s \in S
  OBVIOUS
<1>3. Cardinality(S) <= Cardinality(T)
  BY <1>1, <1>2, FS_Subset
<1>4. Cardinality(S) # 0
  BY <1>1, <1>2, FS_EmptySet
<1>5. QED
  BY <1>1, <1>3, <1>4 DEF Made

LEMMA DbType == ASSUME NEW s \in Nat PROVE DbOf(s) \in Nat
  BY MadeFinite DEF DbOf, Maintenance

LEMMA MadeSame ==
    ASSUME NEW s \in Nat, cluster' = cluster, \A r \in 0..s : Replayed(r)' <=> Replayed(r)
    PROVE  Made(s)' = Made(s) /\ DbOf(s)' = DbOf(s)
<1>1. \A r : IsGlobals(r)' <=> IsGlobals(r)
  BY DEF IsGlobals
<1>2. {r \in 0..s : Replayed(r)' /\ ~IsGlobals(r)'} = {r \in 0..s : Replayed(r) /\ ~IsGlobals(r)}
  BY <1>1
<1>3. Made(s)' = Made(s)
  BY <1>2 DEF Made
<1>4. QED
  BY <1>1, <1>3 DEF DbOf, Maintenance

LEMMA MadeMore ==
    ASSUME NEW s \in Nat, cluster' = cluster, ~IsGlobals(s), ~Replayed(s), Replayed(s)',
           \A r \in 0..s : r # s => (Replayed(r)' <=> Replayed(r))
    PROVE  Made(s)' = Made(s) + 1 /\ DbOf(s)' = Made(s) + 1
<1> DEFINE S == {r \in 0..s : Replayed(r) /\ ~IsGlobals(r)}
<1>1. \A r : IsGlobals(r)' <=> IsGlobals(r)
  BY DEF IsGlobals
<1>2. {r \in 0..s : Replayed(r)' /\ ~IsGlobals(r)'} = S \cup {s} /\ s \notin S
  BY <1>1
<1>3. IsFiniteSet(S)
  BY MadeFinite
<1>4. Cardinality(S \cup {s}) = Cardinality(S) + 1
  BY <1>2, <1>3, FS_AddElement
<1>5. Made(s)' = Made(s) + 1
  BY <1>2, <1>4 DEF Made
<1>6. QED
  BY <1>1, <1>5 DEF DbOf

LEMMA NoneForGlobals == ASSUME NEW s, IsGlobals(s) PROVE Made(s) = 0
<1>1. {r \in 0..s : Replayed(r) /\ ~IsGlobals(r)} = {}
  BY DEF IsGlobals
<1>2. QED
  BY <1>1, FS_EmptySet DEF Made

-----------------------------------------------------------------------------
(* One more line *)

LEMMA AfterRead ==
    ASSUME ReplayTypeOK, SplitInv, NEW l \in Line, Read(l), NEW n, n = Len(dump) + 1
    PROVE  /\ Grows(l, n) /\ n \in Nat /\ n >= 1 /\ Len(dump) = n - 1
           /\ ~Header(n)' /\ segment' = segment /\ SegmentOf(n)' = segment /\ segment \in Nat
           /\ Needs(n)' <=> ~Filtered(l) /\ (IsGlobals(segment) \/ ~Prologue(l) \/ inCopy)
           /\ SplitInv'
<1>1. Grows(l, n)
  BY DEF Grows, Read, ReplayTypeOK
<1>2. n \in Nat /\ n >= 1 /\ Len(dump) = n - 1 /\ Len(dump') = n
  BY <1>1, Grown
<1>3. segment' = segment /\ segment = SegmentOf(n - 1) /\ (inCopy <=> Data(n))
  <2>1. Len(dump) + 1 = n
    BY <1>2
  <2>2. QED
    BY <1>2, <2>1 DEF Read, SplitInv
<1>4. ~Header(n)'
  BY <1>1, <1>3, HeaderKept DEF Read
<1>5. SegmentOf(n)' = segment
  BY <1>1, <1>3, <1>4, SegmentKept
<1>6. Needs(n)' <=> ~Filtered(l) /\ (IsGlobals(segment) \/ ~Prologue(l) \/ inCopy)
  BY <1>1, <1>3, <1>4, <1>5, NeedsKept DEF IsGlobals
<1>7. inCopy' <=> Data(n + 1)'
  BY <1>1, <1>3, DataNext DEF Read
<1>8. SplitInv'
  BY <1>2, <1>3, <1>5, <1>7 DEF SplitInv
<1>9. segment \in Nat
  BY LinesAssumption DEF ReplayTypeOK, Segments
<1>10. QED
  BY <1>1, <1>2, <1>3, <1>4, <1>5, <1>6, <1>8, <1>9

LEMMA AfterHeader ==
    ASSUME ReplayTypeOK, SplitInv, ReadHeader, NEW n, n = Len(dump) + 1
    PROVE  \E l \in Line :
              /\ Grows(l, n) /\ n \in Nat /\ n >= 1 /\ Len(dump) = n - 1
              /\ Header(n)' /\ segment' = segment + 1 /\ SegmentOf(n)' = segment' /\ segment \in Nat
              /\ ~Needs(n)'
              /\ SplitInv'
<1>1. PICK l \in Line : l.kind = "header" /\ dump' = Append(dump, l)
  BY DEF ReadHeader
<1>2. Grows(l, n)
  BY <1>1 DEF Grows, ReadHeader, ReplayTypeOK
<1>3. n \in Nat /\ n >= 1 /\ Len(dump) = n - 1 /\ Len(dump') = n
  BY <1>2, Grown
<1>4. segment' = segment + 1 /\ segment = SegmentOf(n - 1) /\ ~inCopy /\ ~Data(n) /\ inCopy' = inCopy
  <2>1. Len(dump) + 1 = n
    BY <1>3
  <2>2. QED
    BY <1>3, <2>1 DEF ReadHeader, SplitInv
<1>5. Header(n)'
  BY <1>1, <1>2, <1>4, HeaderKept DEF ReadHeader
<1>6. SegmentOf(n)' = segment'
  BY <1>2, <1>4, <1>5, SegmentKept
<1>7. ~Needs(n)'
  BY <1>2, <1>5, NeedsKept
<1>8. inCopy' <=> Data(n + 1)'
  BY <1>1, <1>2, <1>4, DataNext
<1>9. SplitInv'
  BY <1>3, <1>6, <1>8 DEF SplitInv
<1>10. segment \in Nat
  BY LinesAssumption DEF ReplayTypeOK, Segments
<1>11. QED
  BY <1>2, <1>3, <1>4, <1>5, <1>6, <1>7, <1>9, <1>10

(* Nothing is known yet of segments to come. *)
LEMMA NotYet ==
    ASSUME ReplayTypeOK, SplitInv, NEW s \in Nat, s > segment
    PROVE  ~Replayed(s) /\ Named(s) = {}
<1>1. Len(dump) \in Nat /\ segment \in Nat /\ segment = SegmentOf(Len(dump))
  BY LinesAssumption DEF ReplayTypeOK, Segments, SplitInv
<1>2. \A i \in 1..Len(dump) : SegmentOf(i) # s
  <2> TAKE i \in 1..Len(dump)
  <2>1. SegmentOf(i) <= SegmentOf(Len(dump)) /\ SegmentOf(i) \in 0..i
    BY <1>1, SegmentGrows, SegmentType
  <2>2. QED
    BY <1>1, <2>1
<1>3. QED
  BY <1>2 DEF Replayed, Named

-----------------------------------------------------------------------------
(* The scratch databases after a line *)

LEMMA ScratchHeader ==
    ASSUME ReplayInv, ReadHeader
    PROVE  ScratchInv' /\ \A s : (Replayed(s)' <=> Replayed(s))
<1>0. PICK n, t : n = Len(dump) + 1 /\ t = segment
  OBVIOUS
<1>1. ReplayTypeOK /\ SplitInv /\ ScratchInv
  BY DEF ReplayInv
<1>2. PICK l \in Line :
          /\ Grows(l, n) /\ Header(n)' /\ segment = t /\ t \in Nat /\ segment' = t + 1 /\ SegmentOf(n)' = t + 1
          /\ ~Needs(n)'
  BY <1>0, <1>1, AfterHeader
<1>3. cluster' = cluster /\ scratchDbs' = scratchDbs
  BY DEF ReadHeader
<1>4. \A s : (Replayed(s)' <=> Replayed(s)) /\ Named(s)' = Named(s)
  BY <1>2, ReplayedKept, NamedKept
<1>5. ~Replayed(t + 1) /\ Named(t + 1) = {}
  BY <1>1, <1>2, NotYet
<1>6. Made(t + 1)' = Made(t)
  <2>1. Made(t + 1)' = Made(t + 1)
    BY <1>2, <1>3, <1>4, MadeSame
  <2>2. 0..(t + 1) = 0..t \cup {t + 1}
    BY <1>2
  <2>3. {r \in 0..(t + 1) : Replayed(r) /\ ~IsGlobals(r)} = {r \in 0..t : Replayed(r) /\ ~IsGlobals(r)}
    BY <1>5, <2>2
  <2>4. QED
    BY <1>2, <2>1, <2>3 DEF Made
<1>7. ASSUME NEW s \in 0..(t + 1), Replayed(s)', ~IsGlobals(s)'
      PROVE  scratchDbs'[DbOf(s)'] = EncodingOf(s)'
  <2>1. Replayed(s) /\ ~IsGlobals(s)
    BY <1>3, <1>4, <1>7 DEF IsGlobals
  <2>2. s \in 0..t
    BY <1>2, <1>5, <1>7, <2>1
  <2>3. DbOf(s)' = DbOf(s)
    BY <1>3, <1>4, <2>2, MadeSame
  <2>4. EncodingOf(s)' = EncodingOf(s)
    BY <1>1, <1>2, <1>4, <2>2, EncodingKept DEF ScratchInv, LastNamed
  <2>5. QED
    BY <1>1, <1>2, <1>3, <2>1, <2>2, <2>3, <2>4 DEF ScratchInv
<1>8. \A s \in 0..(t + 1) : Named(s)' # {} => \E i \in Named(s)' : \A j \in Named(s)' : j <= i
  <2> TAKE s \in 0..(t + 1)
  <2>1. s = t + 1 \/ s \in 0..t
    BY <1>2
  <2>2. QED
    BY <1>1, <1>2, <1>4, <1>5, <2>1 DEF ScratchInv
<1>9. Len(scratchDbs') = Made(t + 1)'
  BY <1>1, <1>2, <1>3, <1>6 DEF ScratchInv
<1>10. QED
  BY <1>2, <1>4, <1>7, <1>8, <1>9 DEF ScratchInv

(* A line of the segment: either there is no new database, or it is the    *)
(* segment's, made with the segment's encoding.                            *)
LEMMA ScratchRead ==
    ASSUME ReplayInv, NEW l \in Line, Read(l), NEW n, n = Len(dump) + 1, NEW t, t = segment,
           \/ UNCHANGED scratchDbs /\ (Needs(n)' => Replayed(t) \/ IsGlobals(t))
           \/ /\ Needs(n)' /\ ~Replayed(t) /\ ~IsGlobals(t)
              /\ scratchDbs' = Append(scratchDbs, EncodingOf(t))
    PROVE  /\ ScratchInv'
           /\ \A s : Replayed(s)' <=> Replayed(s) \/ (s = t /\ Needs(n)')
           /\ \A s \in 0..t : Replayed(s) => DbOf(s)' = DbOf(s)
<1>1. ReplayTypeOK /\ SplitInv /\ ScratchInv
  BY DEF ReplayInv
<1>2. /\ Grows(l, n) /\ ~Header(n)' /\ segment' = t /\ SegmentOf(n)' = t /\ t \in Nat
  BY <1>1, AfterRead
<1>3. cluster' = cluster
  BY DEF Read
<1>4. \A s : Replayed(s)' <=> Replayed(s) \/ (s = t /\ Needs(n)')
  BY <1>2, ReplayedKept
<1>5. \A s : Named(s)' = IF s = t /\ NamesEncoding(l) /\ ~Replayed(s)' THEN Named(s) \cup {n} ELSE Named(s)
  BY <1>2, NamedKept
<1>6. \A s \in 0..t : LastNamed(s)
  BY <1>1 DEF ScratchInv, LastNamed
<1>7. \A s \in 0..t : LastNamed(s)'
  BY <1>2, <1>6, EncodingKept
<1>8. \A s \in 0..t : Replayed(s)' => EncodingOf(s)' = EncodingOf(s)
  BY <1>2, <1>5, <1>6, EncodingKept
<1>9. \A s \in 0..t : Replayed(s) => DbOf(s)' = DbOf(s)
  <2> TAKE s \in 0..t
  <2>1. ASSUME Replayed(s), NEW r \in 0..s PROVE Replayed(r)' <=> Replayed(r)
    <3>1. r = t => s = t
      BY <1>2
    <3>2. QED
      BY <1>4, <2>1, <3>1
  <2>2. QED
    BY <1>2, <1>3, <2>1, MadeSame
<1>10. \A s \in 0..t : Replayed(s) /\ ~IsGlobals(s) => DbOf(s) \in 1..Made(t)
  BY <1>2, MadeBounds DEF DbOf
<1>11. \A s : IsGlobals(s)' <=> IsGlobals(s)
  BY <1>3 DEF IsGlobals
<1>12. CASE UNCHANGED scratchDbs /\ (Needs(n)' => Replayed(t) \/ IsGlobals(t))
  <2>1. Made(t)' = Made(t)
    <3>1. CASE IsGlobals(t)
      <4>1. IsGlobals(t)'
        BY <1>2, <1>3, <3>1 DEF IsGlobals
      <4>2. \A s : IsGlobals(s)' => Made(s)' = 0
        <5> TAKE s
        <5>1. {r \in 0..s : Replayed(r)' /\ ~IsGlobals(r)'} = {} \/ ~IsGlobals(s)'
          BY DEF IsGlobals
        <5>2. QED
          BY <5>1, FS_EmptySet DEF Made
      <4>3. QED
        BY <1>2, <3>1, <4>1, <4>2, NoneForGlobals
    <3>2. CASE ~IsGlobals(t)
      <4>1. \A r \in 0..t : Replayed(r)' <=> Replayed(r)
        BY <1>4, <1>12, <3>2
      <4>2. \A s \in Nat : (\A r \in 0..s : Replayed(r)' <=> Replayed(r)) => Made(s)' = Made(s)
        BY <1>3, MadeSame
      <4>3. QED
        BY <1>2, <4>1, <4>2
    <3>3. QED
      BY <3>1, <3>2
  <2>2. Len(scratchDbs') = Made(t)'
    BY <1>1, <1>12, <2>1 DEF ScratchInv
  <2>3. ASSUME NEW s \in 0..t, Replayed(s)', ~IsGlobals(s)'
        PROVE  scratchDbs'[DbOf(s)'] = EncodingOf(s)'
    <3>1. s \in 0..t /\ ~IsGlobals(s) /\ Replayed(s)
      BY <1>2, <1>4, <1>11, <1>12, <2>3
    <3>2. QED
      BY <1>1, <1>8, <1>9, <1>12, <2>3, <3>1 DEF ScratchInv
  <2>4. QED
    BY <1>2, <1>4, <1>7, <1>9, <2>2, <2>3 DEF ScratchInv, LastNamed
<1>13. CASE /\ Needs(n)' /\ ~Replayed(t) /\ ~IsGlobals(t)
            /\ scratchDbs' = Append(scratchDbs, EncodingOf(t))
  <2>1. \A s \in Nat : /\ ~IsGlobals(s) /\ ~Replayed(s) /\ Replayed(s)'
                       /\ \A r \in 0..s : r # s => (Replayed(r)' <=> Replayed(r))
                       => Made(s)' = Made(s) + 1 /\ DbOf(s)' = Made(s) + 1
    BY <1>3, MadeMore
  <2>2. Made(t)' = Made(t) + 1 /\ DbOf(t)' = Made(t) + 1
    BY <1>2, <1>4, <1>13, <2>1
  <2>3. /\ Len(scratchDbs) = Made(t) /\ Len(scratchDbs') = Made(t) + 1
        /\ scratchDbs'[Made(t) + 1] = EncodingOf(t)
        /\ \A k \in 1..Made(t) : scratchDbs'[k] = scratchDbs[k]
    BY <1>1, <1>13 DEF ScratchInv, ReplayTypeOK
  <2>4. ASSUME NEW s \in 0..t, Replayed(s)', ~IsGlobals(s)'
        PROVE  scratchDbs'[DbOf(s)'] = EncodingOf(s)'
    <3>1. s \in 0..t /\ ~IsGlobals(s) /\ EncodingOf(s)' = EncodingOf(s)
      BY <1>2, <1>8, <1>11, <2>4
    <3>2. CASE s = t
      <4>1. DbOf(s)' = Made(t) + 1
        BY <1>2, <2>2, <3>2
      <4>2. QED
        BY <2>3, <3>1, <3>2, <4>1
    <3>3. CASE s # t
      <4>1. Replayed(s)
        BY <1>4, <2>4, <3>3
      <4>2. DbOf(s)' = DbOf(s) /\ DbOf(s) \in 1..Made(t) /\ scratchDbs[DbOf(s)] = EncodingOf(s)
        BY <1>1, <1>9, <1>10, <3>1, <4>1 DEF ScratchInv
      <4>3. QED
        BY <2>3, <3>1, <4>2
    <3>4. QED
      BY <3>2, <3>3
  <2>5. QED
    BY <1>2, <1>4, <1>7, <1>9, <2>2, <2>3, <2>4 DEF ScratchInv, LastNamed
<1>14. QED
  BY <1>12, <1>13

-----------------------------------------------------------------------------
(* What psql is given *)

LEMMA SeqWider ==
    ASSUME NEW S, NEW T, S \subseteq T, NEW s \in Seq(S)
    PROVE  s \in Seq(T)
<1>1. Len(s) \in Nat /\ s = [k \in 1..Len(s) |-> s[k]] /\ \A k \in 1..Len(s) : s[k] \in T
  OBVIOUS
<1>2. QED
  BY <1>1

(* fed' is fed, then the lines b, then line n, given to database db. *)
Extends(b, n, db) ==
    /\ Len(fed') = Len(fed) + Len(b) + 1
    /\ \A k \in 1..Len(fed) : fed'[k] = fed[k]
    /\ \A k \in 1..Len(b) : fed'[Len(fed) + k] = Given(b[k], db)
    /\ fed'[Len(fed) + Len(b) + 1] = Given(n, db)

LEMMA Concatenated ==
    ASSUME NEW S, NEW a \in Seq(S), NEW b \in Seq(S)
    PROVE  /\ a \o b \in Seq(S) /\ Len(a \o b) = Len(a) + Len(b)
           /\ \A k \in 1..Len(a) : (a \o b)[k] = a[k]
           /\ \A k \in 1..Len(b) : (a \o b)[Len(a) + k] = b[k]
<1>1. a \o b \in Seq(S) /\ Len(a \o b) = Len(a) + Len(b)
      /\ \A k \in 1..Len(a) : (a \o b)[k] = a[k]
  OBVIOUS
<1>2. \A k \in 1..Len(b) : (a \o b)[Len(a) + k] = b[k]
  OBVIOUS
<1>3. QED
  BY <1>1, <1>2

LEMMA Concatenation ==
    ASSUME NEW S, NEW a \in Seq(S), NEW b \in Seq(S), NEW e \in S
    PROVE  /\ a \o b \o <<e>> \in Seq(S) /\ Len(a \o b \o <<e>>) = Len(a) + Len(b) + 1
           /\ \A k \in 1..Len(a) : (a \o b \o <<e>>)[k] = a[k]
           /\ \A k \in 1..Len(b) : (a \o b \o <<e>>)[Len(a) + k] = b[k]
           /\ (a \o b \o <<e>>)[Len(a) + Len(b) + 1] = e
<1> DEFINE c == a \o b
           d == <<e>>
<1>1. Len(a) \in Nat /\ Len(b) \in Nat
  OBVIOUS
<1>2. /\ c \in Seq(S) /\ Len(c) = Len(a) + Len(b)
      /\ \A k \in 1..Len(a) : c[k] = a[k]
      /\ \A k \in 1..Len(b) : c[Len(a) + k] = b[k]
  BY Concatenated
<1>3. d \in Seq(S) /\ Len(d) = 1 /\ d[1] = e
  OBVIOUS
<1> HIDE DEF c, d
<1>4. /\ c \o d \in Seq(S) /\ Len(c \o d) = Len(c) + Len(d)
      /\ \A k \in 1..Len(c) : (c \o d)[k] = c[k]
      /\ \A k \in 1..Len(d) : (c \o d)[Len(c) + k] = d[k]
  <2>1. c \in Seq(S) /\ d \in Seq(S)
    BY <1>2, <1>3
  <2>2. QED
    BY ONLY <2>1, Concatenated
<1>5. (c \o d)[Len(c) + 1] = e
  BY <1>3, <1>4
<1>6. \A k \in 1..Len(a) : k \in 1..Len(c)
  BY <1>1, <1>2
<1>7. \A k \in 1..Len(b) : Len(a) + k \in 1..Len(c)
  BY <1>1, <1>2
<1>8. /\ Len(c \o d) = Len(a) + Len(b) + 1
      /\ \A k \in 1..Len(a) : (c \o d)[k] = a[k]
      /\ \A k \in 1..Len(b) : (c \o d)[Len(a) + k] = b[k]
      /\ (c \o d)[Len(a) + Len(b) + 1] = e
  BY <1>2, <1>3, <1>4, <1>5, <1>6, <1>7
<1>9. QED
  BY <1>4, <1>8 DEF c, d

LEMMA Extended ==
    ASSUME ReplayTypeOK, NEW l, NEW n, Grows(l, n), Len(scratchDbs) \in Nat,
           Len(scratchDbs') \in Nat, Len(scratchDbs) <= Len(scratchDbs'),
           NEW b \in Seq(1..(n - 1)), NEW db \in 0..Len(scratchDbs'),
           \/ fed' = fed \o [k \in 1..Len(b) |-> Given(b[k], db)] \o <<Given(n, db)>>
           \/ b = <<>> /\ fed' = Append(fed, Given(n, db))
    PROVE  fed' \in Seq(Fed') /\ Extends(b, n, db)
<1>1. n \in Nat /\ n >= 1 /\ Len(dump') = n /\ Len(dump) = n - 1
  BY Grown
<1>2. fed \in Seq(Fed) /\ Fed \subseteq Fed'
  <2>1. 1..Len(dump) \subseteq 1..Len(dump') /\ Connections \subseteq Connections'
    BY <1>1 DEF Connections
  <2>2. QED
    BY <2>1 DEF ReplayTypeOK, Fed
<1>3. fed \in Seq(Fed')
  BY <1>2, SeqWider
<1>4. ASSUME NEW i \in 1..n PROVE Given(i, db) \in Fed'
  <2>1. db \in Connections'
    BY DEF Connections
  <2> DEFINE names == dump'[i].kind = "dbref" /\ segment > 0 /\ db # Maintenance
  <2>2. names \in BOOLEAN
    OBVIOUS
  <2> HIDE DEF names
  <2>3. [line |-> i, db |-> db, names |-> names] \in Fed'
    BY <1>1, <2>1, <2>2 DEF Fed
  <2>4. QED
    BY <2>3 DEF Given, names
<1>5. n \in 1..n /\ \A k \in 1..Len(b) : b[k] \in 1..n
  <2>0. b \in Seq(1..(n - 1))
    OBVIOUS
  <2>1. \A k \in 1..Len(b) : b[k] \in 1..(n - 1)
    <3>1. \A S : \A s \in Seq(S) : \A k \in 1..Len(s) : s[k] \in S
      OBVIOUS
    <3>2. QED
      BY ONLY <2>0, <3>1
  <2>2. 1..(n - 1) \subseteq 1..n /\ n \in 1..n
    BY ONLY <1>1
  <2>3. QED
    BY ONLY <2>1, <2>2
<1> DEFINE g == [k \in 1..Len(b) |-> Given(b[k], db)]
<1>6. g \in Seq(Fed') /\ Len(g) = Len(b) /\ \A k \in 1..Len(b) : g[k] = Given(b[k], db)
  <2>1. \A k \in 1..Len(b) : Given(b[k], db) \in Fed'
    BY <1>4, <1>5
  <2>2. b \in Seq(1..(n - 1))
    OBVIOUS
  <2>3. Len(b) \in Nat
    BY ONLY <2>2
  <2>4. QED
    BY ONLY <2>1, <2>3
<1>7. Given(n, db) \in Fed'
  BY <1>4, <1>5
<1>8. CASE fed' = fed \o g \o <<Given(n, db)>>
  <2> DEFINE e == Given(n, db)
  <2>1. e \in Fed' /\ fed' = fed \o g \o <<e>>
    BY <1>7, <1>8
  <2> HIDE DEF g, e
  <2>2. /\ fed' \in Seq(Fed') /\ Len(fed') = Len(fed) + Len(g) + 1
        /\ \A k \in 1..Len(fed) : fed'[k] = fed[k]
        /\ \A k \in 1..Len(g) : fed'[Len(fed) + k] = g[k]
        /\ fed'[Len(fed) + Len(g) + 1] = e
    <3>1. fed \in Seq(Fed') /\ g \in Seq(Fed') /\ e \in Fed'
      BY <1>3, <1>6, <2>1
    <3>2. QED
      BY ONLY <2>1, <3>1, Concatenation
  <2>3. QED
    BY <1>6, <2>2 DEF Extends, e
<1>9. CASE b = <<>> /\ fed' = Append(fed, Given(n, db))
  <2>1. fed' \in Seq(Fed') /\ Len(fed') = Len(fed) + 1
        /\ (\A k \in 1..Len(fed) : fed'[k] = fed[k]) /\ fed'[Len(fed) + 1] = Given(n, db)
    <3> DEFINE e == Given(n, db)
    <3>1. e \in Fed' /\ fed' = Append(fed, e)
      BY <1>7, <1>9
    <3> HIDE DEF e
    <3>2. fed' \in Seq(Fed') /\ Len(fed') = Len(fed) + 1
          /\ (\A k \in 1..Len(fed) : fed'[k] = fed[k]) /\ fed'[Len(fed) + 1] = e
      BY <1>3, <3>1
    <3>3. QED
      BY <3>2 DEF e
  <2>2. Len(b) = 0 /\ Len(fed) \in Nat
    BY <1>3, <1>9
  <2>3. QED
    BY <2>1, <2>2 DEF Extends
<1>10. QED
  BY <1>8, <1>9


(* What was given stays as it is meant. *)
LEMMA MeantStays ==
    ASSUME ReplayInv, ScratchInv', NEW l, NEW n, Grows(l, n),
           NEW t \in Nat, t = segment, segment' \in {t, t + 1},
           \A s : Replayed(s) => Replayed(s)', \A s \in 0..t : Replayed(s) => DbOf(s)' = DbOf(s),
           NEW e, e.line \in 1..(n - 1), Wanted(e.line), AsMeant(e)
    PROVE  /\ Wanted(e.line)' /\ AsMeant(e)'
           /\ SegmentOf(e.line) \in 0..t /\ Replayed(SegmentOf(e.line))
<1>1. n \in Nat /\ n >= 1 /\ Len(dump) = n - 1 /\ cluster' = cluster
      /\ \A j \in 1..(n - 1) : dump'[j] = dump[j]
  BY Grown DEF Grows
<1>2. PICK i, s : i = e.line /\ s = SegmentOf(i)
  OBVIOUS
<1>3. i \in 1..(n - 1) /\ i \in Nat /\ i <= n - 1 /\ n - 1 \in Nat /\ i \in 0..(n - 1)
  BY <1>1, <1>2
<1>4. SegmentOf(i)' = s /\ (Header(i)' <=> Header(i)) /\ dump'[i] = dump[i]
  BY <1>1, <1>2, <1>3, SegmentKept, HeaderKept
<1>5. s \in 0..t
  <2>1. t = SegmentOf(n - 1)
    BY <1>1 DEF ReplayInv, SplitInv
  <2>2. s <= t /\ s \in 0..i
    BY <1>2, <1>3, <2>1, SegmentGrows, SegmentType
  <2>3. QED
    BY <1>3, <2>2
<1>6. Replayed(s) /\ Replayed(s)' /\ ~Header(i) /\ ~Filtered(dump[i])
  BY <1>2 DEF Wanted
<1>7. Wanted(i)'
  BY <1>4, <1>6 DEF Wanted, Filtered
<1>8. e.db = DbOf(s) /\ (e.names <=> cluster /\ ~IsGlobals(s) /\ dump[i].kind = "dbref")
  BY <1>2 DEF AsMeant
<1>9. IsGlobals(s)' <=> IsGlobals(s)
  BY <1>1 DEF IsGlobals
<1>10. DbOf(s)' = DbOf(s)
  BY <1>5, <1>6
<1>11. ~IsGlobals(s) => scratchDbs'[e.db] = EncodingOf(s)'
  <2>1. s \in 0..segment'
    BY <1>5
  <2>2. QED
    BY <1>6, <1>8, <1>9, <1>10, <2>1 DEF ScratchInv
<1>12. AsMeant(e)'
  BY <1>1, <1>2, <1>4, <1>8, <1>9, <1>10, <1>11 DEF AsMeant
<1>13. QED
  BY <1>2, <1>5, <1>6, <1>7, <1>12

(* The lines that were given, with what is known of them                   *)
LEMMA FedLines ==
    ASSUME ReplayInv, NEW n, n = Len(dump) + 1, NEW k \in 1..Len(fed)
    PROVE  fed[k].line \in 1..(n - 1) /\ Wanted(fed[k].line) /\ AsMeant(fed[k])
<1>1. Len(dump) \in Nat /\ fed[k].line \in {fed[j].line : j \in 1..Len(fed)}
  BY DEF ReplayInv, ReplayTypeOK
<1>2. QED
  BY <1>1 DEF ReplayInv, FedAsMeant

(* A line that is not for psql changes nothing. *)
LEMMA FedIdle ==
    ASSUME ReplayInv, ScratchInv', NEW l, NEW n, Grows(l, n),
           NEW t \in Nat, t = segment, segment' \in {t, t + 1},
           \A s : Replayed(s)' <=> Replayed(s), ~Wanted(n)', fed' = fed
    PROVE  FedAsMeant'
<1>1. n \in Nat /\ n >= 1 /\ Len(dump) = n - 1 /\ Len(dump') = n /\ n = Len(dump) + 1 /\ cluster' = cluster
      /\ \A j \in 1..(n - 1) : dump'[j] = dump[j]
  BY Grown DEF Grows
<1>2. \A s \in 0..t : DbOf(s)' = DbOf(s)
  BY <1>1, MadeSame
<1>3. ASSUME NEW k \in 1..Len(fed) PROVE \A e : e = fed[k] => Wanted(e.line)' /\ AsMeant(e)' /\ e.line \in 1..n
  <2> SUFFICES ASSUME NEW e, e = fed[k] PROVE Wanted(e.line)' /\ AsMeant(e)' /\ e.line \in 1..n
    OBVIOUS
  <2>1. e.line \in 1..(n - 1) /\ Wanted(e.line) /\ AsMeant(e)
    BY <1>1, FedLines
  <2>2. QED
    BY <1>1, <1>2, <2>1, MeantStays
<1>4. ASSUME NEW i \in 1..n, Wanted(i)' PROVE \E k \in 1..Len(fed) : fed[k].line = i
  <2>1. i \in 1..(n - 1) /\ i \in 0..(n - 1)
    BY <1>1, <1>4
  <2>2. PICK s : s = SegmentOf(i)
    OBVIOUS
  <2>3. SegmentOf(i)' = s /\ (Header(i)' <=> Header(i)) /\ dump'[i] = dump[i]
    BY <1>1, <2>1, <2>2, SegmentKept, HeaderKept
  <2>4. Wanted(i)
    BY <1>4, <2>2, <2>3 DEF Wanted, Filtered
  <2>5. i \in {fed[k].line : k \in 1..Len(fed)}
    BY <1>1, <2>1, <2>4 DEF ReplayInv, FedAsMeant
  <2>6. QED
    BY <2>5
<1>5. {fed'[k].line : k \in 1..Len(fed')} = {i \in 1..Len(dump') : Wanted(i)'}
  BY <1>1, <1>3, <1>4
<1>6. \A k \in 1..Len(fed') : AsMeant(fed[k])'
  <2> TAKE k \in 1..Len(fed')
  <2>1. PICK e : e = fed[k]
    OBVIOUS
  <2>2. AsMeant(e)' /\ fed'[k] = e
    BY <1>3, <2>1
  <2>3. QED
    BY <2>2
<1>7. QED
  BY <1>5, <1>6 DEF ReplayInv, FedAsMeant


(* Only the dump of a cluster has more than one segment. *)
LEMMA NoSegments == ASSUME NEW i \in Nat, SegmentOf(i) > 0 PROVE cluster
<1>1. SUFFICES ASSUME ~cluster PROVE FALSE
  OBVIOUS
<1>2. {j \in 1..i : Header(j)} = {}
  BY <1>1 DEF Header
<1>3. QED
  BY <1>2, FS_EmptySet DEF SegmentOf

(* A segment beyond the globals has a database of its own. *)
LEMMA OwnDatabase ==
    ASSUME NEW t \in Nat, Replayed(t)', ~IsGlobals(t)'
    PROVE  DbOf(t)' # Maintenance
<1> DEFINE T == {r \in 0..t : Replayed(r)' /\ ~IsGlobals(r)'}
<1>1. IsFiniteSet(0..t)
  BY FS_Interval
<1>2. IsFiniteSet(T) /\ t \in T
  BY <1>1, FS_Subset
<1>3. Cardinality(T) # 0
  BY <1>2, FS_EmptySet
<1>4. QED
  BY <1>3 DEF DbOf, Made, Maintenance

(* The line is given to psql, after those held back if it is the first. *)
LEMMA FedMore ==
    ASSUME ReplayInv, ScratchInv', NEW l, NEW n, Grows(l, n), NEW t \in Nat, t = segment, segment' = t,
           ~Header(n)', SegmentOf(n)' = t, ~Filtered(l),
           \A s : Replayed(s)' <=> Replayed(s) \/ s = t, \A s \in 0..t : Replayed(s) => DbOf(s)' = DbOf(s),
           NEW b \in Seq(1..(n - 1)), NEW db, db = DbOf(t)', Extends(b, n, db),
           {b[k] : k \in 1..Len(b)} = IF Replayed(t) THEN {} ELSE Held,
           \A j, k \in 1..Len(b) : j < k => b[j] < b[k]
    PROVE  FedAsMeant'
<1>1. n \in Nat /\ n >= 1 /\ Len(dump) = n - 1 /\ Len(dump') = n /\ n = Len(dump) + 1 /\ cluster' = cluster
      /\ dump'[n] = l /\ \A j \in 1..(n - 1) : dump'[j] = dump[j]
  BY Grown DEF Grows
<1>2. Len(fed) \in Nat /\ Len(b) \in Nat
  BY DEF ReplayInv, ReplayTypeOK
<1>3. Replayed(t)' /\ t = SegmentOf(n - 1)
  BY <1>1 DEF ReplayInv, SplitInv
<1>0. PICK m : m = Len(fed)
  OBVIOUS
<1> DEFINE Old(k) == k \in 1..m
           Mid(k) == k - m \in 1..Len(b)
           New(k) == k = m + Len(b) + 1
<1>4. \A k \in 1..Len(fed') : k \in Nat /\ (Old(k) \/ Mid(k) \/ New(k))
  <2>1. Len(fed') = m + Len(b) + 1 /\ m \in Nat
    BY <1>0, <1>2 DEF Extends
  <2>2. \A k \in 1..(m + Len(b) + 1) : k \in Nat /\ (Old(k) \/ Mid(k) \/ New(k))
    BY <1>2, <2>1
  <2>3. QED
    BY <2>1, <2>2
<1>5. ASSUME NEW k \in 1..Len(fed'), Old(k)
      PROVE  /\ fed'[k].line \in 1..(n - 1) /\ AsMeant(fed[k])' /\ fed'[k].line = fed[k].line
             /\ SegmentOf(fed'[k].line) \in 0..t /\ Replayed(SegmentOf(fed'[k].line))
             /\ \A i : i = fed'[k].line => Wanted(i)'
  <2>1. PICK e : e = fed[k]
    OBVIOUS
  <2>2. fed'[k] = e
    BY <1>0, <1>5, <2>1 DEF Extends
  <2>3. e.line \in 1..(n - 1) /\ Wanted(e.line) /\ AsMeant(e)
    BY <1>0, <1>1, <1>5, <2>1, FedLines
  <2>4. /\ Wanted(e.line)' /\ AsMeant(e)'
        /\ SegmentOf(e.line) \in 0..t /\ Replayed(SegmentOf(e.line))
    BY <2>3, MeantStays
  <2>5. QED
    BY <2>1, <2>2, <2>3, <2>4
<1>6. ASSUME NEW k \in 1..Len(fed'), Mid(k)
      PROVE  /\ ~Replayed(t) /\ fed'[k] = Given(b[k - m], db) /\ fed'[k].line = b[k - m]
             /\ b[k - m] \in 1..(n - 1) /\ b[k - m] \in Held /\ SegmentOf(b[k - m]) = t /\ SegmentOf(b[k - m])' = t
             /\ ~Header(b[k - m])' /\ ~Filtered(dump[b[k - m]])
  <2>1. k = m + (k - m)
    BY <1>0, <1>2, <1>4, <1>6
  <2>2. fed'[k] = Given(b[k - m], db)
    BY <1>0, <1>6, <2>1 DEF Extends
  <2>3. b[k - m] \in {b[j] : j \in 1..Len(b)}
    BY <1>6
  <2>4. ~Replayed(t) /\ b[k - m] \in Held
    BY <2>3
  <2>5. PICK i : i = b[k - m]
    OBVIOUS
  <2>6. i \in 1..(n - 1) /\ SegmentOf(i) = t /\ ~Header(i) /\ ~Filtered(dump[i])
    BY <1>1, <2>4, <2>5 DEF Held
  <2>7. (Header(i)' <=> Header(i)) /\ SegmentOf(i)' = SegmentOf(i)
    <3>1. i \in 0..(n - 1)
      BY <1>1, <2>6
    <3>2. QED
      BY <2>6, <3>1, HeaderKept, SegmentKept
  <2>8. QED
    BY <2>2, <2>4, <2>5, <2>6, <2>7 DEF Given
<1>7. ASSUME NEW k \in 1..Len(fed'), New(k)
      PROVE  fed'[k] = Given(n, db) /\ fed'[k].line = n
  BY <1>0, <1>7 DEF Extends, Given
<1>8. ASSUME NEW i \in 1..n, ~Header(i)', SegmentOf(i)' = t, ~Filtered(dump'[i]), NEW e, e = Given(i, db)
      PROVE  Wanted(i)' /\ AsMeant(e)' /\ e.line = i
  <2>1. e.line = i /\ e.db = db /\ (e.names <=> dump'[i].kind = "dbref" /\ t > 0 /\ db # Maintenance)
    BY <1>8 DEF Given
  <2>2. Wanted(i)'
    BY <1>3, <1>8 DEF Wanted
  <2>3. t > 0 => cluster
    BY <1>1, <1>3, NoSegments
  <2>4. db # Maintenance <=> ~IsGlobals(t)'
    BY <1>3, OwnDatabase DEF DbOf
  <2>5. ~IsGlobals(t)' => scratchDbs'[db] = EncodingOf(t)'
    BY <1>3 DEF ScratchInv
  <2>6. IsGlobals(t)' <=> cluster /\ t = 0
    BY <1>1 DEF IsGlobals
  <2>7. AsMeant(e)'
    BY <1>1, <1>8, <2>1, <2>3, <2>4, <2>5, <2>6 DEF AsMeant
  <2>8. QED
    BY <2>1, <2>2, <2>7
<1> HIDE DEF Old, Mid, New
<1>9. ASSUME NEW k \in 1..Len(fed')
      PROVE  \E i \in 1..n : \E e : fed'[k] = e /\ e.line = i /\ Wanted(i)' /\ AsMeant(e)'
  <2>1. CASE Old(k)
    <3>1. PICK i, e : i = fed'[k].line /\ e = fed[k]
      OBVIOUS
    <3>2. fed'[k] = e
      BY <1>0, <2>1, <3>1 DEF Old, Extends
    <3>3. i \in 1..n
      BY <1>1, <1>5, <2>1, <3>1
    <3>4. Wanted(i)'
      BY <1>5, <2>1, <3>1
    <3>5. AsMeant(e)'
      BY <1>5, <2>1, <3>2
    <3>6. QED
      BY <3>1, <3>2, <3>3, <3>4, <3>5
  <2>2. CASE Mid(k)
    <3>1. PICK i, e : i = b[k - m] /\ e = Given(i, db)
      OBVIOUS
    <3>2. i \in 1..n /\ ~Header(i)' /\ SegmentOf(i)' = t /\ ~Filtered(dump'[i]) /\ fed'[k] = e
      BY <1>1, <1>6, <2>2, <3>1
    <3>3. QED
      BY <1>8, <3>1, <3>2
  <2>3. CASE New(k)
    <3>1. PICK e : e = Given(n, db)
      OBVIOUS
    <3>2. n \in 1..n /\ ~Filtered(dump'[n]) /\ fed'[k] = e
      BY <1>1, <1>7, <2>3, <3>1
    <3>3. QED
      BY <1>8, <3>1, <3>2
  <2>4. QED
    BY <1>4, <2>1, <2>2, <2>3
<1>10. ASSUME NEW j \in 1..Len(fed'), NEW k \in 1..Len(fed'), j < k
       PROVE  fed'[j].line < fed'[k].line
  <2>1. j \in Nat /\ k \in Nat
    BY <1>4
  <2>2. CASE Old(j) /\ Old(k)
    <3>1. j \in 1..Len(fed) /\ k \in 1..Len(fed) /\ fed'[j] = fed[j] /\ fed'[k] = fed[k]
      BY <1>0, <2>2 DEF Old, Extends
    <3>2. QED
      BY <1>10, <3>1 DEF ReplayInv, FedAsMeant
  <2>3. CASE Old(j) /\ Mid(k)
    <3>1. PICK x, y : x = fed'[j].line /\ y = b[k - m]
      OBVIOUS
    <3>2. /\ ~Replayed(t) /\ fed'[k].line = y /\ y \in 1..(n - 1) /\ SegmentOf(y) = t
      BY <1>6, <2>3, <3>1
    <3>3. x \in 1..(n - 1) /\ SegmentOf(x) \in 0..t /\ Replayed(SegmentOf(x))
      BY <1>5, <2>3, <3>1
    <3>4. SegmentOf(x) < SegmentOf(y)
      BY <3>2, <3>3
    <3>5. x \in Nat /\ y \in Nat
      BY <3>2, <3>3
    <3>6. y <= x => SegmentOf(y) <= SegmentOf(x)
      BY <3>5, SegmentGrows
    <3>7. SegmentOf(x) \in Nat /\ SegmentOf(y) \in Nat
      BY <3>2, <3>3
    <3>8. QED
      BY <3>1, <3>2, <3>4, <3>5, <3>6, <3>7
  <2>4. CASE Old(j) /\ New(k)
    BY <1>1, <1>5, <1>7, <2>4
  <2>5. CASE Mid(j) /\ Mid(k)
    <3>1. j - m \in 1..Len(b) /\ k - m \in 1..Len(b) /\ j - m < k - m
      BY <1>0, <1>2, <1>10, <2>1, <2>5 DEF Mid
    <3>2. b[j - m] < b[k - m]
      BY <3>1
    <3>3. QED
      BY <1>6, <2>5, <3>2
  <2>6. CASE Mid(j) /\ New(k)
    BY <1>1, <1>6, <1>7, <2>6
  <2>7. QED
    BY <1>0, <1>2, <1>4, <1>10, <2>1, <2>2, <2>3, <2>4, <2>5, <2>6 DEF Old, Mid, New
<1>11. ASSUME NEW i \in 1..n, Wanted(i)' PROVE \E k \in 1..Len(fed') : fed'[k].line = i
  <2>0. Len(fed') = m + Len(b) + 1 /\ m \in Nat
    BY <1>0, <1>2 DEF Extends
  <2>1. CASE i = n
    <3>1. m + Len(b) + 1 \in 1..Len(fed') /\ New(m + Len(b) + 1)
      BY <1>2, <2>0 DEF New
    <3>2. QED
      BY <1>7, <2>1, <3>1
  <2>2. CASE i # n
    <3>1. i \in 1..(n - 1) /\ i \in 0..(n - 1)
      BY <1>1, <2>2
    <3>2. PICK s : s = SegmentOf(i)
      OBVIOUS
    <3>3. SegmentOf(i)' = s /\ (Header(i)' <=> Header(i)) /\ dump'[i] = dump[i]
      BY <1>1, <3>1, <3>2, SegmentKept, HeaderKept
    <3>4. ~Header(i) /\ ~Filtered(dump[i]) /\ Replayed(s)'
      BY <1>11, <3>2, <3>3 DEF Wanted
    <3>5. CASE Replayed(s)
      <4>1. Wanted(i)
        BY <3>2, <3>4, <3>5 DEF Wanted
      <4>2. i \in {fed[k].line : k \in 1..Len(fed)}
        BY <1>1, <3>1, <4>1 DEF ReplayInv, FedAsMeant
      <4>3. PICK k \in 1..Len(fed) : fed[k].line = i
        BY <4>2
      <4>4. k \in 1..Len(fed') /\ fed'[k] = fed[k]
        BY <1>0, <1>2, <2>0 DEF Extends
      <4>5. QED
        BY <4>3, <4>4
    <3>6. CASE ~Replayed(s)
      <4>1. s = t /\ ~Replayed(t)
        BY <3>4, <3>6
      <4>2. i \in Held
        BY <1>1, <3>1, <3>2, <3>4, <4>1 DEF Held
      <4>3. PICK k \in 1..Len(b) : b[k] = i
        <5>1. i \in {b[k] : k \in 1..Len(b)}
          BY <4>1, <4>2
        <5>2. QED
          BY <5>1
      <4>4. m + k \in 1..Len(fed') /\ Mid(m + k) /\ (m + k) - m = k
        BY <1>2, <2>0 DEF Mid
      <4>5. fed'[m + k].line = b[k]
        BY <1>6, <4>4
      <4>6. QED
        BY <4>3, <4>4, <4>5
    <3>7. QED
      BY <3>5, <3>6
  <2>3. QED
    BY <2>1, <2>2
<1>12. {fed'[k].line : k \in 1..Len(fed')} = {i \in 1..Len(dump') : Wanted(i)'}
  <2>1. ASSUME NEW k \in 1..Len(fed') PROVE fed'[k].line \in {i \in 1..n : Wanted(i)'}
    <3>1. PICK i \in 1..n : \E e : fed'[k] = e /\ e.line = i /\ Wanted(i)'
      BY <1>9
    <3>2. QED
      BY <3>1
  <2>2. QED
    BY <1>1, <1>11, <2>1
<1>13. \A k \in 1..Len(fed') : AsMeant(fed[k])'
  <2> TAKE k \in 1..Len(fed')
  <2>1. PICK e : fed'[k] = e /\ AsMeant(e)'
    BY <1>9
  <2>2. QED
    BY <2>1
<1>14. QED
  BY <1>10, <1>12, <1>13 DEF FedAsMeant

-----------------------------------------------------------------------------
(* Types *)

LEMMA LineType ==
    ASSUME NEW l \in Line
    PROVE  /\ l.encoding \in Encodings
           /\ l.kind \in {"header", "ours", "prologue", "dbref", "statement", "copy", "end",
                          "createdb", "setencoding"}
  BY EncodingAssumption DEF Line

LEMMA EnterType ==
    ASSUME ReplayTypeOK
    PROVE  /\ Enter.proc \in {NoPsql} \cup 0..Len(scratchDbs)
           /\ Enter.buffered \in Seq(1..Len(dump))
           /\ Enter.encoding \in Encodings
           /\ \A l \in Line : Seen(l) \in Encodings
<1>1. /\ Enter.proc \in {NoPsql} \cup 0..Len(scratchDbs)
      /\ Enter.buffered \in Seq(1..Len(dump))
      /\ Enter.encoding \in Encodings
  <2>1. CASE running = segment
    BY <2>1 DEF ReplayTypeOK, Enter, Connections
  <2>2. CASE running # segment
    <3>1. Enter.proc = NoPsql /\ Enter.buffered = <<>> /\ Enter.encoding = Utf8
      BY <2>2 DEF Enter
    <3>2. <<>> \in Seq(1..Len(dump))
      OBVIOUS
    <3>3. QED
      BY <3>1, <3>2, EncodingAssumption
  <2>3. QED
    BY <2>1, <2>2
<1>2. QED
  BY <1>1, LineType DEF Seen

LEMMA TypeAfter ==
    ASSUME ReplayTypeOK, SplitInv, NEW l, NEW n, Grows(l, n), n <= MaxLines,
           segment' \in {segment, segment + 1}, running' \in {running, segment},
           inCopy' \in BOOLEAN, state' = state, encoding' \in Encodings,
           scratchDbs' \in Seq(Encodings), Len(scratchDbs) <= Len(scratchDbs'),
           proc' \in {NoPsql} \cup 0..Len(scratchDbs'), buffered' \in Seq(1..n),
           fed' \in Seq(Fed') \/ fed' = fed
    PROVE  ReplayTypeOK'
<1>1. /\ n \in Nat /\ n >= 1 /\ Len(dump) = n - 1 /\ n - 1 \in Nat /\ Len(dump') = n /\ dump' \in Seq(Line)
      /\ cluster' = cluster
  BY Grown DEF Grows
<1>2. segment' \in Segments /\ running' \in {-1} \cup Segments
  <2>1. segment \in 0..(n - 1)
    BY <1>1, SegmentType DEF SplitInv
  <2>2. segment' \in Segments /\ segment \in Segments
    BY <1>1, <2>1, LinesAssumption DEF Segments
  <2>3. QED
    BY <2>2 DEF ReplayTypeOK
<1>3. fed' \in Seq(Fed')
  <2>1. Len(scratchDbs) \in Nat /\ Len(scratchDbs') \in Nat
    BY DEF ReplayTypeOK
  <2>2. 1..Len(dump) \subseteq 1..Len(dump') /\ Connections \subseteq Connections'
    BY <1>1, <2>1 DEF Connections
  <2>3. Fed \subseteq Fed'
    BY <2>2 DEF Fed
  <2>4. fed \in Seq(Fed)
    BY DEF ReplayTypeOK
  <2>5. fed \in Seq(Fed')
    BY <2>3, <2>4, SeqWider
  <2>6. QED
    BY <2>5
<1>4. /\ cluster' \in BOOLEAN /\ state' \in {"feeding", "done", "aborted"}
      /\ proc' \in {NoPsql} \cup Connections' /\ buffered' \in Seq(1..Len(dump'))
  BY <1>1 DEF ReplayTypeOK, Connections
<1>5. QED
  BY <1>1, <1>2, <1>3, <1>4 DEF ReplayTypeOK

-----------------------------------------------------------------------------
(* The runner *)

LEMMA HeldAfter ==
    ASSUME NEW l, NEW n, Grows(l, n), NEW t, t = segment, segment' = t, SegmentOf(n)' = t, ~Header(n)'
    PROVE  Held' = IF Filtered(l) THEN Held ELSE Held \cup {n}
<1>1. /\ n \in Nat /\ n >= 1 /\ Len(dump) = n - 1 /\ Len(dump') = n /\ dump'[n] = l
      /\ \A i \in 1..(n - 1) : dump'[i] = dump[i]
  BY Grown
<1>2. 1..n = 1..(n - 1) \cup {n} /\ n \notin 1..(n - 1) /\ \A i \in 1..(n - 1) : i \in 0..(n - 1)
  BY <1>1
<1>3. \A i \in 1..(n - 1) : SegmentOf(i)' = SegmentOf(i) /\ (Header(i)' <=> Header(i))
  BY <1>2, SegmentKept, HeaderKept
<1>4. Held' = {i \in 1..n : SegmentOf(i)' = t /\ ~Header(i)' /\ ~Filtered(dump'[i])}
  BY <1>1 DEF Held
<1>5. Held = {i \in 1..(n - 1) : SegmentOf(i) = t /\ ~Header(i) /\ ~Filtered(dump[i])}
  BY <1>1 DEF Held
<1>6. QED
  BY <1>1, <1>2, <1>3, <1>4, <1>5

Rising(b) == \A j, k \in 1..Len(b) : j < k => b[j] < b[k]

(* What is known when the next line of a segment is read *)
LEMMA RunnerNow ==
    ASSUME ReplayInv, NEW l \in Line, Read(l), NEW n, n = Len(dump) + 1, NEW t, t = segment
    PROVE  /\ Enter.proc = NoPsql <=> ~Replayed(t)
           /\ Replayed(t) => Enter.proc = DbOf(t)
           /\ ~Replayed(t) => /\ ~inCopy /\ Rising(Enter.buffered)
                              /\ {Enter.buffered[k] : k \in 1..Len(Enter.buffered)} = Held
                              /\ ~IsGlobals(t) => Enter.encoding = EncodingOf(t)
           /\ n <= MaxLines /\ inCopy' \in BOOLEAN /\ state' = state /\ state = "feeding"
           /\ cluster' = cluster /\ n - 1 \in Nat /\ 1..Len(dump) = 1..(n - 1)
<1>1. t \in Nat /\ Len(dump) \in Nat /\ Len(dump) < MaxLines /\ MaxLines \in Nat /\ inCopy \in BOOLEAN
  BY LinesAssumption DEF ReplayInv, ReplayTypeOK, Segments, Read
<1>2. DbOf(t) # NoPsql
  BY <1>1, DbType, LinesAssumption
<1>3. inCopy' \in BOOLEAN
  BY <1>1 DEF Read
<1>4. /\ n <= MaxLines /\ state' = state /\ state = "feeding" /\ cluster' = cluster
      /\ n - 1 \in Nat /\ 1..Len(dump) = 1..(n - 1)
  BY <1>1 DEF Read
<1>5. QED
  BY <1>2, <1>3, <1>4 DEF ReplayInv, RunnerInv, Rising

LEMMA RunnerAfter ==
    ASSUME NEW t \in Nat, segment' = t, running' = t,
           IF Replayed(t)' THEN proc' = DbOf(t)'
           ELSE /\ proc' = NoPsql /\ ~inCopy' /\ {buffered'[k] : k \in 1..Len(buffered')} = Held'
                /\ Rising(buffered') /\ (~IsGlobals(t)' => encoding' = EncodingOf(t)')
    PROVE  RunnerInv'
<1>1. /\ Enter.proc' = proc' /\ Enter.buffered' = buffered' /\ Enter.encoding' = encoding'
  BY DEF Enter
<1>2. running' <= segment' /\ (inCopy' => running' = segment')
  OBVIOUS
<1>3. QED
  BY <1>1, <1>2 DEF RunnerInv, Rising

-----------------------------------------------------------------------------
(* The steps *)

LEMMA HeaderStep == ReplayInv /\ ReadHeader => ReplayInv'
<1> SUFFICES ASSUME ReplayInv, ReadHeader PROVE ReplayInv'
  OBVIOUS
<1>0. PICK n, t : n = Len(dump) + 1 /\ t = segment
  OBVIOUS
<1>1. ReplayTypeOK /\ SplitInv
  BY DEF ReplayInv
<1>2. PICK l \in Line :
          /\ Grows(l, n) /\ n \in Nat /\ n >= 1 /\ Len(dump) = n - 1
          /\ Header(n)' /\ segment' = segment + 1 /\ SegmentOf(n)' = segment' /\ segment \in Nat
          /\ ~Needs(n)' /\ SplitInv'
  BY <1>0, <1>1, AfterHeader
<1>3. t \in Nat /\ segment' = t + 1 /\ SegmentOf(n)' = t + 1 /\ Len(dump') = n
  BY <1>0, <1>2, Grown
<1>4. ScratchInv' /\ \A s : (Replayed(s)' <=> Replayed(s))
  BY ScratchHeader
<1>5. ~Replayed(t + 1) /\ Named(t + 1) = {}
  BY <1>0, <1>1, <1>3, NotYet
<1>6. FedAsMeant'
  <2>1. ~Wanted(n)'
    BY <1>2 DEF Wanted
  <2>2. fed' = fed
    BY DEF ReadHeader
  <2>3. QED
    BY <1>0, <1>2, <1>3, <1>4, <2>1, <2>2, FedIdle
<1>7. ReplayTypeOK'
  <2>1. 1..(n - 1) \subseteq 1..n
    BY <1>2
  <2>2. buffered \in Seq(1..(n - 1))
    BY <1>1, <1>2 DEF ReplayTypeOK
  <2>3. buffered \in Seq(1..n)
    BY <2>1, <2>2, SeqWider
  <2>4. n <= MaxLines
    BY <1>2, LinesAssumption DEF ReadHeader
  <2>5. /\ UNCHANGED <<running, inCopy, state, encoding, scratchDbs, proc, buffered, fed>>
        /\ segment' \in {segment, segment + 1}
    BY <1>2 DEF ReadHeader, runnerVars
  <2>6. /\ inCopy \in BOOLEAN /\ encoding \in Encodings /\ scratchDbs \in Seq(Encodings)
        /\ proc \in {NoPsql} \cup 0..Len(scratchDbs) /\ Len(scratchDbs) \in Nat
    BY <1>1 DEF ReplayTypeOK, Connections
  <2>7. Len(scratchDbs) <= Len(scratchDbs')
    BY <2>5, <2>6
  <2>8. QED
    BY <1>1, <1>2, <2>3, <2>4, <2>5, <2>6, <2>7, TypeAfter
<1>8. RunnerInv'
  <2>1. running' = running /\ running <= t /\ ~inCopy /\ inCopy' = inCopy /\ running \in {-1} \cup Segments
    BY <1>0, <1>1 DEF ReadHeader, runnerVars, ReplayInv, RunnerInv, ReplayTypeOK
  <2>2. running' # segment' /\ running' <= segment'
    BY <1>3, <2>1, LinesAssumption DEF Segments
  <2>3. Enter.proc' = NoPsql /\ Enter.buffered' = <<>> /\ Enter.encoding' = Utf8
    BY <2>2 DEF Enter
  <2>4. Held' = {}
    <3>1. ASSUME NEW i \in 1..n, SegmentOf(i)' = t + 1 PROVE Header(i)'
      <4>1. CASE i = n
        BY <1>2, <4>1
      <4>2. CASE i # n
        <5>1. i \in 0..(n - 1) /\ i \in Nat /\ n - 1 \in Nat /\ i <= n - 1
          BY <1>2, <4>2
        <5>2. SegmentOf(i) = t + 1
          BY <1>2, <3>1, <5>1, SegmentKept
        <5>3. SegmentOf(i) <= SegmentOf(n - 1)
          BY <5>1, SegmentGrows
        <5>4. SegmentOf(n - 1) = t
          BY <1>0, <1>1, <1>2 DEF SplitInv
        <5>5. QED
          BY <1>3, <5>2, <5>3, <5>4
      <4>3. QED
        BY <4>1, <4>2
    <3>2. QED
      BY <1>3, <3>1 DEF Held
  <2>5. EncodingOf(t + 1)' = Utf8
    <3>1. Named(t + 1)' = Named(t + 1)
      BY <1>2, NamedKept
    <3>2. QED
      BY <1>5, <3>1 DEF EncodingOf
  <2>6. ~Replayed(t + 1)'
    BY <1>4, <1>5
  <2>7. Len(<<>>) = 0
    OBVIOUS
  <2>8. {Enter.buffered'[k] : k \in 1..Len(Enter.buffered')} = {}
        /\ \A j, k \in 1..Len(Enter.buffered') : j < k => Enter.buffered'[j] < Enter.buffered'[k]
    BY <2>3, <2>7
  <2>9. QED
    BY <1>3, <2>1, <2>2, <2>3, <2>4, <2>5, <2>6, <2>8 DEF RunnerInv
<1>9. QED
  BY <1>2, <1>4, <1>6, <1>7, <1>8 DEF ReplayInv

(* The lines before a segment's first statement name its encoding. *)
LEMMA EncodingAfter ==
    ASSUME ReplayInv, NEW l \in Line, Read(l), NEW n, n = Len(dump) + 1, NEW t, t = segment, ~Replayed(t)'
    PROVE  EncodingOf(t)' = IF NamesEncoding(l) THEN l.encoding ELSE EncodingOf(t)
<1>1. Grows(l, n) /\ ~Header(n)' /\ SegmentOf(n)' = t /\ t \in Nat
  BY AfterRead DEF ReplayInv
<1>2. Named(t)' = IF NamesEncoding(l) THEN Named(t) \cup {n} ELSE Named(t)
  BY <1>1, NamedKept
<1>3. LastNamed(t)
  BY <1>1 DEF ReplayInv, ScratchInv, LastNamed
<1>4. QED
  BY <1>1, <1>2, <1>3, EncodingKept

(* A line that is filtered, or held back *)
LEMMA IdleStep ==
    ASSUME ReplayInv, NEW l \in Line, Read(l), running' = segment, proc' = Enter.proc, encoding' = Seen(l),
           UNCHANGED <<scratchDbs, fed>>,
           \/ Filtered(l) /\ buffered' = Enter.buffered
           \/ /\ Prologue(l) /\ Enter.proc = NoPsql /\ ~IsGlobals(segment)
              /\ buffered' = Append(Enter.buffered, Len(dump'))
    PROVE  ReplayInv'
<1>0. PICK n, t : n = Len(dump) + 1 /\ t = segment
  OBVIOUS
<1>1. ReplayTypeOK /\ SplitInv
  BY DEF ReplayInv
<1>2. /\ Grows(l, n) /\ n \in Nat /\ n >= 1 /\ Len(dump) = n - 1
      /\ ~Header(n)' /\ segment' = t /\ SegmentOf(n)' = t /\ t \in Nat
      /\ Needs(n)' <=> ~Filtered(l) /\ (IsGlobals(t) \/ ~Prologue(l) \/ inCopy)
      /\ SplitInv'
  BY <1>0, <1>1, AfterRead
<1>3. Len(dump') = n /\ dump'[n] = l
  BY <1>2, Grown
<1>4. /\ Enter.proc = NoPsql <=> ~Replayed(t)
      /\ Replayed(t) => Enter.proc = DbOf(t)
      /\ ~Replayed(t) => /\ ~inCopy /\ Rising(Enter.buffered)
                         /\ {Enter.buffered[k] : k \in 1..Len(Enter.buffered)} = Held
                         /\ ~IsGlobals(t) => Enter.encoding = EncodingOf(t)
      /\ n <= MaxLines /\ inCopy' \in BOOLEAN /\ state' = state /\ cluster' = cluster /\ n - 1 \in Nat
  BY <1>0, RunnerNow
<1>5. ~Needs(n)'
  BY <1>0, <1>2, <1>4
<1>6. ScratchInv' /\ \A s : Replayed(s)' <=> Replayed(s)
  BY <1>0, <1>5, ScratchRead
<1>7. ~Wanted(n)'
  <2>1. CASE Filtered(l)
    BY <1>3, <2>1 DEF Wanted
  <2>2. CASE ~Filtered(l)
    <3>1. ~Replayed(t)'
      BY <1>4, <1>6, <2>2
    <3>2. QED
      BY <1>2, <3>1 DEF Wanted
  <2>3. QED
    BY <2>1, <2>2
<1>8. FedAsMeant'
  BY <1>0, <1>2, <1>6, <1>7, FedIdle
<1> DEFINE b == Enter.buffered
<1>9. b \in Seq(1..(n - 1)) /\ b \in Seq(1..n) /\ Append(b, n) \in Seq(1..n)
      /\ Len(b) \in Nat /\ Len(Append(b, n)) = Len(b) + 1 /\ Append(b, n)[Len(b) + 1] = n
      /\ \A k \in 1..Len(b) : Append(b, n)[k] = b[k]
  <2>1. b \in Seq(1..(n - 1))
    BY <1>1, <1>2, EnterType
  <2>2. 1..(n - 1) \subseteq 1..n /\ n \in 1..n
    BY <1>2
  <2> HIDE DEF b
  <2>3. b \in Seq(1..n)
    BY <2>1, <2>2, SeqWider
  <2>4. QED
    BY <2>1, <2>2, <2>3
<1>10. ReplayTypeOK'
  <2>1. buffered' \in Seq(1..n)
    BY <1>3, <1>9
  <2>2. proc' \in {NoPsql} \cup 0..Len(scratchDbs) /\ encoding' \in Encodings
    BY <1>1, EnterType
  <2>3. scratchDbs \in Seq(Encodings) /\ Len(scratchDbs) <= Len(scratchDbs')
    BY <1>1 DEF ReplayTypeOK
  <2>4. segment' \in {segment, segment + 1}
    BY <1>0, <1>2
  <2>5. QED
    BY <1>1, <1>2, <1>4, <2>1, <2>2, <2>3, <2>4, TypeAfter
<1>11. RunnerInv'
  <2>1. ASSUME Replayed(t)' PROVE proc' = DbOf(t)'
    <3>1. DbOf(t)' = DbOf(t)
      BY <1>2, <1>4, <1>6, MadeSame
    <3>2. QED
      BY <1>4, <1>6, <2>1, <3>1
  <2>2. ASSUME ~Replayed(t)'
        PROVE  /\ proc' = NoPsql /\ ~inCopy' /\ {buffered'[k] : k \in 1..Len(buffered')} = Held'
               /\ Rising(buffered') /\ (~IsGlobals(t)' => encoding' = EncodingOf(t)')
    <3>1. ~Replayed(t) /\ Enter.proc = NoPsql /\ proc' = NoPsql /\ ~inCopy /\ Rising(b)
          /\ {b[k] : k \in 1..Len(b)} = Held
      BY <1>4, <1>6, <2>2
    <3>2. ~inCopy'
      BY <3>1 DEF Read, Filtered, Prologue
    <3>3. Held' = IF Filtered(l) THEN Held ELSE Held \cup {n}
      BY <1>0, <1>2, HeldAfter
    <3>4. ~IsGlobals(t)' => encoding' = EncodingOf(t)'
      <4>1. EncodingOf(t)' = IF NamesEncoding(l) THEN l.encoding ELSE EncodingOf(t)
        BY <1>0, <2>2, EncodingAfter
      <4>2. IsGlobals(t)' <=> IsGlobals(t)
        BY <1>4 DEF IsGlobals
      <4>3. QED
        BY <1>0, <1>4, <3>1, <4>1, <4>2 DEF Seen
    <3> HIDE DEF b
    <3>5. CASE Filtered(l) /\ buffered' = b
      BY <3>1, <3>2, <3>3, <3>4, <3>5
    <3>6. CASE ~Filtered(l) /\ buffered' = Append(b, n)
      <4>1. {buffered'[k] : k \in 1..Len(buffered')} = Held'
        BY <1>9, <3>1, <3>3, <3>6
      <4>2. \A k \in 1..Len(b) : b[k] \in 1..(n - 1)
        BY <1>9
      <4>3. ASSUME NEW j \in 1..Len(buffered'), NEW k \in 1..Len(buffered'), j < k
            PROVE  buffered'[j] < buffered'[k]
        <5>1. j \in 1..Len(b) /\ (k \in 1..Len(b) \/ k = Len(b) + 1)
          <6>1. Len(buffered') = Len(b) + 1 /\ Len(b) \in Nat
            BY <1>9, <3>6
          <6>2. j \in 1..(Len(b) + 1) /\ k \in 1..(Len(b) + 1)
            BY <6>1
          <6>3. QED
            BY <4>3, <6>1, <6>2
        <5>2. CASE k \in 1..Len(b)
          BY <1>9, <3>1, <3>6, <4>3, <5>1, <5>2 DEF Rising
        <5>3. CASE k = Len(b) + 1
          BY <1>2, <1>9, <3>6, <4>2, <5>1, <5>3
        <5>4. QED
          BY <5>1, <5>2, <5>3
      <4>4. Rising(buffered')
        BY <4>3 DEF Rising
      <4>5. QED
        BY <3>1, <3>2, <3>4, <4>1, <4>4
    <3>7. Prologue(l) => ~Filtered(l)
      BY DEF Prologue, Filtered
    <3>8. QED
      BY <1>3, <3>5, <3>6, <3>7 DEF b
  <2>3. running' = t
    BY <1>0
  <2>4. QED
    BY <1>2, <2>1, <2>2, <2>3, RunnerAfter
<1>12. QED
  BY <1>2, <1>6, <1>8, <1>10, <1>11 DEF ReplayInv

(* A line that psql gets *)
LEMMA FeedStep ==
    ASSUME ReplayInv, NEW l \in Line, Read(l), ~Filtered(l), running' = segment, encoding' = Enter.encoding,
           NEW n, n = Len(dump) + 1, NEW t, t = segment,
           Replayed(t) \/ Needs(n)',
           \/ UNCHANGED scratchDbs /\ (Needs(n)' => Replayed(t) \/ IsGlobals(t))
           \/ /\ Needs(n)' /\ ~Replayed(t) /\ ~IsGlobals(t)
              /\ scratchDbs' = Append(scratchDbs, EncodingOf(t)) /\ EncodingOf(t) \in Encodings,
           proc' = DbOf(t)', buffered' \in Seq(1..(n - 1)),
           NEW b \in Seq(1..(n - 1)), Rising(b),
           {b[k] : k \in 1..Len(b)} = IF Replayed(t) THEN {} ELSE Held,
           \/ fed' = fed \o [k \in 1..Len(b) |-> Given(b[k], proc')] \o <<Given(n, proc')>>
           \/ b = <<>> /\ fed' = Append(fed, Given(n, proc'))
    PROVE  ReplayInv'
<1>1. ReplayTypeOK /\ SplitInv
  BY DEF ReplayInv
<1>2. /\ Grows(l, n) /\ n \in Nat /\ n >= 1 /\ Len(dump) = n - 1
      /\ ~Header(n)' /\ segment' = t /\ SegmentOf(n)' = t /\ t \in Nat
      /\ SplitInv'
  BY <1>1, AfterRead
<1>3. n <= MaxLines /\ inCopy' \in BOOLEAN /\ state' = state /\ cluster' = cluster
  BY RunnerNow
<1>4. /\ ScratchInv'
      /\ \A s : Replayed(s)' <=> Replayed(s) \/ (s = t /\ Needs(n)')
      /\ \A s \in 0..t : Replayed(s) => DbOf(s)' = DbOf(s)
  BY ScratchRead
<1>5. Replayed(t)' /\ \A s : Replayed(s)' <=> Replayed(s) \/ s = t
  BY <1>4
<1>6. scratchDbs' \in Seq(Encodings) /\ Len(scratchDbs) \in Nat /\ Len(scratchDbs') \in Nat
      /\ Len(scratchDbs) <= Len(scratchDbs')
  <2>1. scratchDbs \in Seq(Encodings)
    BY <1>1 DEF ReplayTypeOK
  <2>2. scratchDbs' = scratchDbs \/ \E e \in Encodings : scratchDbs' = Append(scratchDbs, e)
    OBVIOUS
  <2>3. CASE scratchDbs' = scratchDbs
    BY <2>1, <2>3
  <2>4. ASSUME NEW e \in Encodings, scratchDbs' = Append(scratchDbs, e)
        PROVE  /\ scratchDbs' \in Seq(Encodings) /\ Len(scratchDbs) \in Nat /\ Len(scratchDbs') \in Nat
               /\ Len(scratchDbs) <= Len(scratchDbs')
    BY <2>1, <2>4
  <2>5. QED
    BY <2>2, <2>3, <2>4
<1>7. PICK db : db = DbOf(t)'
  OBVIOUS
<1>8. proc' = db /\ db \in 0..Len(scratchDbs')
  <2>1. Len(scratchDbs') = Made(t)'
    BY <1>2, <1>4 DEF ScratchInv
  <2>2. QED
    BY <1>6, <1>7, <2>1 DEF DbOf, Maintenance
<1>9. \/ fed' = fed \o [k \in 1..Len(b) |-> Given(b[k], db)] \o <<Given(n, db)>>
      \/ b = <<>> /\ fed' = Append(fed, Given(n, db))
  BY <1>8
<1>10. fed' \in Seq(Fed') /\ Extends(b, n, db)
  BY <1>1, <1>2, <1>6, <1>8, <1>9, Extended
<1>11. FedAsMeant'
  <2>1. \A j, k \in 1..Len(b) : j < k => b[j] < b[k]
    BY DEF Rising
  <2>2. QED
    BY <1>2, <1>4, <1>5, <1>7, <1>10, <2>1, FedMore
<1>12. ReplayTypeOK'
  <2>1. buffered' \in Seq(1..n)
    <3>1. 1..(n - 1) \subseteq 1..n
      BY <1>2
    <3>2. QED
      BY <3>1, SeqWider
  <2>2. encoding' \in Encodings
    BY <1>1, EnterType
  <2>3. segment' \in {segment, segment + 1} /\ running' \in {running, segment}
    BY <1>2
  <2>4. QED
    BY <1>1, <1>2, <1>3, <1>6, <1>8, <1>10, <2>1, <2>2, <2>3, TypeAfter
<1>13. RunnerInv'
  BY <1>2, <1>5, RunnerAfter
<1>14. QED
  BY <1>2, <1>4, <1>11, <1>12, <1>13 DEF ReplayInv

LEMMA WriteStep == ReplayInv /\ Write => ReplayInv'
<1> SUFFICES ASSUME ReplayInv, Write PROVE ReplayInv'
  OBVIOUS
<1>0. PICK n, t : n = Len(dump) + 1 /\ t = segment
  OBVIOUS
<1>1. PICK l \in Line :
          /\ Read(l) /\ ~Filtered(l) /\ Enter.proc # NoPsql /\ running' = segment
          /\ proc' = Enter.proc /\ buffered' = Enter.buffered /\ encoding' = Enter.encoding
          /\ fed' = Append(fed, Given(Len(dump'), Enter.proc)) /\ UNCHANGED scratchDbs
  BY DEF Write
<1>2. ReplayTypeOK /\ SplitInv
  BY DEF ReplayInv
<1>3. Grows(l, n) /\ n \in Nat /\ n >= 1 /\ Len(dump) = n - 1 /\ t \in Nat
  BY <1>0, <1>1, <1>2, AfterRead
<1>4. Len(dump') = n
  BY <1>3, Grown
<1>5. Replayed(t) /\ Enter.proc = DbOf(t)
  BY <1>0, <1>1, RunnerNow
<1>6. proc' = DbOf(t)'
  <2>1. \A s \in 0..t : Replayed(s) => DbOf(s)' = DbOf(s)
    BY <1>0, <1>1, <1>5, ScratchRead
  <2>2. QED
    BY <1>1, <1>3, <1>5, <2>1
<1>7. buffered' \in Seq(1..(n - 1))
  BY <1>1, <1>2, <1>3, EnterType
<1> DEFINE b == <<>>
<1>8. b \in Seq(1..(n - 1)) /\ Rising(b) /\ {b[k] : k \in 1..Len(b)} = {}
  BY DEF Rising
<1>9. b = <<>> /\ fed' = Append(fed, Given(n, proc'))
  BY <1>1, <1>4
<1> HIDE DEF b
<1>10. QED
  BY <1>0, <1>1, <1>5, <1>6, <1>7, <1>8, <1>9, FeedStep

LEMMA StartGlobalsStep == ReplayInv /\ StartGlobals => ReplayInv'
<1> SUFFICES ASSUME ReplayInv, StartGlobals PROVE ReplayInv'
  OBVIOUS
<1>0. PICK n, t : n = Len(dump) + 1 /\ t = segment
  OBVIOUS
<1>1. PICK l \in Line :
          /\ Read(l) /\ ~Filtered(l) /\ Enter.proc = NoPsql /\ IsGlobals(segment) /\ running' = segment
          /\ proc' = Maintenance /\ buffered' = <<>> /\ encoding' = Enter.encoding
          /\ fed' = Append(fed, Given(Len(dump'), Maintenance)) /\ UNCHANGED scratchDbs
  BY DEF StartGlobals
<1>2. ReplayTypeOK /\ SplitInv
  BY DEF ReplayInv
<1>3. /\ Grows(l, n) /\ n \in Nat /\ n >= 1 /\ Len(dump) = n - 1 /\ t \in Nat
      /\ Needs(n)' <=> ~Filtered(l) /\ (IsGlobals(segment) \/ ~Prologue(l) \/ inCopy)
  BY <1>0, <1>1, <1>2, AfterRead
<1>4. Len(dump') = n /\ Needs(n)' /\ IsGlobals(t)
  BY <1>0, <1>1, <1>3, Grown
<1>5. ~Replayed(t) /\ cluster' = cluster
  BY <1>0, <1>1, RunnerNow
<1>6. proc' = DbOf(t)'
  BY <1>1, <1>4, <1>5 DEF IsGlobals, DbOf, Maintenance
<1>7. buffered' \in Seq(1..(n - 1))
  BY <1>1
<1>8. Held = {}
  <2>1. \A i \in Held : i \in 1..Len(dump) /\ SegmentOf(i) = t /\ Needs(i)
    BY <1>0, <1>4 DEF Held, Needs
  <2>2. QED
    BY <1>5, <2>1 DEF Replayed
<1> DEFINE b == <<>>
<1>9. b \in Seq(1..(n - 1)) /\ Rising(b) /\ {b[k] : k \in 1..Len(b)} = Held
  BY <1>8 DEF Rising
<1>10. b = <<>> /\ fed' = Append(fed, Given(n, proc'))
  BY <1>1, <1>4
<1> HIDE DEF b
<1>11. QED
  BY <1>0, <1>1, <1>4, <1>5, <1>6, <1>7, <1>9, <1>10, FeedStep

LEMMA StartStep == ReplayInv /\ Start => ReplayInv'
<1> SUFFICES ASSUME ReplayInv, Start PROVE ReplayInv'
  OBVIOUS
<1>0. PICK n, t, b : n = Len(dump) + 1 /\ t = segment /\ b = Enter.buffered
  OBVIOUS
<1>1. PICK l \in Line :
          /\ Read(l) /\ ~Filtered(l) /\ ~Prologue(l)
          /\ Enter.proc = NoPsql /\ ~IsGlobals(segment) /\ running' = segment
          /\ encoding' = Enter.encoding
          /\ scratchDbs' = Append(scratchDbs, encoding')
          /\ proc' = Len(scratchDbs') /\ buffered' = <<>>
          /\ fed' = fed \o [k \in 1..Len(Enter.buffered) |-> Given(Enter.buffered[k], proc')]
                        \o <<Given(Len(dump'), proc')>>
  BY DEF Start
<1>2. ReplayTypeOK /\ SplitInv
  BY DEF ReplayInv
<1>3. /\ Grows(l, n) /\ n \in Nat /\ n >= 1 /\ Len(dump) = n - 1 /\ t \in Nat /\ segment' = t
      /\ Needs(n)' <=> ~Filtered(l) /\ (IsGlobals(segment) \/ ~Prologue(l) \/ inCopy)
  BY <1>0, <1>1, <1>2, AfterRead
<1>4. Len(dump') = n /\ Needs(n)' /\ ~IsGlobals(t)
  BY <1>0, <1>1, <1>3, Grown
<1>5. /\ ~Replayed(t) /\ cluster' = cluster /\ Enter.encoding = EncodingOf(t)
      /\ Rising(b) /\ {b[k] : k \in 1..Len(b)} = Held
  BY <1>0, <1>1, RunnerNow
<1>6. scratchDbs' = Append(scratchDbs, EncodingOf(t)) /\ EncodingOf(t) \in Encodings
  BY <1>1, <1>2, <1>5, EnterType
<1>7. proc' = DbOf(t)'
  <2>1. ScratchInv'
    BY <1>0, <1>1, <1>4, <1>5, <1>6, ScratchRead
  <2>2. Len(scratchDbs') = Made(t)'
    BY <1>3, <2>1 DEF ScratchInv
  <2>3. ~IsGlobals(t)'
    BY <1>4, <1>5 DEF IsGlobals
  <2>4. QED
    BY <1>1, <2>2, <2>3 DEF DbOf
<1>8. buffered' \in Seq(1..(n - 1)) /\ b \in Seq(1..(n - 1))
  BY <1>0, <1>1, <1>2, <1>3, EnterType
<1>9. fed' = fed \o [k \in 1..Len(b) |-> Given(b[k], proc')] \o <<Given(n, proc')>>
  BY <1>0, <1>1, <1>4
<1>10. QED
  BY <1>0, <1>1, <1>4, <1>5, <1>6, <1>7, <1>8, <1>9, FeedStep

(* The end changes nothing of what was read and given. *)
LEMMA ReplayEnds == ReplayInv /\ (Finish \/ Abort \/ UNCHANGED replayVars) => ReplayInv'
<1> SUFFICES ASSUME ReplayInv, Finish \/ Abort \/ UNCHANGED replayVars PROVE ReplayInv'
  OBVIOUS
<1>1. UNCHANGED <<cluster, dump, inCopy, segment, running, encoding, scratchDbs, fed>>
  BY DEF Finish, Abort, replayVars, splitVars, runnerVars
<1>2. /\ \A i : (Data(i)' <=> Data(i)) /\ (Header(i)' <=> Header(i)) /\ SegmentOf(i)' = SegmentOf(i)
      /\ \A s : (IsGlobals(s)' <=> IsGlobals(s))
  BY <1>1 DEF Data, Header, SegmentOf, IsGlobals
<1>3. \A i : Needs(i)' <=> Needs(i)
  BY <1>1, <1>2 DEF Needs, IsGlobals
<1>4. \A s : (Replayed(s)' <=> Replayed(s)) /\ Named(s)' = Named(s)
  BY <1>1, <1>2, <1>3 DEF Replayed, Named
<1>5. \A s : Made(s)' = Made(s) /\ DbOf(s)' = DbOf(s) /\ EncodingOf(s)' = EncodingOf(s)
  <2> SUFFICES ASSUME NEW s PROVE Made(s)' = Made(s) /\ DbOf(s)' = DbOf(s) /\ EncodingOf(s)' = EncodingOf(s)
    OBVIOUS
  <2>1. Made(s)' = Made(s)
    <3>1. {r \in 0..s : Replayed(r) /\ ~IsGlobals(r)}' = {r \in 0..s : Replayed(r) /\ ~IsGlobals(r)}
      BY <1>2, <1>4
    <3>2. QED
      BY <3>1 DEF Made
  <2>2. DbOf(s)' = DbOf(s)
    BY <1>2, <2>1 DEF DbOf, Maintenance
  <2>3. EncodingOf(s)' = EncodingOf(s)
    <3>1. Named(s)' = Named(s)
      BY <1>4
    <3>2. Last(Named(s))' = Last(Named(s))
      BY <3>1 DEF Last
    <3>3. QED
      BY <1>1, <3>1, <3>2 DEF EncodingOf
  <2>4. QED
    BY <2>1, <2>2, <2>3
<1>6. \A i : Wanted(i)' <=> Wanted(i)
  BY <1>1, <1>2, <1>4 DEF Wanted
<1>7. \A e : AsMeant(e)' <=> AsMeant(e)
  BY <1>1, <1>2, <1>5 DEF AsMeant
<1>8. FedAsMeant'
  BY <1>1, <1>6, <1>7 DEF ReplayInv, FedAsMeant
<1>9. SplitInv' /\ ScratchInv'
  BY <1>1, <1>2, <1>4, <1>5 DEF ReplayInv, SplitInv, ScratchInv
<1>10. ReplayTypeOK'
  <2>1. Connections' = Connections /\ Fed' = Fed
    BY <1>1 DEF Connections, Fed
  <2>2. proc' \in {NoPsql} \cup Connections /\ buffered' \in Seq(1..Len(dump)) /\ state' \in {"feeding", "done", "aborted"}
    <3>1. CASE Finish
      <4>1. <<>> \in Seq(1..Len(dump))
        OBVIOUS
      <4>2. QED
        BY <3>1, <4>1 DEF Finish
    <3>2. CASE Abort
      BY <3>2 DEF Abort, ReplayInv, ReplayTypeOK
    <3>3. CASE UNCHANGED replayVars
      BY <3>3 DEF replayVars, runnerVars, ReplayInv, ReplayTypeOK
    <3>4. QED
      BY <3>1, <3>2, <3>3
  <2>3. QED
    BY <1>1, <2>1, <2>2 DEF ReplayInv, ReplayTypeOK
<1>11. RunnerInv'
  <2>1. CASE Finish \/ Abort
    BY <2>1 DEF Finish, Abort, RunnerInv
  <2>2. CASE UNCHANGED replayVars
    <3>1. UNCHANGED <<proc, buffered, state>>
      BY <2>2 DEF replayVars, runnerVars
    <3>2. Enter' = Enter
      BY <1>1, <3>1 DEF Enter
    <3>3. Held' = Held
      BY <1>1, <1>2 DEF Held
    <3>4. QED
      BY <1>1, <1>2, <1>4, <1>5, <3>1, <3>2, <3>3 DEF ReplayInv, RunnerInv
  <2>3. QED
    BY <2>1, <2>2
<1>12. QED
  BY <1>8, <1>9, <1>10, <1>11 DEF ReplayInv

LEMMA InitSound == ReplayInit => ReplayInv
<1> SUFFICES ASSUME ReplayInit PROVE ReplayInv
  OBVIOUS
<1>1. /\ cluster \in BOOLEAN /\ dump = <<>> /\ inCopy = FALSE /\ segment = 0
      /\ running = -1 /\ proc = NoPsql /\ buffered = <<>> /\ encoding = Utf8
      /\ scratchDbs = <<>> /\ fed = <<>> /\ state = "feeding" /\ Len(dump) = 0 /\ Len(fed) = 0 /\ Len(scratchDbs) = 0
  BY DEF ReplayInit
<1>2. ReplayTypeOK
  <2>1. dump \in Seq(Line) /\ buffered \in Seq(1..Len(dump)) /\ scratchDbs \in Seq(Encodings) /\ fed \in Seq(Fed)
    <3>1. \A S : <<>> \in Seq(S)
      OBVIOUS
    <3>2. QED
      BY ONLY <1>1, <3>1
  <2>2. Len(dump) <= MaxLines /\ segment \in Segments /\ running \in {-1} \cup Segments
    BY <1>1, LinesAssumption DEF Segments
  <2>3. encoding \in Encodings
    BY <1>1, EncodingAssumption
  <2>4. proc \in {NoPsql} \cup Connections /\ state \in {"feeding", "done", "aborted"}
    BY <1>1
  <2>5. QED
    BY <1>1, <2>1, <2>2, <2>3, <2>4 DEF ReplayTypeOK
<1>3. SegmentOf(0) = 0 /\ ~Data(1)
  BY FS_EmptySet DEF SegmentOf, Data
<1>4. \A s : ~Replayed(s) /\ Named(s) = {}
  BY <1>1 DEF Replayed, Named
<1>5. Made(0) = 0
  <2>1. {r \in 0..0 : Replayed(r) /\ ~IsGlobals(r)} = {}
    BY <1>4
  <2>2. QED
    BY <2>1, FS_EmptySet DEF Made
<1>6. SplitInv /\ ScratchInv /\ FedAsMeant
  BY <1>1, <1>3, <1>4, <1>5 DEF SplitInv, ScratchInv, FedAsMeant
<1>7. RunnerInv
  <2>1. Enter.proc = NoPsql /\ Enter.buffered = <<>> /\ Enter.encoding = Utf8
    BY <1>1 DEF Enter
  <2>2. Held = {} /\ EncodingOf(0) = Utf8
    BY <1>1, <1>4 DEF Held, EncodingOf
  <2>3. QED
    BY <1>1, <1>4, <2>1, <2>2 DEF RunnerInv
<1>8. QED
  BY <1>2, <1>6, <1>7 DEF ReplayInv

LEMMA InvStep == ReplayInv /\ [ReplayNext]_replayVars => ReplayInv'
<1> SUFFICES ASSUME ReplayInv, [ReplayNext]_replayVars PROVE ReplayInv'
  OBVIOUS
<1>1. CASE Filter
  <2>1. PICK l \in Line : /\ Read(l) /\ Filtered(l) /\ running' = segment /\ UNCHANGED <<scratchDbs, fed>>
                          /\ proc' = Enter.proc /\ buffered' = Enter.buffered /\ encoding' = Seen(l)
    BY <1>1 DEF Filter
  <2>2. QED
    BY <2>1, IdleStep
<1>2. CASE Buffer
  <2>1. PICK l \in Line : /\ Read(l) /\ Prologue(l) /\ Enter.proc = NoPsql /\ ~IsGlobals(segment)
                          /\ running' = segment /\ UNCHANGED <<scratchDbs, fed>>
                          /\ proc' = Enter.proc /\ encoding' = Seen(l)
                          /\ buffered' = Append(Enter.buffered, Len(dump'))
    BY <1>2 DEF Buffer
  <2>2. QED
    BY <2>1, IdleStep
<1>3. QED
  BY <1>1, <1>2, HeaderStep, StartGlobalsStep, StartStep, WriteStep, ReplayEnds DEF ReplayNext

-----------------------------------------------------------------------------
(* Between two lines, split_dump and the runner know of the dump what its  *)
(* lines mean as a whole (postgres_verify.py:132-149, 358-405).            *)
THEOREM ReplayInvariance == ReplaySpec => []ReplayInv
<1>1. QED
  BY InitSound, InvStep, PTL DEF ReplaySpec

(* Every variable keeps its type; psql only ever runs for a database that  *)
(* was made (postgres_verify.py:387-397).                                  *)
THEOREM ReplayTypeCorrect == ReplaySpec => []ReplayTypeOK
<1>1. ReplayInv => ReplayTypeOK
  BY DEF ReplayInv
<1>2. QED
  BY <1>1, ReplayInvariance, PTL

(* Of a dump of any length, psql is given exactly the lines of the         *)
(* segments that hold a statement, in order, each in its segment's own     *)
(* database, which has its own encoding (postgres_verify.py:14-16,         *)
(* 132-149, 358-405).                                                      *)
THEOREM NeverInAnotherDatabase == ReplaySpec => []FedAsMeant
<1>1. ReplayInv => FedAsMeant
  BY DEF ReplayInv
<1>2. QED
  BY <1>1, ReplayInvariance, PTL

=============================================================================
