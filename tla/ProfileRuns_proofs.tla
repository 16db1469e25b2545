-------------------------- MODULE ProfileRuns_proofs --------------------------
(***************************************************************************)
(* Proofs about ProfileRuns, for any number of profiles, names, hosts and  *)
(* runs, any values of max_backups and any global policy that keeps daily  *)
(* snapshots.                                                              *)
(***************************************************************************)
EXTENDS ProfileRuns, FiniteSetTheorems, TLAPS

-----------------------------------------------------------------------------
(* Lemmas about the retention *)

(* The newest of a set of snapshots is among its last n. *)
LEMMA NewestIsLast ==
    ASSUME NEW S, NEW s \in S, Later(S, s) = {}, NEW n \in Nat \ {0}
    PROVE  s \in KeepLast(S, n)
<1>1. Cardinality(Later(S, s)) = 0
  BY FS_EmptySet
<1>2. QED
  BY <1>1 DEF KeepLast

(* The newest of a set of snapshots is kept by the global policy. *)
LEMMA NewestIsDaily ==
    ASSUME NEW S, NEW s \in S, Later(S, s) = {}
    PROVE  s \in KeepPolicy(S)
<1>1. {t.day \div 1 : t \in Later(S, s)} = {}
  OBVIOUS
<1>2. Cardinality({t.day \div 1 : t \in Later(S, s)}) < Days
  BY <1>1, FS_EmptySet, PolicyAssumption
<1>3. s \in KeepNewestPer(S, Days, 1)
  BY <1>2 DEF KeepNewestPer
<1>4. QED
  BY <1>3 DEF KeepPolicy

(* Of snapshots with different times, --keep-last n leaves at most n: each *)
(* that is kept has a number of later ones to itself, which is below n.    *)
LEMMA LastAreBounded ==
    ASSUME NEW S, IsFiniteSet(S), NEW n \in Nat \ {0},
           \A s \in S : s.time \in Nat, \A s, t \in S : s.time = t.time => s = t
    PROVE  IsFiniteSet(KeepLast(S, n)) /\ Cardinality(KeepLast(S, n)) <= n
<1> DEFINE f == [s \in KeepLast(S, n) |-> Cardinality(Later(S, s))]
<1>1. \A s \in S : IsFiniteSet(Later(S, s)) /\ Cardinality(Later(S, s)) \in Nat
  BY FS_Subset, FS_CardinalityType DEF Later
<1>2. KeepLast(S, n) \subseteq S /\ f \in [KeepLast(S, n) -> 0..(n - 1)]
  BY <1>1 DEF KeepLast
<1>3. ASSUME NEW s \in S, NEW t \in S, s.time < t.time
      PROVE  Cardinality(Later(S, s)) # Cardinality(Later(S, t))
  <2>1. s.time \in Nat /\ t.time \in Nat /\ \A u \in S : u.time \in Nat
    OBVIOUS
  <2>2. Later(S, t) \subseteq Later(S, s) /\ t \in Later(S, s) /\ t \notin Later(S, t)
    BY <1>3, <2>1 DEF Later
  <2>3. QED
    BY <1>1, <2>2, FS_Subset
<1>4. ASSUME NEW s \in KeepLast(S, n), NEW t \in KeepLast(S, n), f[s] = f[t]
      PROVE  s = t
  <2>1. Cardinality(Later(S, s)) = Cardinality(Later(S, t))
    BY <1>4
  <2>2. s.time \in Nat /\ t.time \in Nat
    BY <1>2
  <2>3. s.time = t.time
    BY <1>2, <1>3, <2>1, <2>2
  <2>4. QED
    BY <1>2, <2>3
<1>5. f \in Injection(KeepLast(S, n), 0..(n - 1))
  BY <1>2, <1>4 DEF Injection, IsInjective
<1>6. IsFiniteSet(0..(n - 1)) /\ Cardinality(0..(n - 1)) = n
  BY FS_Interval
<1>7. QED
  BY <1>5, <1>6, FS_Injection

(* A step of the retention. *)
Forget == ForgetById \/ ForgetByName \/ ForgetUntagged \/ ForgetGlobal

LEMMA ForgetShrinks ==
    ASSUME Forget
    PROVE  /\ snaps' \subseteq snaps
           /\ run # None /\ run.pc \in {"byId", "byName", "untagged", "global"}
           /\ \E pc \in {"byName", "untagged", "clean"} :
                 Goto(pc) /\ (pc # "clean" => run.pc \in {"byId", "byName"})
           /\ UNCHANGED <<dashboardVars, timeVars, stage, latest, kills>>
<1>1. CASE ForgetById
  BY <1>1 DEF ForgetById, ForgetByTags, In
<1>2. CASE ForgetByName
  BY <1>2 DEF ForgetByName, ForgetByTags, In
<1>3. CASE ForgetUntagged
  BY <1>3 DEF ForgetUntagged, In
<1>4. CASE ForgetGlobal
  BY <1>4 DEF ForgetGlobal, In
<1>5. QED
  BY <1>1, <1>2, <1>3, <1>4 DEF Forget

(* A step of the retention keeps a tagged snapshot that is the newest of   *)
(* its profile.                                                            *)
LEMMA ForgetKeepsNewest ==
    ASSUME TypeOK, StageInv, Forget, NEW s \in snaps, s.tagged, s.by \in Ids,
           \A t \in snaps : t.by = s.by => t.time <= s.time
    PROVE  s \in snaps'
<1>1. s.time \in Nat /\ \A t \in snaps : t.time \in Nat
  BY DEF TypeOK, Snapshot
<1>2. \A S \in SUBSET snaps : (\A t \in S : t.by = s.by) => Later(S, s) = {}
  BY <1>1 DEF Later
<1>3. ASSUME NEW S \in SUBSET snaps, run.max \in Nat \ {0}, ForgetByTags(S, run.max)
      PROVE  s \in snaps'
  <2> DEFINE G == {t \in S : Tags(t) = Tags(s)}
  <2>1. \A t \in G : t.by = s.by
    BY IdsAssumption DEF Tags
  <2>2. Later(G, s) = {}
    BY <1>2, <2>1
  <2>3. s \in S => s \in KeepLast(G, run.max)
    BY <1>3, <2>2, NewestIsLast
  <2>4. QED
    BY <1>3, <2>3 DEF ForgetByTags
<1>4. CASE ForgetById
  <2>1. run.max \in Nat \ {0}
    BY <1>4, KeepsAssumption DEF ForgetById, In, StageInv, TypeOK, Run
  <2>2. QED
    BY <1>3, <1>4, <2>1 DEF ForgetById
<1>5. CASE ForgetByName
  <2>1. run.max \in Nat \ {0}
    BY <1>5, KeepsAssumption DEF ForgetByName, In, StageInv, TypeOK, Run
  <2>2. QED
    BY <1>3, <1>5, <2>1 DEF ForgetByName
<1>6. CASE ForgetUntagged
  BY <1>6 DEF ForgetUntagged
<1>7. CASE ForgetGlobal
  <2> DEFINE G == {t \in snaps : t.by = s.by /\ t.host = s.host}
  <2>1. s \in KeepPolicy(G)
    BY <1>2, NewestIsDaily
  <2>2. QED
    BY <1>7, <2>1 DEF ForgetGlobal
<1>8. QED
  BY <1>4, <1>5, <1>6, <1>7 DEF Forget

(* What a step may be, for the case distinctions below. *)
LEMMA StepCases ==
    ASSUME [Next]_vars
    PROVE  \/ \E p \in Ids : Launch(p) \/ Begin(p) \/ Edit(p) \/ DeleteProfile(p)
           \/ BeginService \/ Prepare \/ Dump \/ Store \/ StoreService \/ Forget
           \/ Finish \/ Fail \/ Kill \/ NextDay
           \/ \E s \in snaps : DeleteSnapshot(s)
           \/ UNCHANGED vars
  BY DEF Next, RunStep, Forget

-----------------------------------------------------------------------------
(* Types *)

(* The part of the type invariant that the steps of a run disturb. *)
RunOK(r, c) ==
    r = None \/ (r \in Run /\ (r.p = Service <=> r.name = None) /\ r.n < c)

LEMMA GotoFacts ==
    ASSUME TypeOK, run # None, NEW pc \in Steps, Goto(pc)
    PROVE  /\ run \in Run /\ run' \in Run /\ run' # None
           /\ run'.pc = pc
           /\ run'.p = run.p /\ run'.name = run.name /\ run'.max = run.max /\ run'.n = run.n
<1>1. run \in Run
  BY DEF TypeOK
<1>2. run' \in Run
  BY <1>1 DEF Goto, Run
<1>3. QED
  BY <1>1, <1>2, RunAssumption DEF Goto, Run

LEMMA GotoType ==
    ASSUME TypeOK, run # None, NEW pc \in Steps, Goto(pc)
    PROVE  RunOK(run', clock)
  BY GotoFacts DEF TypeOK, RunOK

LEMMA NewSnapshotType ==
    ASSUME TypeOK, run # None
    PROVE  NewSnapshot \in Snapshot /\ NewSnapshot.time = run.n /\ run.n < clock
  BY IdsAssumption DEF TypeOK, Run, NewSnapshot, Snapshot

LEMMA UnstagedType ==
    ASSUME TypeOK
    PROVE  Unstaged \in [Ids -> SUBSET Nat]
  BY DEF TypeOK, Unstaged

LEMMA InitSnaps ==
    ASSUME Init
    PROVE  \A s \in snaps : s \in Snapshot /\ s.time = 0 /\ s.by \in Ids /\ ~s.tagged
<1>1. PICK old \in [time : {0}, day : {0}, by : Ids, host : Hosts, tagged : {FALSE},
                    name : Names] : snaps \in {{}, {old}}
  BY DEF Init
<1>2. old.time = 0 /\ old.by \in Ids /\ old.tagged = FALSE
  OBVIOUS
<1>3. old \in Snapshot
  <2>1. old.day \in Nat /\ old.host \in Hosts /\ old.name \in Names
    OBVIOUS
  <2>2. old = [time |-> old.time, day |-> old.day, by |-> old.by, host |-> old.host,
               tagged |-> old.tagged, name |-> old.name]
    OBVIOUS
  <2>3. old.time \in Nat
    BY <1>2
  <2>4. old.tagged \in {FALSE} /\ {FALSE} \subseteq BOOLEAN
    OBVIOUS
  <2>5. QED
    BY <1>2, <2>1, <2>2, <2>3, <2>4 DEF Snapshot
<1>4. QED
  BY <1>1, <1>2, <1>3

LEMMA InitType == Init => TypeOK
<1>1. ASSUME Init PROVE TypeOK
  <2>1. snaps \in SUBSET Snapshot /\ \A s \in snaps : s.time < clock
    <3>1. clock = 1
      BY <1>1 DEF Init
    <3>2. \A s \in snaps : s \in Snapshot /\ s.time = 0
      BY <1>1, InitSnaps
    <3>3. QED
      BY <3>1, <3>2
  <2>2. clock \in 1..(MaxRuns + 1) /\ day \in 0..MaxDay /\ kills \in 0..MaxKills
    BY <1>1, BoundsAssumption DEF Init
  <2>3. profiles \in [Ids -> Profile \cup {None}]
    BY <1>1 DEF Init
  <2>4. QED
    BY <1>1, <2>1, <2>2, <2>3 DEF Init, TypeOK
<1>2. QED
  BY <1>1

LEMMA StepType ==
    ASSUME TypeOK, [Next]_vars
    PROVE  TypeOK'
<1> USE DEF TypeOK, dashboardVars, timeVars
<1>1. ASSUME NEW p \in Ids, Launch(p) PROVE TypeOK'
  BY <1>1 DEF Launch
<1>2. ASSUME NEW p \in Ids, Begin(p) PROVE TypeOK'
  <2>1. clock' = clock + 1 /\ clock' \in 1..(MaxRuns + 1)
    BY <1>2, BoundsAssumption DEF Begin
  <2>2. due' \in SUBSET Ids
    BY <1>2 DEF Begin
  <2>3. RunOK(run', clock')
    <3>1. CASE run' = None
      BY <3>1 DEF RunOK
    <3>2. CASE run' # None
      <4>1. profiles[p] \in Profile
        BY <1>2, <3>2 DEF Begin
      <4>2. PICK h \in Hosts : run' = [pc |-> "stage", p |-> p, name |-> profiles[p].name,
                                       max |-> profiles[p].max, n |-> clock, host |-> h]
        BY <1>2, <3>2 DEF Begin
      <4>3. QED
        BY <4>1, <4>2, <2>1, IdsAssumption DEF RunOK, Run, Steps, Profile
    <3>3. QED
      BY <3>1, <3>2
  <2>4. \A s \in snaps : s.time < clock'
    BY <2>1 DEF Snapshot
  <2>5. QED
    BY <1>2, <2>1, <2>2, <2>3, <2>4 DEF Begin, RunOK
<1>3. ASSUME NEW p \in Ids, Edit(p) PROVE TypeOK'
  BY <1>3 DEF Edit
<1>4. ASSUME NEW p \in Ids, DeleteProfile(p) PROVE TypeOK'
  BY <1>4 DEF DeleteProfile
<1>5. CASE BeginService
  <2>1. clock' = clock + 1 /\ clock' \in 1..(MaxRuns + 1)
    BY <1>5, BoundsAssumption DEF BeginService
  <2>2. RunOK(run', clock')
    BY <1>5, <2>1 DEF BeginService, RunOK, Run, Steps
  <2>3. \A s \in snaps : s.time < clock'
    BY <2>1 DEF Snapshot
  <2>4. QED
    BY <1>5, <2>1, <2>2, <2>3 DEF BeginService, RunOK
<1>6. CASE Prepare
  BY <1>6, GotoType DEF Prepare, In, RunOK, Steps
<1>7. CASE Dump
  <2>1. stage' \in [Ids -> SUBSET Nat]
    BY <1>7 DEF Dump, In, Run
  <2>2. QED
    BY <1>7, <2>1, GotoType DEF Dump, In, RunOK, Steps
<1>8. CASE Store
  <2>1. CASE stage[run.p] = {}
    BY <1>8, <2>1, GotoType DEF Store, In, RunOK, Steps
  <2>2. CASE stage[run.p] # {}
    <3>1. RunOK(run', clock)
      BY <1>8, <2>2, GotoType DEF Store, In, Steps
    <3>2. snaps' \in SUBSET Snapshot /\ \A s \in snaps' : s.time < clock
      BY <1>8, <2>2, NewSnapshotType DEF Store, In
    <3>3. latest' \in [Ids -> Snapshot \cup {None}]
      BY <1>8, <2>2, NewSnapshotType DEF Store, In
    <3>4. QED
      BY <1>8, <3>1, <3>2, <3>3 DEF Store, RunOK
  <2>3. QED
    BY <2>1, <2>2
<1>9. CASE StoreService
  <2>1. snaps' \in SUBSET Snapshot /\ \A s \in snaps' : s.time < clock
    BY <1>9, NewSnapshotType DEF StoreService, In
  <2>2. QED
    BY <1>9, <2>1, GotoType DEF StoreService, In, RunOK, Steps
<1>10. CASE Forget
  <2>1. snaps' \in SUBSET Snapshot /\ \A s \in snaps' : s.time < clock
    BY <1>10, ForgetShrinks
  <2>2. RunOK(run', clock)
    BY <1>10, ForgetShrinks, GotoType DEF Steps
  <2>3. QED
    BY <1>10, <2>1, <2>2, ForgetShrinks DEF RunOK
<1>11. CASE Finish
  BY <1>11, UnstagedType DEF Finish
<1>12. CASE Fail
  BY <1>12, UnstagedType DEF Fail
<1>13. CASE Kill
  BY <1>13, BoundsAssumption DEF Kill
<1>14. CASE NextDay
  BY <1>14, BoundsAssumption DEF NextDay
<1>15. ASSUME NEW s \in snaps, DeleteSnapshot(s) PROVE TypeOK'
  <2>1. snaps' \in SUBSET Snapshot /\ \A t \in snaps' : t.time < clock
    BY <1>15 DEF DeleteSnapshot
  <2>2. latest' \in [Ids -> Snapshot \cup {None}]
    BY <1>15 DEF DeleteSnapshot
  <2>3. QED
    BY <1>15, <2>1, <2>2 DEF DeleteSnapshot
<1>16. CASE UNCHANGED vars
  BY <1>16 DEF vars
<1>17. QED
  BY StepCases, <1>1, <1>2, <1>3, <1>4, <1>5, <1>6, <1>7, <1>8, <1>9, <1>10, <1>11, <1>12,
     <1>13, <1>14, <1>15, <1>16

(* Every variable keeps its type. *)
THEOREM TypeCorrect == Spec => []TypeOK
<1>1. QED
  BY InitType, StepType, PTL DEF Spec

-----------------------------------------------------------------------------
(* The staging directories *)

(* The steps of the dashboard and the clock concern no run. *)
Aside ==
    \/ \E p \in Ids : Launch(p) \/ Edit(p) \/ DeleteProfile(p)
    \/ NextDay

LEMMA AsideFacts ==
    ASSUME Aside
    PROVE  UNCHANGED <<run, clock, snaps, stage, latest, kills>>
  BY DEF Aside, Launch, Edit, DeleteProfile, NextDay, timeVars

LEMMA StageStep ==
    ASSUME TypeOK, StageInv, [Next]_vars
    PROVE  StageInv'
<1> USE DEF StageInv, In
<1>1. CASE Aside \/ UNCHANGED vars
  BY <1>1, AsideFacts DEF vars
<1>2. ASSUME NEW p \in Ids, Begin(p) PROVE StageInv'
  <2>1. run = None /\ UNCHANGED <<stage, kills>>
    BY <1>2 DEF Begin
  <2>2. run' # None => run'.pc = "stage" /\ run'.p = p
    <3>1. PICK h \in Hosts :
             run' # None => run' = [pc |-> "stage", p |-> p, name |-> profiles[p].name,
                                    max |-> profiles[p].max, n |-> clock, host |-> h]
      BY <1>2 DEF Begin
    <3>2. QED
      BY <3>1
  <2>3. QED
    BY <2>1, <2>2
<1>3. CASE BeginService
  BY <1>3 DEF BeginService
<1>4. CASE Prepare
  <2>1. run \in Run /\ run.p \in Ids
    BY <1>4 DEF Prepare, TypeOK
  <2>2. /\ run'.pc = "dump" /\ run'.p = run.p /\ run' # None
        /\ stage' = [stage EXCEPT ![run.p] = {}] /\ kills' = kills
    BY <1>4, GotoFacts DEF Prepare, Steps
  <2>3. \A p \in Ids : stage'[p] = IF p = run.p THEN {} ELSE stage[p]
    BY <2>2 DEF TypeOK
  <2>4. QED
    BY <1>4, <2>1, <2>2, <2>3 DEF Prepare
<1>5. CASE Dump
  <2>1. run \in Run /\ run.p \in Ids /\ stage[run.p] = {}
    BY <1>5 DEF Dump, TypeOK
  <2>2. /\ run'.pc = "store" /\ run'.p = run.p /\ run'.n = run.n
        /\ run' # None /\ kills' = kills
    BY <1>5, GotoFacts DEF Dump, Steps
  <2>3. \A p \in Ids : p # run.p => stage'[p] = stage[p]
    BY <1>5 DEF Dump, TypeOK
  <2>4. stage'[run.p] \subseteq {run.n}
    BY <1>5, <2>1 DEF Dump, TypeOK
  <2>5. QED
    BY <1>5, <2>1, <2>2, <2>3, <2>4 DEF Dump
<1>6. CASE Store
  <2>1. run # None /\ run \in Run /\ run.p \in Ids
    BY <1>6 DEF Store, TypeOK
  <2>2. PICK pc \in {"clean", "byId", "global"} : Goto(pc) /\ (pc = "byId" => run.max > 0)
    BY <1>6 DEF Store
  <2>3. /\ run'.p = run.p /\ run'.max = run.max /\ run'.pc = pc /\ run' # None
        /\ stage' = stage /\ kills' = kills
    BY <1>6, <2>2, GotoFacts DEF Store, Steps
  <2>4. QED
    BY <1>6, <2>1, <2>2, <2>3 DEF Store
<1>7. CASE StoreService
  <2>1. run'.p = run.p /\ run'.pc = "global" /\ run' # None /\ UNCHANGED <<stage, kills>>
    BY <1>7, GotoFacts DEF StoreService, Steps
  <2>2. QED
    BY <1>7, <2>1 DEF StoreService
<1>8. CASE Forget
  <2>1. PICK pc \in {"byName", "untagged", "clean"} :
           Goto(pc) /\ (pc # "clean" => run.pc \in {"byId", "byName"})
    BY <1>8, ForgetShrinks
  <2>2. run'.p = run.p /\ run'.max = run.max /\ run'.pc = pc /\ run' # None
    BY <1>8, <2>1, ForgetShrinks, GotoFacts DEF Steps
  <2>3. stage' = stage /\ kills' = kills
    BY <1>8, ForgetShrinks
  <2>4. run # None /\ run.pc # "stage"
    BY <1>8, ForgetShrinks
  <2>5. QED
    BY <2>1, <2>2, <2>3, <2>4
<1>9. CASE Finish
  BY <1>9 DEF Finish, Unstaged
<1>10. CASE Fail
  BY <1>10 DEF Fail, Unstaged
<1>11. CASE Kill
  BY <1>11 DEF Kill, TypeOK
<1>12. ASSUME NEW s \in snaps, DeleteSnapshot(s) PROVE StageInv'
  BY <1>12 DEF DeleteSnapshot
<1>13. QED
  BY StepCases, <1>1, <1>2, <1>3, <1>4, <1>5, <1>6, <1>7, <1>8, <1>9, <1>10, <1>11, <1>12
     DEF Aside

-----------------------------------------------------------------------------
(* The newest snapshots *)

LEMMA LatestStep ==
    ASSUME TypeOK, LatestInv, StageInv, [Next]_vars
    PROVE  LatestInv'
<1>1. CASE Aside \/ UNCHANGED vars
  BY <1>1, AsideFacts DEF vars, LatestInv
<1>2. ASSUME NEW p \in Ids, Begin(p) PROVE LatestInv'
  <2>1. UNCHANGED <<snaps, latest>>
    BY <1>2 DEF Begin
  <2>2. PICK h \in Hosts :
           run' # None => run' = [pc |-> "stage", p |-> p, name |-> profiles[p].name,
                                  max |-> profiles[p].max, n |-> clock, host |-> h]
    BY <1>2 DEF Begin
  <2>3. run' # None => run'.n = clock
    BY <2>2
  <2>4. QED
    BY <2>1, <2>3 DEF LatestInv, TypeOK
<1>3. CASE BeginService
  BY <1>3 DEF BeginService, LatestInv, TypeOK
<1>4. CASE Prepare \/ Dump
  <2>1. UNCHANGED <<snaps, latest>> /\ run # None /\ run.pc \in {"stage", "dump"}
    BY <1>4 DEF Prepare, Dump, In
  <2>2. run \in Run /\ run'.n = run.n
    BY <1>4, <2>1 DEF Prepare, Dump, Goto, TypeOK, Run
  <2>3. QED
    BY <2>1, <2>2 DEF LatestInv
<1>5. CASE Store
  <2>1. run \in Run /\ run # None /\ run.pc = "store" /\ run.p \in Ids
    BY <1>5 DEF Store, In, StageInv, TypeOK
  <2>2. run'.pc \in {"clean", "byId", "global"}
    BY <1>5, <2>1 DEF Store, Goto, Run
  <2>3. CASE stage[run.p] = {}
    BY <1>5, <2>2, <2>3 DEF Store, LatestInv
  <2>4. CASE stage[run.p] # {}
    <3>1. snaps' = snaps \cup {NewSnapshot} /\ latest' = [latest EXCEPT ![run.p] = NewSnapshot]
      BY <1>5, <2>4 DEF Store
    <3>2. NewSnapshot.by = run.p /\ NewSnapshot.time = run.n /\ NewSnapshot.tagged
      BY <2>1, IdsAssumption DEF NewSnapshot
    <3>3. \A s \in snaps : s.time < run.n /\ s.time \in Nat
      BY <2>1 DEF LatestInv, TypeOK, Snapshot
    <3>4. run.n \in Nat
      BY <2>1 DEF Run
    <3>5. ASSUME NEW p \in Ids, latest'[p] # None
          PROVE  /\ latest'[p] \in snaps' /\ latest'[p].tagged /\ latest'[p].by = p
                 /\ \A s \in snaps' : s.by = p => s.time <= latest'[p].time
      <4>1. CASE p = run.p
        <5>1. latest'[p] = NewSnapshot
          BY <3>1, <4>1, <2>1 DEF TypeOK
        <5>2. QED
          BY <5>1, <4>1, <3>1, <3>2, <3>3, <3>4
      <4>2. CASE p # run.p
        <5>1. latest'[p] = latest[p]
          BY <3>1, <4>2 DEF TypeOK
        <5>2. QED
          BY <5>1, <4>2, <3>1, <3>2, <3>5 DEF LatestInv
      <4>3. QED
        BY <4>1, <4>2
    <3>6. QED
      BY <2>2, <3>5 DEF LatestInv
  <2>5. QED
    BY <2>3, <2>4
<1>6. CASE StoreService
  <2>1. run \in Run /\ run # None /\ run.p = Service
    BY <1>6 DEF StoreService, In, StageInv, TypeOK
  <2>2. run'.pc = "global" /\ latest' = latest
    BY <1>6, <2>1 DEF StoreService, Goto, Run
  <2>3. NewSnapshot.by \notin Ids
    BY <2>1, IdsAssumption DEF NewSnapshot
  <2>4. QED
    BY <1>6, <2>2, <2>3 DEF StoreService, LatestInv
<1>7. CASE Forget
  <2>1. latest' = latest /\ snaps' \subseteq snaps /\ run # None /\ run \in Run
    BY <1>7, ForgetShrinks DEF TypeOK
  <2>2. run'.pc \in {"byName", "untagged", "clean"}
    BY <1>7, <2>1, ForgetShrinks DEF Goto, Run
  <2>3. \A p \in Ids : latest[p] # None => latest[p] \in snaps'
    BY <1>7, ForgetKeepsNewest DEF LatestInv
  <2>4. QED
    BY <2>1, <2>2, <2>3 DEF LatestInv
<1>8. CASE Finish \/ Fail \/ Kill
  BY <1>8 DEF Finish, Fail, Kill, LatestInv
<1>9. ASSUME NEW s \in snaps, DeleteSnapshot(s) PROVE LatestInv'
  <2>1. run' = run /\ snaps' = snaps \ {s}
    BY <1>9 DEF DeleteSnapshot
  <2>2. \A p \in Ids : latest'[p] # None => latest'[p] = latest[p] /\ latest[p] # s
    BY <1>9 DEF DeleteSnapshot
  <2>3. QED
    BY <2>1, <2>2 DEF LatestInv
<1>10. QED
  BY StepCases, <1>1, <1>2, <1>3, <1>4, <1>5, <1>6, <1>7, <1>8, <1>9 DEF Aside

-----------------------------------------------------------------------------
(* The number of snapshots that are kept *)

(* Only what stores a snapshot adds one, with the number of the run.       *)
LEMMA SnapshotsAdded ==
    ASSUME TypeOK, [Next]_vars
    PROVE  \/ snaps' \subseteq snaps
           \/ /\ Store \/ StoreService
              /\ snaps' = snaps \cup {NewSnapshot}
<1>1. CASE Aside \/ UNCHANGED vars
  BY <1>1, AsideFacts DEF vars
<1>2. CASE Forget
  BY <1>2, ForgetShrinks
<1>3. CASE \E p \in Ids : Begin(p)
  BY <1>3 DEF Begin
<1>4. CASE BeginService \/ Prepare \/ Dump \/ Finish \/ Fail \/ Kill
  BY <1>4 DEF BeginService, Prepare, Dump, Finish, Fail, Kill
<1>5. CASE Store \/ StoreService
  BY <1>5 DEF Store, StoreService
<1>6. CASE \E s \in snaps : DeleteSnapshot(s)
  BY <1>6 DEF DeleteSnapshot
<1>7. QED
  BY StepCases, <1>1, <1>2, <1>3, <1>4, <1>5, <1>6 DEF Aside

LEMMA TimesStep ==
    ASSUME TypeOK, LatestInv, TimesInv, [Next]_vars
    PROVE  TimesInv'
<1>1. CASE snaps' \subseteq snaps
  BY <1>1, FS_Subset DEF TimesInv
<1>2. CASE (Store \/ StoreService) /\ snaps' = snaps \cup {NewSnapshot}
  <2>1. run \in Run /\ run # None /\ run.pc \in {"store", "service"}
    BY <1>2 DEF Store, StoreService, In, TypeOK
  <2>2. run.n \in Nat /\ NewSnapshot.time = run.n
    BY <2>1 DEF Run, NewSnapshot
  <2>3. \A s \in snaps : s.time < run.n /\ s.time \in Nat
    BY <2>1 DEF LatestInv, TypeOK, Snapshot
  <2>4. IsFiniteSet(snaps')
    BY <1>2, FS_AddElement DEF TimesInv
  <2>5. QED
    BY <1>2, <2>2, <2>3, <2>4 DEF TimesInv
<1>3. QED
  BY <1>1, <1>2, SnapshotsAdded

(* The snapshots a run's retention by id is about *)
Own == {s \in snaps : s.tagged /\ s.by = run.p /\ s.name = run.name}

(* That retention leaves as many of them as it is told to.                 *)
LEMMA ByIdBounds ==
    ASSUME TypeOK, TimesInv, StageInv, ForgetById
    PROVE  /\ IsFiniteSet({s \in snaps' : s.tagged /\ s.by = run.p /\ s.name = run.name})
           /\ Cardinality({s \in snaps' : s.tagged /\ s.by = run.p /\ s.name = run.name}) <= run.max
<1> DEFINE S == {s \in snaps : s.tagged /\ s.by = run.p}
           K == {s \in snaps' : s.tagged /\ s.by = run.p /\ s.name = run.name}
<1>1. run \in Run /\ run.pc = "byId" /\ run.max \in Nat \ {0}
  BY KeepsAssumption DEF ForgetById, In, StageInv, TypeOK, Run
<1>2. snaps' = {s \in snaps : s \in S => s \in KeepLast({t \in S : Tags(t) = Tags(s)}, run.max)}
  BY DEF ForgetById, ForgetByTags
<1>3. \A s \in K : s \in snaps /\ s \in S /\ s \in Own
  BY <1>2 DEF Own
<1>4. \A s \in Own : {t \in S : Tags(t) = Tags(s)} = Own
  BY IdsAssumption DEF Own, Tags
<1>5. K \subseteq KeepLast(Own, run.max)
  BY <1>2, <1>3, <1>4
<1>6. /\ IsFiniteSet(Own) /\ \A s \in Own : s.time \in Nat
      /\ \A s, t \in Own : s.time = t.time => s = t
  BY FS_Subset DEF Own, TimesInv, TypeOK, Snapshot
<1>7. IsFiniteSet(KeepLast(Own, run.max)) /\ Cardinality(KeepLast(Own, run.max)) <= run.max
  BY <1>1, <1>6, LastAreBounded
<1>8. IsFiniteSet(K) /\ Cardinality(K) <= Cardinality(KeepLast(Own, run.max))
  BY <1>5, <1>7, FS_Subset
<1>9. Cardinality(K) \in Nat /\ Cardinality(KeepLast(Own, run.max)) \in Nat
  BY <1>7, <1>8, FS_CardinalityType
<1>10. QED
  BY <1>1, <1>7, <1>8, <1>9

(* A step that adds none of them keeps to the bound.                       *)
LEMMA BoundKept ==
    ASSUME TypeOK, TimesInv, OwnBounded, snaps' \subseteq snaps,
           run # None, run.pc \in {"byName", "untagged"},
           run'.p = run.p, run'.name = run.name, run'.max = run.max
    PROVE  OwnBounded'
<1> DEFINE K == {s \in snaps' : s.tagged /\ s.by = run.p /\ s.name = run.name}
<1>1. Cardinality(Own) <= run.max /\ run.max \in Nat
  BY KeepsAssumption DEF OwnBounded, Own, TypeOK, Run
<1>2. IsFiniteSet(Own) /\ K \subseteq Own
  BY FS_Subset DEF Own, TimesInv
<1>3. IsFiniteSet(K) /\ Cardinality(K) <= Cardinality(Own)
  BY <1>2, FS_Subset
<1>4. Cardinality(K) \in Nat /\ Cardinality(Own) \in Nat
  BY <1>2, <1>3, FS_CardinalityType
<1>5. Cardinality(K) <= run.max
  BY <1>1, <1>3, <1>4
<1>6. QED
  BY <1>5 DEF OwnBounded

LEMMA BoundStep ==
    ASSUME TypeOK, TimesInv, StageInv, OwnBounded, [Next]_vars
    PROVE  OwnBounded'
<1>1. CASE UNCHANGED run /\ snaps' \subseteq snaps
  BY <1>1, BoundKept DEF OwnBounded
<1>2. CASE run' # None => run'.pc \notin {"byName", "untagged"}
  BY <1>2 DEF OwnBounded
<1>3. CASE Forget
  <2>1. /\ snaps' \subseteq snaps /\ run # None
        /\ \E pc \in Steps : Goto(pc) /\ (pc \in {"byName", "untagged"} => run.pc \in {"byId", "byName"})
    BY <1>3, ForgetShrinks DEF Steps
  <2>2. /\ run'.p = run.p /\ run'.name = run.name /\ run'.max = run.max /\ run' # None
        /\ run'.pc \in {"byName", "untagged"} => run.pc \in {"byId", "byName"}
    BY <2>1, GotoFacts
  <2>3. CASE ForgetById
    BY <2>2, <2>3, ByIdBounds DEF OwnBounded
  <2>4. CASE run.pc \in {"byName", "untagged"}
    BY <2>1, <2>2, <2>4, BoundKept
  <2>5. CASE ForgetGlobal
    BY <2>1, <2>2, <2>5, <1>2 DEF ForgetGlobal, In
  <2>6. QED
    BY <1>3, <2>3, <2>4, <2>5 DEF Forget, ForgetByName, ForgetUntagged, In
<1>4. CASE Aside \/ UNCHANGED vars
  BY <1>1, <1>4, AsideFacts DEF vars
<1>5. ASSUME NEW p \in Ids, Begin(p) PROVE OwnBounded'
  <2>1. PICK h \in Hosts :
           run' # None => run' = [pc |-> "stage", p |-> p, name |-> profiles[p].name,
                                  max |-> profiles[p].max, n |-> clock, host |-> h]
    BY <1>5 DEF Begin
  <2>2. run' # None => run'.pc = "stage"
    BY <2>1
  <2>3. QED
    BY <1>2, <2>2
<1>6. CASE BeginService
  BY <1>2, <1>6 DEF BeginService
<1>7. CASE Prepare \/ Dump \/ Store \/ StoreService
  <2>1. \E pc \in {"dump", "store", "clean", "byId", "global"} : run # None /\ Goto(pc)
    BY <1>7 DEF Prepare, Dump, Store, StoreService, In
  <2>2. run'.pc \notin {"byName", "untagged"}
    BY <2>1, GotoFacts DEF Steps
  <2>3. QED
    BY <1>2, <2>2
<1>8. CASE Finish \/ Fail \/ Kill
  BY <1>2, <1>8 DEF Finish, Fail, Kill
<1>9. CASE \E s \in snaps : DeleteSnapshot(s)
  BY <1>1, <1>9 DEF DeleteSnapshot
<1>10. QED
  BY StepCases, <1>3, <1>4, <1>5, <1>6, <1>7, <1>8, <1>9 DEF Aside

-----------------------------------------------------------------------------
(* The theorems *)

LEMMA InitInv == Init => IInv
<1>1. ASSUME Init PROVE IInv
  <2>1. TypeOK /\ LatestInv /\ StageInv /\ OwnBounded
    BY <1>1, InitType DEF Init, LatestInv, StageInv, In, OwnBounded
  <2>2. TimesInv
    <3>1. PICK old : snaps \in {{}, {old}}
      BY <1>1 DEF Init
    <3>2. IsFiniteSet(snaps)
      BY <3>1, FS_EmptySet, FS_Singleton
    <3>3. QED
      BY <3>1, <3>2 DEF TimesInv
  <2>3. QED
    BY <2>1, <2>2 DEF IInv
<1>2. QED
  BY <1>1

(* IInv is inductive: the profile's last snapshot is the newest of its     *)
(* snapshots, no two have the same time, and a run works in a directory it *)
(* has emptied.                                                            *)
THEOREM Invariance == Spec => []IInv
<1>1. IInv /\ [Next]_vars => IInv'
  BY StepType, StageStep, LatestStep, TimesStep, BoundStep DEF IInv
<1>2. QED
  BY <1>1, InitInv, PTL DEF Spec

(* After the retention by id at most max_backups snapshots with the        *)
(* profile's id and its name of the run are left, for any max_backups and  *)
(* any number of snapshots and hosts, until the run ends                   *)
(* (backup-all.sh:258-261).                                                *)
THEOREM RetentionBounds == Spec => []OwnBounded
<1>1. IInv => OwnBounded
  BY DEF IInv
<1>2. QED
  BY <1>1, Invariance, PTL

(* Retention never removes the newest snapshot of a profile, whatever the  *)
(* profiles' names and numbers of backups are and become                   *)
(* (backup-all.sh:258-283).                                                *)
THEOREM RetentionKeepsLatest == Spec => []LatestKept
<1>1. IInv => LatestKept
  BY DEF IInv, LatestInv, LatestKept, Owners
<1>2. QED
  BY <1>1, Invariance, PTL

(* Without kills, no files stay staged when a run has ended                *)
(* (backup-all.sh:96-101, 288-291).                                        *)
THEOREM NothingLeftStaged == Spec => []StageCleared
<1>1. IInv => StageCleared
  BY DEF IInv, StageInv, StageCleared
<1>2. QED
  BY <1>1, Invariance, PTL

(* A profile's snapshot holds exactly the files of the run that made it    *)
(* (backup-all.sh:160-165, 258).                                           *)
THEOREM SnapshotsAreFresh == Spec => FreshOnly
<1> DEFINE Fresh == \A s \in snaps' \ snaps : s.by \in Ids => stage[s.by] = {s.time}
<1>1. ASSUME IInv, [Next]_vars PROVE Fresh
  <2>1. CASE Store
    <3>1. stage[run.p] \subseteq {run.n}
      BY <1>1, <2>1 DEF IInv, StageInv, Store, In
    <3>2. \A s \in snaps' \ snaps : s = NewSnapshot /\ stage[run.p] # {}
      BY <2>1 DEF Store
    <3>3. QED
      BY <3>1, <3>2 DEF NewSnapshot
  <2>2. CASE StoreService
    <3>1. run.p = Service
      BY <1>1, <2>2 DEF IInv, StageInv, StoreService, In
    <3>2. QED
      BY <2>2, <3>1, IdsAssumption DEF StoreService, NewSnapshot
  <2>3. CASE Forget
    BY <2>3, ForgetShrinks
  <2>4. CASE ~(Store \/ StoreService \/ Forget)
    <3>1. snaps' \subseteq snaps
      BY <1>1, <2>4, StepCases, AsideFacts
         DEF Aside, Begin, BeginService, Prepare, Dump, Finish, Fail, Kill, DeleteSnapshot, vars
    <3>2. QED
      BY <3>1
  <2>5. QED
    BY <2>1, <2>2, <2>3, <2>4
<1>2. IInv /\ [Next]_vars => [Fresh]_vars
  BY <1>1
<1>3. QED
  BY <1>2, Invariance, PTL DEF Spec, FreshOnly

=============================================================================
