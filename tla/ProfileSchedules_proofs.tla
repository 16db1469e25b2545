----------------------- MODULE ProfileSchedules_proofs -----------------------
(***************************************************************************)
(* Proofs about ProfileSchedules, for any number of threads, profiles,     *)
(* repositories and times.  A step changes the local state of one actor;   *)
(* the lemmas of the first part say what follows for the whole of req.     *)
(***************************************************************************)
EXTENDS ProfileSchedules, TLAPS

(* An actor's local state is consistent with its stage. *)
ActorOK(x) ==
    /\ x \in Actor
    /\ x.pc \in {"create", "merged", "update"} => x.val \in Profile
    /\ x.pc \in {"merged", "update", "schedule", "delete"} => x.id \in Ids
    /\ x.pc \in {"schedule", "legacy"} => x.time \in Times

(* What a step may be, for the case distinctions below. *)
LEMMA StepCases ==
    ASSUME [Next]_vars
    PROVE  \/ \E r \in Requests :
                 \/ StartCreate(r) \/ StartUpdate(r) \/ StartSchedule(r) \/ StartDelete(r)
                 \/ AddRepository(r) \/ StartRemove(r) \/ StartLegacy(r)
                 \/ Create(r) \/ CheckRepository(r) \/ Update(r) \/ SetSchedule(r)
                 \/ Delete(r) \/ Remove(r) \/ WriteLegacy(r)
           \/ \E a \in Actors : SyncRead(a) \/ SyncWrite(a) \/ Abort(a)
           \/ StartCron
           \/ UNCHANGED vars
  BY DEF Next, Arrival, Storage, Sync

LEMMA RequestsAct == Requests \subseteq Actors /\ Cron \in Actors
  BY DEF Actors

(* The type invariant, with the part about req in terms of ActorOK. *)
LEMMA TypeByActor ==
    TypeOK <=> /\ profiles \in ProfileMap
               /\ repos \in SUBSET Repos /\ Default \in repos
               /\ used \in SUBSET (Ids \cup Repos)
               /\ cron \in CronFile
               /\ cronLock \in Actors \cup {None}
               /\ req \in [Actors -> Actor]
               /\ \A a \in Actors : ActorOK(req[a])
               /\ lost \in BOOLEAN
               /\ restarts \in 0..MaxRestarts
  BY DEF TypeOK, ActorOK

LEMMA IdleOK == ActorOK(Idle) /\ NoProfiles \in ProfileMap /\ Idle.pc = "idle"
  BY DEF ActorOK, Idle, Actor, Stages, NoProfiles, ProfileMap

LEMMA CronFiles ==
    ASSUME NEW ps \in ProfileMap, NEW t \in Times \cup {None}
    PROVE  Entry(t) \in CronFile /\ Lines(ps) \in CronFile
<1>1. \A u \in Times \cup {None} : Entry(u) \in CronFile
  BY DEF Entry, CronFile
<1>2. Lines(ps) \in CronFile
  BY <1>1, TimesAssumption DEF Lines, CronFile
<1>3. QED
  BY <1>1, <1>2

(* One actor moves on: to another stage, to a new request, to idle.        *)
LEMMA GotoFacts ==
    ASSUME TypeOK, NEW a \in Actors, NEW st \in Stages, Goto(a, st),
           ActorOK([req[a] EXCEPT !.pc = st])
    PROVE  /\ req' \in [Actors -> Actor]
           /\ \A b \in Actors : ActorOK(req'[b])
           /\ \A b \in Actors : b # a => req'[b] = req[b]
           /\ req'[a] = [req[a] EXCEPT !.pc = st]
           /\ req'[a].pc = st
           /\ req'[a].id = req[a].id
           /\ req'[a].seen = req[a].seen
<1>1. req'[a] = [req[a] EXCEPT !.pc = st]
  BY DEF Goto, TypeOK
<1>2. \A b \in Actors : b # a => req'[b] = req[b]
  BY DEF Goto, TypeOK
<1>3. req[a] \in Actor
  BY DEF TypeOK
<1>4. /\ req'[a].pc = st /\ req'[a].id = req[a].id /\ req'[a].seen = req[a].seen
  BY <1>1, <1>3 DEF Actor
<1>5. \A b \in Actors : ActorOK(req'[b])
  BY <1>1, <1>2, TypeByActor
<1>6. req' \in [Actors -> Actor]
  BY <1>1, <1>3 DEF Goto, TypeOK, Actor
<1>7. QED
  BY <1>1, <1>2, <1>4, <1>5, <1>6

LEMMA AnswerFacts ==
    ASSUME TypeOK, NEW a \in Actors, Answer(a)
    PROVE  /\ req' \in [Actors -> Actor]
           /\ \A b \in Actors : ActorOK(req'[b])
           /\ \A b \in Actors : b # a => req'[b] = req[b]
           /\ req'[a] = Idle
           /\ req'[a].pc = "idle"
<1>1. /\ req'[a] = Idle
      /\ \A b \in Actors : b # a => req'[b] = req[b]
  BY DEF Answer, TypeOK
<1>2. req' \in [Actors -> Actor]
  BY IdleOK DEF Answer, TypeOK, ActorOK
<1>3. QED
  BY <1>1, <1>2, IdleOK, TypeByActor

LEMMA StartFacts ==
    ASSUME TypeOK, NEW a \in Actors, NEW st \in Stages, NEW i \in Ids \cup {None},
           NEW v \in Profile \cup {None}, NEW F \in SUBSET Fields,
           NEW x \in Repos \cup {None}, NEW t \in Times \cup {None},
           Start(a, st, i, v, F, x, t),
           st \in {"create", "merged", "update"} => v \in Profile,
           st \in {"merged", "update", "schedule", "delete"} => i \in Ids,
           st \in {"schedule", "legacy"} => t \in Times
    PROVE  /\ req' \in [Actors -> Actor]
           /\ \A b \in Actors : ActorOK(req'[b])
           /\ \A b \in Actors : b # a => req'[b] = req[b]
           /\ req'[a].pc = st
           /\ req'[a].id = i
<1> DEFINE new == [pc |-> st, id |-> i, val |-> v, fields |-> F, repo |-> x, time |-> t,
                   seen |-> NoProfiles]
<1>1. req' = [req EXCEPT ![a] = new]
  BY DEF Start
<1>2. new \in Actor
  BY IdleOK DEF Actor
<1>3. new.pc = st /\ new.id = i /\ new.val = v /\ new.time = t
  OBVIOUS
<1>4. ActorOK(new)
  BY <1>2, <1>3 DEF ActorOK
<1> HIDE DEF new
<1>5. /\ req'[a] = new /\ req' \in [Actors -> Actor]
      /\ \A b \in Actors : b # a => req'[b] = req[b]
  BY <1>1, <1>2 DEF TypeOK
<1>6. QED
  BY <1>3, <1>4, <1>5, TypeByActor

-----------------------------------------------------------------------------
(* Type correctness *)

(* A step of a request that only reads.                                    *)
LEMMA ArrivalType ==
    ASSUME TypeOK, NEW r \in Requests,
           \/ StartCreate(r) \/ StartUpdate(r) \/ StartSchedule(r) \/ StartDelete(r)
           \/ StartRemove(r) \/ StartLegacy(r)
    PROVE  /\ req' \in [Actors -> Actor]
           /\ \A b \in Actors : ActorOK(req'[b])
           /\ \A b \in Actors : b # r => req'[b] = req[b]
           /\ req[r].pc = "idle"
           /\ req'[r].pc \in {"create", "merged", "schedule", "delete", "remove", "legacy"}
           /\ req'[r].pc \in {"merged", "schedule", "delete"} =>
                 req'[r].id \in Ids /\ profiles[req'[r].id] # None
           /\ UNCHANGED <<storageVars, syncVars, restarts>>
<1> USE RequestsAct
<1>0. {"create", "merged", "schedule", "delete", "remove", "legacy"} \subseteq Stages
  BY DEF Stages
<1>1. CASE StartCreate(r)
  <2>1. PICK v \in Profile : Start(r, "create", None, v, {}, None, None)
    BY <1>1 DEF StartCreate
  <2>2. QED
    BY <1>0, <1>1, <2>1, StartFacts DEF StartCreate, Arrives
<1>2. CASE StartUpdate(r)
  <2>1. PICK i \in Ids, v \in Profile :
          /\ profiles[i] # None
          /\ Start(r, "merged", i, v, {g \in Fields : v[g] # profiles[i][g]}, None, None)
    BY <1>2 DEF StartUpdate
  <2>2. req[r].pc = "idle" /\ UNCHANGED <<storageVars, syncVars, restarts>>
    BY <1>2 DEF StartUpdate, Arrives
  <2>3. /\ req' \in [Actors -> Actor]
        /\ \A b \in Actors : ActorOK(req'[b])
        /\ \A b \in Actors : b # r => req'[b] = req[b]
        /\ req'[r].pc = "merged"
        /\ req'[r].id = i
    BY <1>0, <2>1, StartFacts
  <2>4. QED
    BY <2>1, <2>2, <2>3
<1>3. CASE StartSchedule(r)
  <2>1. PICK i \in Ids, t \in Times :
          profiles[i] # None /\ Start(r, "schedule", i, None, {}, None, t)
    BY <1>3 DEF StartSchedule
  <2>2. QED
    BY <1>0, <1>3, <2>1, StartFacts DEF StartSchedule, Arrives
<1>4. CASE StartDelete(r)
  <2>1. PICK i \in Ids : profiles[i] # None /\ Start(r, "delete", i, None, {}, None, None)
    BY <1>4 DEF StartDelete
  <2>2. QED
    BY <1>0, <1>4, <2>1, StartFacts DEF StartDelete, Arrives
<1>5. CASE StartRemove(r)
  <2>1. PICK x \in Repos : Start(r, "remove", None, None, {}, x, None)
    BY <1>5 DEF StartRemove
  <2>2. QED
    BY <1>0, <1>5, <2>1, StartFacts DEF StartRemove, Arrives
<1>6. CASE StartLegacy(r)
  <2>1. PICK t \in Times : Start(r, "legacy", None, None, {}, None, t)
    BY <1>6 DEF StartLegacy
  <2>2. QED
    BY <1>0, <1>6, <2>1, StartFacts DEF StartLegacy, Arrives
<1>7. QED
  BY <1>1, <1>2, <1>3, <1>4, <1>5, <1>6

(* What the storage steps of a request do to its stage and to the profiles *)
LEMMA StorageType ==
    ASSUME TypeOK, NEW r \in Requests,
           Create(r) \/ Update(r) \/ SetSchedule(r) \/ Delete(r)
    PROVE  /\ req' \in [Actors -> Actor]
           /\ \A b \in Actors : ActorOK(req'[b])
           /\ \A b \in Actors : b # r => req'[b] = req[b]
           /\ req[r].pc \notin {"sync", "publish"}
           /\ profiles' \in ProfileMap
           /\ used' \in SUBSET (Ids \cup Repos) /\ used \subseteq used'
           /\ \/ req'[r].pc = "sync"
              \/ req'[r].pc = "idle" /\ profiles' = profiles
           /\ \A i \in Ids : profiles'[i] # None =>
                 profiles[i] # None \/ (Create(r) /\ i \in used' /\ i \notin used)
           /\ UNCHANGED <<repos, cron, cronLock, lost, restarts>>
<1> USE RequestsAct
<1>0. /\ "sync" \in Stages
      /\ ActorOK([req[r] EXCEPT !.pc = "sync"])
      /\ Goto(r, "sync") => req'[r].pc = "sync"
  <2>1. req[r] \in Actor /\ "sync" \in Stages
    BY DEF TypeOK, Stages
  <2>2. [req[r] EXCEPT !.pc = "sync"] \in Actor /\ [req[r] EXCEPT !.pc = "sync"].pc = "sync"
    BY <2>1 DEF Actor
  <2>3. ActorOK([req[r] EXCEPT !.pc = "sync"])
    BY <2>2 DEF ActorOK
  <2>4. QED
    BY <2>1, <2>3, GotoFacts
<1>1. CASE Create(r)
  <2>1. req[r].val \in Profile
    BY <1>1 DEF Create, TypeOK
  <2>2. PICK i \in Ids \ used : /\ profiles' = [profiles EXCEPT ![i] = req[r].val]
                                /\ used' = used \cup {i}
    BY <1>1 DEF Create
  <2>3. profiles' \in ProfileMap
    BY <2>1, <2>2 DEF TypeOK, ProfileMap
  <2>4. used' \in SUBSET (Ids \cup Repos) /\ used \subseteq used'
    BY <2>2 DEF TypeOK
  <2>5. \A k \in Ids : profiles'[k] # None =>
           profiles[k] # None \/ (k \in used' /\ k \notin used)
    BY <2>2 DEF TypeOK, ProfileMap
  <2>6. QED
    BY <1>0, <1>1, <2>3, <2>4, <2>5, GotoFacts DEF Create, syncVars
<1>2. CASE Update(r)
  <2>1. req[r].val \in Profile /\ req[r].id \in Ids
    BY <1>2 DEF Update, TypeOK
  <2>2. profiles' \in ProfileMap
    BY <1>2, <2>1 DEF Update, TypeOK, ProfileMap
  <2>3. \A k \in Ids : profiles'[k] # None => profiles[k] # None
    BY <1>2, <2>1 DEF Update, TypeOK, ProfileMap
  <2>4. CASE profiles[req[r].id] # None
    BY <1>0, <1>2, <2>2, <2>3, <2>4, GotoFacts DEF Update, syncVars, TypeOK
  <2>5. CASE profiles[req[r].id] = None
    BY <1>2, <2>2, <2>3, <2>5, AnswerFacts DEF Update, syncVars, TypeOK
  <2>6. QED
    BY <2>4, <2>5
<1>3. CASE SetSchedule(r)
  <2>1. req[r].time \in Times /\ req[r].id \in Ids
    BY <1>3 DEF SetSchedule, TypeOK
  <2>4. CASE profiles[req[r].id] # None
    <3>1. profiles[req[r].id] \in Profile
      BY <2>1, <2>4 DEF TypeOK, ProfileMap
    <3>2. [profiles[req[r].id] EXCEPT !.schedule = req[r].time] \in Profile
      BY <2>1, <3>1 DEF Profile
    <3>3. profiles' = [profiles EXCEPT ![req[r].id] =
                          [profiles[req[r].id] EXCEPT !.schedule = req[r].time]]
      BY <1>3, <2>4 DEF SetSchedule
    <3>4. profiles' \in ProfileMap /\ \A k \in Ids : profiles'[k] # None => profiles[k] # None
      BY <2>1, <2>4, <3>2, <3>3 DEF TypeOK, ProfileMap
    <3>5. QED
      BY <1>0, <1>3, <2>4, <3>4, GotoFacts DEF SetSchedule, syncVars, TypeOK
  <2>5. CASE profiles[req[r].id] = None
    BY <1>3, <2>5, AnswerFacts DEF SetSchedule, syncVars, TypeOK
  <2>6. QED
    BY <2>4, <2>5
<1>4. CASE Delete(r)
  <2>1. req[r].id \in Ids
    BY <1>4 DEF Delete, TypeOK
  <2>2. profiles' \in ProfileMap
    BY <1>4, <2>1 DEF Delete, TypeOK, ProfileMap
  <2>3. \A k \in Ids : profiles'[k] # None => profiles[k] # None
    BY <1>4, <2>1 DEF Delete, TypeOK, ProfileMap
  <2>4. CASE profiles[req[r].id] # None
    BY <1>0, <1>4, <2>2, <2>3, <2>4, GotoFacts DEF Delete, syncVars, TypeOK
  <2>5. CASE profiles[req[r].id] = None
    BY <1>4, <2>2, <2>3, <2>5, AnswerFacts DEF Delete, syncVars, TypeOK
  <2>6. QED
    BY <2>4, <2>5
<1>5. QED
  BY <1>1, <1>2, <1>3, <1>4


(* The remaining steps of an actor.                                        *)
LEMMA OtherType ==
    ASSUME TypeOK, NEW a \in Actors,
           \/ CheckRepository(a) \/ Remove(a) \/ WriteLegacy(a)
           \/ SyncRead(a) \/ SyncWrite(a) \/ Abort(a)
    PROVE  /\ req' \in [Actors -> Actor]
           /\ \A b \in Actors : ActorOK(req'[b])
           /\ \A b \in Actors : b # a => req'[b] = req[b]
           /\ req[a].pc # "idle"
           /\ CheckRepository(a) =>
                 \/ req'[a].pc = "update" /\ req'[a].id = req[a].id
                 \/ req'[a].pc = "idle"
           /\ Remove(a) \/ WriteLegacy(a) \/ SyncWrite(a) \/ Abort(a) => req'[a].pc = "idle"
           /\ SyncRead(a) =>
                 req'[a].pc = "publish" /\ req'[a].seen = profiles
<1>1. CASE CheckRepository(a)
  <2>1. CASE req[a].val.repo \in repos
    <3>1. req[a] \in Actor /\ req[a].val \in Profile /\ req[a].id \in Ids
      BY <1>1 DEF CheckRepository, TypeOK
    <3>2. /\ "update" \in Stages
          /\ [req[a] EXCEPT !.pc = "update"] \in Actor
          /\ [req[a] EXCEPT !.pc = "update"].pc = "update"
          /\ [req[a] EXCEPT !.pc = "update"].val = req[a].val
          /\ [req[a] EXCEPT !.pc = "update"].id = req[a].id
      BY <3>1 DEF Actor, Stages
    <3>3. ActorOK([req[a] EXCEPT !.pc = "update"])
      BY <3>1, <3>2 DEF ActorOK
    <3>4. Goto(a, "update") /\ req[a].pc = "merged"
      BY <1>1, <2>1 DEF CheckRepository
    <3>5. /\ req' \in [Actors -> Actor]
          /\ \A b \in Actors : ActorOK(req'[b])
          /\ \A b \in Actors : b # a => req'[b] = req[b]
          /\ req'[a].pc = "update" /\ req'[a].id = req[a].id
      BY <3>2, <3>3, <3>4, GotoFacts
    <3>6. ~Answer(a)
      BY <3>5, AnswerFacts
    <3>7. ~(Remove(a) \/ WriteLegacy(a) \/ SyncRead(a) \/ SyncWrite(a) \/ Abort(a))
      BY <3>4, <3>6 DEF Remove, WriteLegacy, SyncRead, SyncWrite, Abort
    <3>8. QED
      BY <3>4, <3>5, <3>7
  <2>2. CASE req[a].val.repo \notin repos
    <3>1. Answer(a) /\ req[a].pc = "merged" /\ Idle.id = None
      BY <1>1, <2>2 DEF CheckRepository, Idle
    <3>2. QED
      BY <1>1, <3>1, AnswerFacts DEF SyncRead
  <2>3. QED
    BY <2>1, <2>2
<1>2. CASE Remove(a) \/ WriteLegacy(a) \/ SyncWrite(a) \/ Abort(a)
  <2>1. Answer(a) /\ req[a].pc # "idle" /\ Idle.id = None
    BY <1>2 DEF Remove, WriteLegacy, SyncWrite, Abort, Idle
  <2>2. ~SyncRead(a) \/ req'[a].pc = "idle"
    BY <2>1, AnswerFacts
  <2>3. ~SyncRead(a)
    <3>1. SUFFICES ASSUME SyncRead(a) PROVE FALSE
      OBVIOUS
    <3>2. req'[a] = [req[a] EXCEPT !.pc = "publish", !.seen = profiles] /\ req[a] \in Actor
      BY <3>1 DEF SyncRead, TypeOK
    <3>3. req'[a].pc = "publish"
      BY <3>2 DEF Actor
    <3>4. QED
      BY <2>2, <3>1, <3>3
  <2>4. QED
    BY <2>1, <2>3, AnswerFacts
<1>3. CASE SyncRead(a)
  <2>1. req[a] \in Actor /\ req[a].pc = "sync" /\ profiles \in ProfileMap
    BY <1>3 DEF SyncRead, TypeOK
  <2> DEFINE new == [req[a] EXCEPT !.pc = "publish", !.seen = profiles]
  <2>2. req' = [req EXCEPT ![a] = new]
    BY <1>3 DEF SyncRead
  <2>3. new \in Actor /\ new.pc = "publish" /\ new.seen = profiles
    BY <2>1 DEF Actor, Stages
  <2>4. ActorOK(new)
    BY <2>3 DEF ActorOK
  <2> HIDE DEF new
  <2>5. /\ req' \in [Actors -> Actor] /\ req'[a] = new
        /\ \A b \in Actors : b # a => req'[b] = req[b]
    BY <2>2, <2>3 DEF TypeOK
  <2>6. \A b \in Actors : ActorOK(req'[b])
    BY <2>4, <2>5, TypeByActor
  <2>7. ~(CheckRepository(a) \/ Remove(a) \/ WriteLegacy(a) \/ SyncWrite(a))
    BY <2>1 DEF CheckRepository, Remove, WriteLegacy, SyncWrite
  <2>8. ~Abort(a)
    BY <2>3, <2>5, AnswerFacts DEF Abort
  <2>9. QED
    BY <2>1, <2>3, <2>5, <2>6, <2>7, <2>8
<1>4. QED
  BY <1>1, <1>2, <1>3

LEMMA StartCronType ==
    ASSUME TypeOK, StartCron
    PROVE  /\ req' \in [Actors -> Actor]
           /\ \A b \in Actors : ActorOK(req'[b])
           /\ \A b \in Actors : b # Cron => req'[b] = req[b]
           /\ req[Cron].pc = "idle" /\ req'[Cron].pc = "sync"
           /\ restarts' \in 0..MaxRestarts
           /\ UNCHANGED <<storageVars, syncVars>>
<1>1. req[Cron] \in Actor /\ "sync" \in Stages /\ Goto(Cron, "sync")
  BY RequestsAct DEF TypeOK, Stages, StartCron
<1>2. [req[Cron] EXCEPT !.pc = "sync"] \in Actor /\ [req[Cron] EXCEPT !.pc = "sync"].pc = "sync"
  BY <1>1 DEF Actor
<1>3. ActorOK([req[Cron] EXCEPT !.pc = "sync"])
  BY <1>2 DEF ActorOK
<1>4. restarts' \in 0..MaxRestarts
  BY RestartsAssumption DEF StartCron, TypeOK
<1>5. QED
  BY <1>1, <1>3, <1>4, GotoFacts, RequestsAct DEF StartCron

(* The type invariant, initially and across a step.                        *)
LEMMA TypeInit == Init => TypeOK
<1>1. SUFFICES ASSUME Init PROVE TypeOK
  OBVIOUS
<1>2. Entry(Fallback) \in CronFile
  BY IdleOK, CronFiles, TimesAssumption
<1>3. \A a \in Actors : req[a] = Idle
  BY <1>1 DEF Init
<1>4. req \in [Actors -> Actor]
  BY <1>1, IdleOK DEF Init, ActorOK
<1>5. \A a \in Actors : ActorOK(req[a])
  BY <1>3, IdleOK
<1>6. restarts \in 0..MaxRestarts /\ lost \in BOOLEAN /\ cronLock \in Actors \cup {None}
  <2>1. restarts = 0 /\ lost = FALSE /\ cronLock = None
    BY <1>1 DEF Init
  <2>2. 0 \in 0..MaxRestarts
    BY RestartsAssumption
  <2>3. QED
    BY <2>1, <2>2
<1>7. /\ profiles \in ProfileMap /\ repos \in SUBSET Repos /\ Default \in repos
      /\ used \in SUBSET (Ids \cup Repos)
  BY <1>1, IdleOK, ReposAssumption DEF Init
<1>8. cron \in CronFile
  BY <1>1, <1>2 DEF Init
<1>9. QED
  BY <1>4, <1>5, <1>6, <1>7, <1>8, TypeByActor

LEMMA TypeStep == TypeOK /\ [Next]_vars => TypeOK'
<1>1. SUFFICES ASSUME TypeOK, [Next]_vars PROVE TypeOK'
  OBVIOUS
<1> USE RequestsAct
<1>2. ASSUME NEW r \in Requests,
             \/ StartCreate(r) \/ StartUpdate(r) \/ StartSchedule(r) \/ StartDelete(r)
             \/ StartRemove(r) \/ StartLegacy(r)
      PROVE  TypeOK'
  BY <1>1, <1>2, ArrivalType, TypeByActor DEF TypeOK, ActorOK, storageVars, syncVars
<1>3. ASSUME NEW r \in Requests, Create(r) \/ Update(r) \/ SetSchedule(r) \/ Delete(r)
      PROVE  TypeOK'
  BY <1>1, <1>3, StorageType DEF TypeOK, ActorOK
<1>4. ASSUME NEW r \in Requests, AddRepository(r)
      PROVE  TypeOK'
  BY <1>1, <1>4 DEF AddRepository, TypeOK, syncVars
<1>5. ASSUME NEW r \in Requests, CheckRepository(r)
      PROVE  TypeOK'
  BY <1>1, <1>5, OtherType DEF CheckRepository, TypeOK, ActorOK, storageVars, syncVars
<1>6. ASSUME NEW r \in Requests, Remove(r)
      PROVE  TypeOK'
  BY <1>1, <1>6, OtherType DEF Remove, TypeOK, ActorOK, syncVars
<1>7. ASSUME NEW r \in Requests, WriteLegacy(r)
      PROVE  TypeOK'
  <2>1. Entry(req[r].time) \in CronFile
    BY <1>1, <1>7, CronFiles, IdleOK DEF WriteLegacy, TypeOK
  <2>2. QED
    BY <1>1, <1>7, <2>1, OtherType DEF WriteLegacy, TypeOK, ActorOK, storageVars
<1>8. ASSUME NEW a \in Actors, SyncRead(a)
      PROVE  TypeOK'
  BY <1>1, <1>8, OtherType DEF SyncRead, TypeOK, ActorOK, storageVars
<1>9. ASSUME NEW a \in Actors, SyncWrite(a)
      PROVE  TypeOK'
  <2>1. req[a].seen \in ProfileMap
    BY <1>1 DEF TypeOK, Actor
  <2>2. Lines(req[a].seen) \in CronFile
    BY <2>1, CronFiles
  <2>3. QED
    BY <1>1, <1>9, <2>2, OtherType DEF SyncWrite, TypeOK, ActorOK, storageVars
<1>10. ASSUME NEW a \in Actors, Abort(a)
       PROVE  TypeOK'
  BY <1>1, <1>10, OtherType DEF Abort, TypeOK, ActorOK, storageVars
<1>11. CASE StartCron
  BY <1>1, <1>11, StartCronType DEF TypeOK, ActorOK, storageVars, syncVars
<1>12. CASE UNCHANGED vars
  BY <1>1, <1>12 DEF TypeOK, vars
<1>13. QED
  BY <1>1, <1>2, <1>3, <1>4, <1>5, <1>6, <1>7, <1>8, <1>9, <1>10, <1>11, <1>12, StepCases

(* Every variable keeps its type, for any number of threads and profiles;  *)
(* the default repository is never removed.                                *)
THEOREM TypeCorrect == Spec => []TypeOK
  BY TypeInit, TypeStep, PTL DEF Spec


-----------------------------------------------------------------------------
(* The inductive invariant *)

LEMMA InitInv == Init => Inv
<1>1. SUFFICES ASSUME Init PROVE Inv
  OBVIOUS
<1>2. TypeOK
  BY <1>1, TypeInit
<1>3. \A a \in Actors : req[a] = Idle
  BY <1>1 DEF Init
<1>4. LockInv
  BY <1>1, <1>3, IdleOK, ActorsAssumption DEF LockInv, Init, Actors
<1>5. CronInv
  BY <1>1 DEF CronInv, Init, Lines
<1>6. UsedInv
  BY <1>1, <1>3, IdleOK DEF UsedInv, Init, NoProfiles
<1>7. QED
  BY <1>2, <1>4, <1>5, <1>6 DEF Inv

(* The lock of the cron file goes with the stage that publishes.           *)
LEMMA LockStep ==
    ASSUME Inv, [Next]_vars
    PROVE  LockInv'
<1> USE RequestsAct
<1>0. TypeOK /\ LockInv /\ None \notin Actors
  BY ActorsAssumption DEF Inv, Actors
<1>1. ASSUME NEW r \in Requests,
             \/ StartCreate(r) \/ StartUpdate(r) \/ StartSchedule(r) \/ StartDelete(r)
             \/ StartRemove(r) \/ StartLegacy(r)
      PROVE  LockInv'
  BY <1>0, <1>1, ArrivalType DEF LockInv, syncVars
<1>2. ASSUME NEW r \in Requests, Create(r) \/ Update(r) \/ SetSchedule(r) \/ Delete(r)
      PROVE  LockInv'
  BY <1>0, <1>2, StorageType DEF LockInv
<1>3. ASSUME NEW r \in Requests, AddRepository(r)
      PROVE  LockInv'
  BY <1>0, <1>3 DEF LockInv, AddRepository, syncVars
<1>4. ASSUME NEW r \in Requests, CheckRepository(r)
      PROVE  LockInv'
  BY <1>0, <1>4, OtherType DEF LockInv, CheckRepository, syncVars
<1>5. ASSUME NEW r \in Requests, Remove(r)
      PROVE  LockInv'
  BY <1>0, <1>5, OtherType DEF LockInv, Remove, syncVars
<1>6. ASSUME NEW r \in Requests, WriteLegacy(r)
      PROVE  LockInv'
  BY <1>0, <1>6, OtherType DEF LockInv, WriteLegacy
<1>7. ASSUME NEW a \in Actors, SyncRead(a)
      PROVE  LockInv'
  BY <1>0, <1>7, OtherType DEF LockInv, SyncRead
<1>8. ASSUME NEW a \in Actors, SyncWrite(a)
      PROVE  LockInv'
  BY <1>0, <1>8, OtherType DEF LockInv, SyncWrite
<1>9. ASSUME NEW a \in Actors, Abort(a)
      PROVE  LockInv'
  BY <1>0, <1>9, OtherType DEF LockInv, Abort
<1>10. CASE StartCron
  BY <1>0, <1>10, StartCronType DEF LockInv, syncVars
<1>11. CASE UNCHANGED vars
  BY <1>0, <1>11 DEF LockInv, vars
<1>12. QED
  BY <1>1, <1>2, <1>3, <1>4, <1>5, <1>6, <1>7, <1>8, <1>9, <1>10, <1>11, StepCases

(* A step that changes neither the profiles nor the cron file, and starts  *)
(* or ends no rebuild, keeps the relation between the two.                 *)
LEMMA CronFrame ==
    ASSUME TypeOK, LockInv, CronInv, NEW r \in Actors,
           \A b \in Actors : b # r => req'[b] = req[b],
           req[r].pc \notin {"sync", "publish"},
           UNCHANGED <<profiles, cron, cronLock, lost>>
    PROVE  CronInv'
<1>1. Due => Due'
  BY DEF Due
<1>2. cronLock # None => cronLock \in Actors /\ cronLock # r
  BY DEF LockInv, TypeOK
<1>3. QED
  BY <1>1, <1>2 DEF CronInv

(* A change of the profiles makes a rebuild due; a rebuild that begins     *)
(* reads the profiles as they are, and no other publishes meanwhile.       *)
LEMMA CronStep ==
    ASSUME Inv, [Next]_vars
    PROVE  CronInv'
<1> USE RequestsAct
<1>0. TypeOK /\ LockInv /\ CronInv /\ None \notin Actors
  BY ActorsAssumption DEF Inv, Actors
<1>1. ASSUME NEW r \in Requests,
             \/ StartCreate(r) \/ StartUpdate(r) \/ StartSchedule(r) \/ StartDelete(r)
             \/ StartRemove(r) \/ StartLegacy(r)
      PROVE  CronInv'
  BY <1>0, <1>1, ArrivalType, CronFrame DEF storageVars, syncVars
<1>2. ASSUME NEW r \in Requests, Create(r) \/ Update(r) \/ SetSchedule(r) \/ Delete(r)
      PROVE  CronInv'
  <2>1. CASE req'[r].pc = "sync"
    BY <2>1 DEF CronInv, Due
  <2>2. CASE req'[r].pc # "sync"
    BY <1>0, <1>2, <2>2, StorageType, CronFrame
  <2>3. QED
    BY <2>1, <2>2
<1>3. ASSUME NEW r \in Requests, AddRepository(r)
      PROVE  CronInv'
  BY <1>0, <1>3 DEF CronInv, Due, AddRepository, syncVars
<1>4. ASSUME NEW r \in Requests, CheckRepository(r)
      PROVE  CronInv'
  BY <1>0, <1>4, OtherType, CronFrame DEF CheckRepository, storageVars, syncVars
<1>5. ASSUME NEW r \in Requests, Remove(r)
      PROVE  CronInv'
  BY <1>0, <1>5, OtherType, CronFrame DEF Remove, syncVars
<1>6. ASSUME NEW r \in Requests, WriteLegacy(r)
      PROVE  CronInv'
  BY <1>6 DEF WriteLegacy, CronInv
<1>7. ASSUME NEW a \in Actors, SyncRead(a)
      PROVE  CronInv'
  <2>1. cronLock' = a /\ a # None /\ req'[a].seen = profiles'
    BY <1>0, <1>7, OtherType DEF SyncRead, storageVars
  <2>2. QED
    BY <2>1 DEF CronInv
<1>8. ASSUME NEW a \in Actors, SyncWrite(a)
      PROVE  CronInv'
  <2>1. cronLock = a /\ a # None
    BY <1>0, <1>8 DEF LockInv, SyncWrite
  <2>2. CASE lost
    BY <1>8, <2>2 DEF SyncWrite, CronInv
  <2>3. CASE Due
    <3>1. PICK b \in Actors : req[b].pc = "sync"
      BY <2>3 DEF Due
    <3>2. req'[b].pc = "sync"
      BY <1>0, <1>8, <3>1, OtherType DEF SyncWrite
    <3>3. QED
      BY <3>2 DEF CronInv, Due
  <2>4. CASE req[a].seen = profiles
    BY <1>8, <2>4 DEF SyncWrite, CronInv, storageVars, Lines
  <2>5. QED
    BY <1>0, <2>1, <2>2, <2>3, <2>4 DEF CronInv
<1>9. ASSUME NEW a \in Actors, Abort(a)
      PROVE  CronInv'
  <2>1. CASE req[a].pc \in {"sync", "publish"}
    BY <1>9, <2>1 DEF Abort, CronInv
  <2>2. CASE req[a].pc \notin {"sync", "publish"}
    <3>1. cronLock # a
      BY <1>0, <2>2 DEF LockInv
    <3>2. UNCHANGED <<profiles, cron, cronLock, lost>>
      BY <1>0, <1>9, <2>2, <3>1 DEF Abort, storageVars, TypeOK
    <3>3. QED
      BY <1>0, <1>9, <2>2, <3>2, OtherType, CronFrame
  <2>3. QED
    BY <2>1, <2>2
<1>10. CASE StartCron
  BY <1>10, <1>0, StartCronType DEF CronInv, Due
<1>11. CASE UNCHANGED vars
  BY <1>0, <1>11 DEF CronInv, Due, vars, Lines, Entry, NoProfiles
<1>12. QED
  BY <1>1, <1>2, <1>3, <1>4, <1>5, <1>6, <1>7, <1>8, <1>9, <1>10, <1>11, StepCases

(* A request only works on an id that was handed out before.               *)
LEMMA UsedStep ==
    ASSUME Inv, [Next]_vars
    PROVE  UsedInv'
<1> USE RequestsAct
<1> DEFINE NeedsId == {"merged", "update", "schedule", "delete"}
<1>0. TypeOK /\ UsedInv
  BY DEF Inv
<1>1. ASSUME NEW r \in Requests,
             \/ StartCreate(r) \/ StartUpdate(r) \/ StartSchedule(r) \/ StartDelete(r)
             \/ StartRemove(r) \/ StartLegacy(r)
      PROVE  UsedInv'
  BY <1>0, <1>1, ArrivalType DEF UsedInv, storageVars
<1>2. ASSUME NEW r \in Requests, Create(r) \/ Update(r) \/ SetSchedule(r) \/ Delete(r)
      PROVE  UsedInv'
  <2>1. \A b \in Actors : req'[b].pc \in NeedsId => req'[b] = req[b]
    BY <1>0, <1>2, StorageType
  <2>2. \A i \in Ids : profiles'[i] # None => i \in used'
    BY <1>0, <1>2, StorageType DEF UsedInv
  <2>3. used \subseteq used'
    BY <1>0, <1>2, StorageType
  <2>4. QED
    BY <1>0, <2>1, <2>2, <2>3 DEF UsedInv
<1>3. ASSUME NEW r \in Requests, AddRepository(r)
      PROVE  UsedInv'
  BY <1>0, <1>3 DEF UsedInv, AddRepository
<1>4. ASSUME NEW a \in Actors,
             \/ CheckRepository(a) \/ Remove(a) \/ WriteLegacy(a)
             \/ SyncRead(a) \/ SyncWrite(a) \/ Abort(a)
      PROVE  UsedInv'
  <2>1. UNCHANGED <<profiles, used>>
    BY <1>4 DEF CheckRepository, Remove, WriteLegacy, SyncRead, SyncWrite, Abort, storageVars
  <2>2. \A b \in Actors : req'[b].pc \in NeedsId =>
           \/ req'[b] = req[b]
           \/ CheckRepository(b) /\ req'[b].id = req[b].id
    BY <1>0, <1>4, OtherType
  <2>3. \A b \in Actors : CheckRepository(b) => req[b].id \in used
    BY <1>0 DEF UsedInv, CheckRepository
  <2>4. QED
    BY <1>0, <2>1, <2>2, <2>3 DEF UsedInv
<1>5. CASE StartCron
  BY <1>0, <1>5, StartCronType DEF UsedInv, storageVars
<1>6. CASE UNCHANGED vars
  BY <1>0, <1>6 DEF UsedInv, vars
<1>7. QED
  BY <1>1, <1>2, <1>3, <1>4, <1>5, <1>6, StepCases

(* The inductive invariant: the lock of the cron file, the profiles a      *)
(* rebuild has read, and the ids in use agree with the stages.             *)
THEOREM Invariance == Spec => []Inv
<1>1. Inv /\ [Next]_vars => Inv'
  BY TypeStep, LockStep, CronStep, UsedStep DEF Inv
<1>2. QED
  BY <1>1, InitInv, PTL DEF Spec

(* Once every change has run its rebuild, and unless one was lost, the     *)
(* cron file is the one of the stored profiles.                            *)
THEOREM CronReconciled == Spec => []CronCurrent
<1>1. Inv => CronCurrent
  <2>1. SUFFICES ASSUME Inv, \A a \in Actors : req[a].pc \notin {"sync", "publish"}, ~lost
                 PROVE  cron = Lines(profiles)
    BY DEF CronCurrent
  <2>2. cronLock = None
    BY <2>1 DEF Inv, LockInv, TypeOK
  <2>3. QED
    BY <2>1, <2>2 DEF Inv, CronInv, Due
<1>2. QED
  BY <1>1, Invariance, PTL

(* No stale request brings a deleted profile back.                         *)
THEOREM DeletedStaysDeleted == Spec => NoResurrection
<1>1. Inv /\ [Next]_vars =>
         \A i \in Ids : profiles[i] = None /\ profiles'[i] # None => i \notin used
  <2>1. SUFFICES ASSUME Inv, [Next]_vars, NEW i \in Ids,
                        profiles[i] = None, profiles'[i] # None
                 PROVE  i \notin used
    OBVIOUS
  <2>2. ASSUME NEW r \in Requests, Create(r) \/ Update(r) \/ SetSchedule(r) \/ Delete(r)
        PROVE  i \notin used
    BY <2>1, <2>2, StorageType DEF Inv
  <2>3. CASE profiles' = profiles
    BY <2>1, <2>3
  <2>4. ASSUME NEW r \in Requests,
               \/ StartCreate(r) \/ StartUpdate(r) \/ StartSchedule(r) \/ StartDelete(r)
               \/ AddRepository(r) \/ StartRemove(r) \/ StartLegacy(r)
               \/ CheckRepository(r) \/ Remove(r) \/ WriteLegacy(r)
        PROVE  profiles' = profiles
    BY <2>4 DEF StartCreate, StartUpdate, StartSchedule, StartDelete, AddRepository,
                StartRemove, StartLegacy, CheckRepository, Remove, WriteLegacy, storageVars
  <2>5. ASSUME NEW a \in Actors, SyncRead(a) \/ SyncWrite(a) \/ Abort(a)
        PROVE  profiles' = profiles
    BY <2>5 DEF SyncRead, SyncWrite, Abort, storageVars
  <2>6. StartCron \/ UNCHANGED vars => profiles' = profiles
    BY DEF StartCron, vars, storageVars
  <2>7. QED
    BY <2>1, <2>2, <2>3, <2>4, <2>5, <2>6, StepCases
<1>2. Inv /\ [Next]_vars =>
         [\A i \in Ids : profiles[i] = None /\ profiles'[i] # None => i \notin used]_vars
  BY <1>1
<1>3. QED
  BY <1>2, Invariance, PTL DEF Spec, NoResurrection

=============================================================================
