---------------------- MODULE EmbeddingMigrationProofs ----------------------
(***************************************************************************)
(* Theorems about EmbeddingMigration, for every set of units, rows and     *)
(* models and every .env file.                                             *)
(***************************************************************************)
EXTENDS EmbeddingMigration, FiniteSetTheorems, WellFoundedInduction, TLAPS

\* What the phase rules return: a model or none.
LEMMA TargetType ==
    ASSUME NEW st \in UnitStates, NEW view \in Views
    PROVE  Target(st, view) \in OptModels
BY DEF Target, Views, OptModels

\* A phase is always one of the named ones.
LEMMA PhaseType ==
    ASSUME NEW u, NEW st, NEW view, NEW pending \in BOOLEAN
    PROVE  Phase(u, st, view, pending) \in Phases
BY DEF Phase, Phases

\* A unit is ready only when its inactive slot holds the current model.
LEMMA ReadyHolds ==
    ASSUME NEW u, NEW st \in UnitStates, NEW view \in Views, NEW pending \in BOOLEAN,
           Phase(u, st, view, pending) = "ready"
    PROVE  OtherModel(st) # None
BY PhaseAssumption DEF Phase, Views

\* The other slot is a slot, and another one.
LEMMA OtherSlot ==
    ASSUME NEW slot \in Slots
    PROVE  Other(slot) \in Slots /\ Other(slot) # slot /\ Other(Other(slot)) = slot
BY DEF Other, Slots

\* for_unit answers a slot and models of the right kind.
LEMMA ForUnitType ==
    ASSUME NEW st \in UnitStates \cup {None}, NEW view \in Views, NEW built \in SUBSET Models,
           NEW ue \in ForUnit(st, view, built)
    PROVE  ue.slot \in Slots /\ ue.active \in Models /\ ue.second \in OptModels
BY DEF ForUnit, Views, UnitStates, OptModels, Slots

\* Configured blocks name models.
LEMMA IdsType == ASSUME NEW b \in BlockLists PROVE Ids(b) \in SUBSET Models /\ b[1] \in Models
BY DEF BlockLists, Ids

\* The control row turns into a well-formed view.
LEMMA ConfiguredType ==
    ASSUME NEW i \in Intents, NEW blocks \in BlockLists, NEW active \in OptModels,
           NEW v \in ConfiguredFromIntent(i, blocks, active)
    PROVE  v \in Views
BY PhaseAssumption, IdsType DEF ConfiguredFromIntent, Views, Intents, OptModels

\* Every verb writes a change of the right kind.
LEMMA DecideType ==
    ASSUME NEW verb \in Verbs, NEW i \in Intents, NEW blocks \in BlockLists, NEW pub,
           NEW st \in [Units -> UnitStates \cup {None}],
           NEW c \in Decide(verb, i, blocks, st, pub)
    PROVE  /\ c.target \in OptModels /\ c.flip \in BOOLEAN
           /\ c.retire \in OptModels /\ c.verb \in Verbs
<1>0. Ids(blocks) \in SUBSET Models
  BY IdsType
<1>1. CASE verb = "start"
  <2>1. c \in DecideStart(i, blocks, st)
    BY <1>1 DEF Decide
  <2>2. PICK t \in Ids(blocks) : c = Change(t, FALSE, None, "start")
    BY <2>1 DEF DecideStart
  <2>3. QED
    BY <1>0, <2>2 DEF Change, OptModels, Verbs
<1>2. CASE verb = "flip"
  <2>1. c \in DecideFlip(i, blocks, st)
    BY <1>2 DEF Decide
  <2>2. PICK t \in Ids(blocks) : c = Change(t, TRUE, i.retire, "flip")
    BY <2>1 DEF DecideFlip
  <2>3. QED
    BY <1>0, <2>2 DEF Change, OptModels, Verbs, Intents
<1>3. CASE verb = "rollback"
  <2>1. c \in DecideRollback(i, blocks, st)
    BY <1>3 DEF Decide
  <2>2. \/ c = Change(None, FALSE, i.target, "rollback")
        \/ \E m \in Ids(blocks) : c = Change(m, TRUE, None, "rollback")
    <3> DEFINE on == {u \in Seeded(st) : ActiveModel(st[u]) = i.target}
    <3>1. CASE on = {}
      BY <2>1, <3>1 DEF DecideRollback
    <3>2. CASE on # {}
      BY <2>1, <3>2, ZenonT(30) DEF DecideRollback
    <3>3. QED
      BY <3>1, <3>2
  <2>3. CASE c = Change(None, FALSE, i.target, "rollback")
    BY <2>3 DEF Change, OptModels, Verbs, Intents
  <2>4. ASSUME NEW m \in Ids(blocks), c = Change(m, TRUE, None, "rollback")
        PROVE  /\ c.target \in OptModels /\ c.flip \in BOOLEAN
               /\ c.retire \in OptModels /\ c.verb \in Verbs
    BY <1>0, <2>4 DEF Change, OptModels, Verbs
  <2>5. QED
    BY <2>2, <2>3, <2>4
<1>4. CASE verb = "retire"
  <2>1. Held(st, Seeded(st)) \in SUBSET Models
    BY OtherSlot DEF Held, Seeded, OtherModel, UnitStates, OptModels
  <2>2. QED
    BY <2>1, <1>4 DEF Decide, DecideRetire, Change, OptModels, Verbs, Intents
<1>5. QED
  BY <1>1, <1>2, <1>3, <1>4 DEF Verbs

-----------------------------------------------------------------------------
(* Seeding.                                                                *)

\* The least-number principle, for sets.
LEMMA LeastNatural ==
    ASSUME NEW T \in SUBSET Nat, T # {}
    PROVE  \E x \in T : \A y \in T : x <= y
<1>1. PICK x \in T : \A y \in T : ~(<<y, x>> \in OpToRel(<, Nat))
  BY NatLessThanWellFounded, WFMin
<1>2. \A y \in T : ~(y < x)
  BY <1>1 DEF OpToRel
<1>3. QED
  BY <1>2

\* A slot in which a unit holds a vector has a majority model.
LEMMA MajorityExists ==
    ASSUME TypeOK, NEW u \in Units, NEW slot \in Slots
    PROVE  /\ Majority(u, slot) \in OptModels
           /\ (\E r \in RowsOf(u) : vec[r][slot] # None) => Majority(u, slot) # None
<1> DEFINE Of(m) == {r \in RowsOf(u) : vec[r][slot] = m}
           Count(m) == Cardinality(Of(m))
           best == {m \in Models : Count(m) > 0 /\ \A n \in Models : Count(n) <= Count(m)}
           bounds == {n \in Nat : \A m \in Models : Count(m) <= n}
<1>1. IsFiniteSet(Rows)
  BY MigrationAssumption
<1>2. \A m : IsFiniteSet(Of(m)) /\ Count(m) \in Nat /\ Count(m) <= Cardinality(Rows)
  BY <1>1, FS_Subset, FS_CardinalityType DEF RowsOf
<1>3. Cardinality(Rows) \in bounds
  BY <1>1, <1>2, FS_CardinalityType
<1>4. PICK least \in bounds : \A n \in bounds : least <= n
  BY <1>3, LeastNatural
<1>5. ASSUME NEW r \in RowsOf(u), vec[r][slot] # None
      PROVE  best # {}
  <2> DEFINE x == vec[r][slot]
  <2>1. x \in Models /\ r \in Of(x)
    BY <1>5 DEF TypeOK, OptModels, RowsOf
  <2>2. Count(x) # 0
    BY <1>2, <2>1, FS_EmptySet
  <2>3. /\ \A m \in Models : Count(m) \in Nat /\ Count(m) <= least
        /\ least \in Nat
        /\ \A n \in Nat : n < least => \E m \in Models : ~(Count(m) <= n)
    <3>1. \A n \in Nat : n < least => n \notin bounds
      BY <1>4
    <3>2. QED
      BY <1>2, <1>4, <3>1
  <2> HIDE DEF Count, x
  <2>4. least - 1 \in Nat /\ least - 1 < least
    BY <2>1, <2>2, <2>3
  <2>5. PICK m \in Models : ~(Count(m) <= least - 1)
    BY <2>3, <2>4
  <2>6. Count(m) = least
    BY <2>3, <2>4, <2>5
  <2>7. m \in best
    BY <2>3, <2>4, <2>6
  <2>8. QED
    BY <2>7
<1>6. Majority(u, slot) = IF best = {} THEN None ELSE CHOOSE m \in best : TRUE
  BY DEF Majority
<1>7. best # {} => (CHOOSE m \in best : TRUE) \in Models
  OBVIOUS
<1>8. QED
  BY <1>5, <1>6, <1>7, PhaseAssumption DEF OptModels

\* A unit that holds a vector is seeded with a lawful state row.
LEMMA SeedPlanLawful ==
    ASSUME TypeOK, NEW u \in Units, HoldsVectors(u)
    PROVE  SeedPlan(u) \in UnitStates /\ Lawful(SeedPlan(u))
<1> DEFINE a == Majority(u, "a")
           b == Majority(u, "b")
<1>1. a \in OptModels /\ b \in OptModels
  BY MajorityExists DEF Slots
<1>2. PICK r \in RowsOf(u) : vec[r] # NoVectors
  BY DEF HoldsVectors
<1>3. vec[r]["a"] # None \/ vec[r]["b"] # None
  BY <1>2 DEF TypeOK, RowsOf, NoVectors, Slots
<1>4. a # None \/ b # None
  BY <1>2, <1>3, MajorityExists DEF Slots
<1> HIDE DEF a, b
<1>5. SeedPlan(u) = [slot   |-> IF a # None THEN "a" ELSE "b",
                     model  |-> [s \in Slots |-> IF s = "a" THEN a
                                                 ELSE IF b = a THEN None ELSE b],
                     window |-> "never"]
  BY DEF SeedPlan, a, b
<1>6. QED
  BY <1>1, <1>4, <1>5 DEF UnitStates, Lawful, ActiveModel, OtherModel, Other, Slots, OptModels

\* Seeding keeps every state row there is and adds only lawful ones.
LEMMA SeedUnitsLawful ==
    ASSUME TypeOK, StatesLawful, NEW units
    PROVE  /\ SeedUnits(units) \in [Units -> UnitStates \cup {None}]
           /\ \A u \in Units : state[u] # None => SeedUnits(units)[u] = state[u]
           /\ \A u \in Units : SeedUnits(units)[u] # None => Lawful(SeedUnits(units)[u])
<1>1. \A u \in Units : HoldsVectors(u) => SeedPlan(u) \in UnitStates /\ Lawful(SeedPlan(u))
  BY SeedPlanLawful
<1>2. state \in [Units -> UnitStates \cup {None}] /\ \A u \in Units : state[u] # None => Lawful(state[u])
  BY DEF TypeOK, StatesLawful, Seeded
<1>3. QED
  BY <1>1, <1>2 DEF SeedUnits

-----------------------------------------------------------------------------
(* The inductive invariant.  One lemma per action, or per few actions that *)
(* disturb the same conjuncts.                                             *)

\* Steps that leave the state rows, the caches and the pass alone keep every
\* conjunct but the types.
LEMMA Undisturbed ==
    ASSUME IndInv, TypeOK', UNCHANGED <<state, server, pass>>
    PROVE  IndInv'
BY DEF IndInv, PassShape, SeenIsCurrent, ReadyIsNamed, CacheIsCurrent, StatesLawful,
       StaleCacheSafe, Seeded, Lawful, ActiveModel, OtherModel, server

\* Live writes and forgets keep the invariant.
LEMMA WriterStep ==
    ASSUME IndInv, Writer
    PROVE  IndInv'
<1>1. ASSUME NEW r \in Rows, NEW k \in RowKinds, StartWrite(r, k)
      PROVE  TypeOK'
  <2>1. PICK ue \in ForUnit(cache[UnitOf[r]], configured, Ids(env.blocks)) :
        \E second \in {ue.second, None} :
            inflight' = [inflight EXCEPT ![r] =
                  [slot |-> ue.slot, active |-> ue.active, second |-> second, kind |-> k]]
    BY <1>1 DEF StartWrite
  <2>2. ue.slot \in Slots /\ ue.active \in Models /\ ue.second \in OptModels
    <3>1. UnitOf[r] \in Units /\ Ids(env.blocks) \in SUBSET Models /\ configured \in Views
      BY <1>1, IdsType, MigrationAssumption DEF StartWrite, IndInv, TypeOK, PassShape, Envs
    <3>2. cache[UnitOf[r]] \in UnitStates \cup {None}
      BY <3>1 DEF IndInv, TypeOK
    <3>3. QED
      BY <2>1, <3>1, <3>2, ForUnitType
  <2>3. QED
    BY <1>1, <2>1, <2>2, MigrationAssumption
    DEF StartWrite, IndInv, TypeOK, Writes, store, control, server, book, OptModels
<1>2. ASSUME NEW r \in Rows, CommitWrite(r)
      PROVE  TypeOK'
  BY <1>2 DEF CommitWrite, SlotBinds, IndInv, TypeOK, Writes, control, server, book, OptModels
<1>3. ASSUME NEW r \in Rows, Forget(r)
      PROVE  TypeOK'
  BY <1>3 DEF Forget, NoVectors, IndInv, TypeOK, control, server, book, OptModels
<1>4. QED
  BY <1>1, <1>2, <1>3, Undisturbed
  DEF Writer, StartWrite, CommitWrite, Forget, store

\* The views a boot or a pass may run on.
LEMMA ViewsFromType ==
    ASSUME IndInv, NEW e \in Envs, NEW st \in [Units -> UnitStates \cup {None}],
           \A u \in Units : st[u] # None => Lawful(st[u]),
           NEW v \in ViewsFrom(e, st)
    PROVE  v \in Views
<1>1. e.blocks \in BlockLists /\ intent \in Intents
  BY DEF Envs, IndInv, TypeOK
<1>2. CASE Mode = "env"
  BY <1>1, <1>2, IdsType DEF ViewsFrom, EnvView, Views, Envs, OptModels, BlockLists
<1>3. CASE Mode # "env"
  <2> DEFINE active == IF st[DefaultUnit] = None THEN None ELSE ActiveModel(st[DefaultUnit])
  <2>1. active \in OptModels
    BY PhaseAssumption DEF ActiveModel, UnitStates, OptModels
  <2>2. v \in ConfiguredFromIntent(intent, e.blocks, active)
    BY <1>3 DEF ViewsFrom
  <2> HIDE DEF active
  <2>3. QED
    BY <1>1, <2>1, <2>2, ConfiguredType
<1>4. QED
  BY <1>2, <1>3

\* A boot, accepted or refused, keeps the invariant.
LEMMA BootStep ==
    ASSUME IndInv, NEW e \in Configs, Boot(e) \/ RefuseBoot(e)
    PROVE  IndInv'
<1> DEFINE seeded == SeedUnits(Units)
<1>1. /\ seeded \in [Units -> UnitStates \cup {None}]
      /\ \A u \in Units : state[u] # None => seeded[u] = state[u]
      /\ \A u \in Units : seeded[u] # None => Lawful(seeded[u])
  BY SeedUnitsLawful DEF IndInv
<1>2. e \in Envs
  BY MigrationAssumption
<1>3. env = None /\ pass.pc = "idle" /\ state' = seeded
  BY DEF Boot, RefuseBoot, IndInv, PassShape
<1>4. CASE Boot(e)
  <2>1. configured' \in Views
    BY <1>1, <1>2, <1>4, ViewsFromType DEF Boot
  <2>2. TypeOK'
    BY <1>1, <1>2, <1>3, <1>4, <2>1 DEF Boot, IndInv, TypeOK, control, book
  <2>3. QED
    BY <1>1, <1>3, <1>4, <2>1, <2>2
    DEF Boot, IndInv, PassShape, SeenIsCurrent, ReadyIsNamed, CacheIsCurrent, StatesLawful,
        StaleCacheSafe, Seeded, ActiveModel
<1>5. CASE RefuseBoot(e)
  <2>1. TypeOK'
    BY <1>1, <1>2, <1>3, <1>5 DEF RefuseBoot, IndInv, TypeOK, control, book, server
  <2>2. QED
    BY <1>1, <1>3, <1>5, <2>1
    DEF RefuseBoot, IndInv, PassShape, SeenIsCurrent, ReadyIsNamed, CacheIsCurrent, StatesLawful,
        StaleCacheSafe, Seeded, server
<1>6. QED
  BY <1>4, <1>5

\* A crash keeps the invariant: what it forgets was memory only.
LEMMA CrashStep == ASSUME IndInv, Crash PROVE IndInv'
<1>1. TypeOK'
  BY MigrationAssumption DEF Crash, Fault, Idle, Passes, PCs, IndInv, TypeOK, store, control
<1>2. pass'.pc = "idle"
  BY DEF Crash, Idle
<1>3. QED
  BY <1>1, <1>2 DEF Crash, IndInv, PassShape, SeenIsCurrent, ReadyIsNamed, CacheIsCurrent,
     StatesLawful, StaleCacheSafe, Seeded, store, Lawful

\* The end of a rollback window keeps the invariant.
LEMMA CloseWindowStep == ASSUME IndInv, NEW u \in Units, CloseWindow(u) PROVE IndInv'
<1>1. /\ state[u] \in UnitStates
      /\ state' = [state EXCEPT ![u] = [state[u] EXCEPT !.window = "closed"]]
  BY DEF CloseWindow, IndInv, TypeOK
<1>2. /\ \A v \in Units : (state'[v] # None <=> state[v] # None)
      /\ \A v \in Units : state[v] # None =>
            state'[v].slot = state[v].slot /\ state'[v].model = state[v].model
      /\ state' \in [Units -> UnitStates \cup {None}]
  <2> DEFINE closed == [state[u] EXCEPT !.window = "closed"]
  <2>1. closed \in UnitStates /\ closed.slot = state[u].slot /\ closed.model = state[u].model
    BY <1>1 DEF UnitStates
  <2>2. closed # None /\ state[u] # None
    BY <1>1, <2>1, PhaseAssumption DEF UnitStates, CloseWindow
  <2>3. state \in [Units -> UnitStates \cup {None}] /\ state' = [state EXCEPT ![u] = closed]
    BY <1>1 DEF IndInv, TypeOK
  <2> HIDE DEF closed
  <2>4. QED
    BY <2>1, <2>2, <2>3
<1>3. TypeOK'
  BY <1>2 DEF CloseWindow, IndInv, TypeOK, control, book, server
<1>4. QED
  BY <1>2, <1>3 DEF CloseWindow, IndInv, TypeOK, PassShape, SeenIsCurrent, ReadyIsNamed,
     CacheIsCurrent, StatesLawful, StaleCacheSafe, Seeded, Lawful, ActiveModel, OtherModel,
     server

\* The command keeps the invariant: it writes the control row only.
LEMMA CommandStep ==
    ASSUME IndInv, \/ \E verb \in Verbs, e \in Typed : ReadStatus(verb, e)
                   \/ ChangeIntent \/ RefuseCommand
    PROVE  IndInv'
<1>0. SUFFICES TypeOK'
  BY Undisturbed DEF ReadStatus, ChangeIntent, RefuseCommand, store
<1>1. ASSUME NEW verb \in Verbs, NEW e \in Typed, ReadStatus(verb, e)
      PROVE  TypeOK'
  BY <1>1, MigrationAssumption
  DEF ReadStatus, IndInv, TypeOK, Commands, Envs, store, server, book
<1>2. CASE ChangeIntent
  <2>1. PICK c \in Decide(cmd.verb, intent, cmd.blocks, state, cmd.published) :
          intent' = [gen |-> intent.gen + 1, target |-> c.target, flip |-> c.flip,
                     retire |-> c.retire, verb |-> c.verb]
    BY <1>2 DEF ChangeIntent
  <2>2. cmd \in Commands /\ intent \in Intents
    BY <1>2 DEF ChangeIntent, IndInv, TypeOK
  <2>3. intent' \in Intents
    <3>1. /\ c.target \in OptModels /\ c.flip \in BOOLEAN
          /\ c.retire \in OptModels /\ c.verb \in Verbs
      BY <2>2, DecideType DEF Commands, IndInv, TypeOK
    <3>2. QED
      BY <2>1, <2>2, <3>1 DEF Intents
  <2>4. QED
    BY <1>2, <2>3 DEF ChangeIntent, IndInv, TypeOK, store, server, book
<1>3. CASE RefuseCommand
  BY <1>3 DEF RefuseCommand, IndInv, TypeOK, store, server, book
<1>4. QED
  BY <1>1, <1>2, <1>3

\* The pass between two passes.
LEMMA IdleType == Idle \in Passes /\ Idle.pc = "idle"
BY DEF Idle, Passes, PCs

\* A pass may end at any statement.
LEMMA PassEnds ==
    ASSUME IndInv, pass' = Idle, TypeOK', UNCHANGED <<state, server>>
    PROVE  IndInv'
BY IdleType DEF IndInv, PassShape, SeenIsCurrent, ReadyIsNamed, CacheIsCurrent, StatesLawful,
   StaleCacheSafe, Seeded, Lawful, ActiveModel, OtherModel, server

\* Every way a pass ends keeps the invariant.
LEMMA EndStep ==
    ASSUME IndInv, BeginPassWithoutView \/ EndPass \/ StopAtGate \/ StopPass
    PROVE  IndInv'
<1>1. /\ pass' = Idle
      /\ published' \in {published, status}
      /\ faults' \in 0 .. MaxFaults
      /\ UNCHANGED <<store, intent, cmd, server, inflight, book>>
  BY MigrationAssumption
  DEF BeginPassWithoutView, EndPass, StopAtGate, StopPass, Finish, Fault, IndInv, TypeOK
<1>2. TypeOK'
  BY <1>1, IdleType DEF IndInv, TypeOK, store, server, book
<1>3. QED
  BY <1>1, <1>2, PassEnds DEF store

\* A pass begins on a well-formed view.
LEMMA BeginPassStep == ASSUME IndInv, BeginPass PROVE IndInv'
<1>1. PICK v \in ViewsFrom(env, state) :
          configured' = v /\ pass' = [Idle EXCEPT !.pc = "list", !.view = v]
  BY DEF BeginPass
<1>2. env \in Envs /\ v \in Views
  BY ViewsFromType DEF BeginPass, IndInv, TypeOK, StatesLawful, Seeded
<1>3. pass' \in Passes /\ pass'.pc = "list" /\ pass'.view = v
  BY <1>1, <1>2, IdleType DEF Passes, PCs
<1>4. TypeOK'
  BY <1>1, <1>2, <1>3 DEF BeginPass, IndInv, TypeOK, store, control, book
<1>5. QED
  BY <1>1, <1>2, <1>3, <1>4
  DEF BeginPass, IndInv, PassShape, SeenIsCurrent, ReadyIsNamed, CacheIsCurrent, StatesLawful,
      StaleCacheSafe, Seeded, Lawful, ActiveModel, OtherModel, store

\* Listing seeds and reloads: afterwards the cache is current.
LEMMA ListUnitsStep == ASSUME IndInv, ListUnits PROVE IndInv'
<1> DEFINE walk == {DefaultUnit} \cup Seeded(state)
           seeded == SeedUnits(walk)
<1>1. /\ seeded \in [Units -> UnitStates \cup {None}]
      /\ \A u \in Units : state[u] # None => seeded[u] = state[u]
      /\ \A u \in Units : seeded[u] # None => Lawful(seeded[u])
  BY SeedUnitsLawful DEF IndInv
<1>2. /\ state' = seeded /\ cache' = seeded
      /\ pass' = [pass EXCEPT !.pc = "walk", !.todo = walk]
  BY DEF ListUnits
<1> HIDE DEF seeded
<1>3. walk \in SUBSET Units
  BY PhaseAssumption DEF Seeded
<1> HIDE DEF walk
<1>4. pass' \in Passes /\ pass'.pc = "walk" /\ pass'.view = pass.view
  BY <1>2, <1>3 DEF IndInv, TypeOK, Passes, PCs
<1>5. TypeOK'
  BY <1>1, <1>2, <1>4 DEF ListUnits, IndInv, TypeOK, control, book
<1>6. QED
  BY <1>1, <1>2, <1>4, <1>5
  DEF ListUnits, IndInv, PassShape, SeenIsCurrent, ReadyIsNamed, CacheIsCurrent, StatesLawful,
      StaleCacheSafe, Seeded, ActiveModel

\* A unit without a state row is skipped.
LEMMA SkipUnitStep == ASSUME IndInv, NEW u \in Units, SkipUnit(u) PROVE IndInv'
<1>1. pass' \in Passes /\ pass'.pc = "walk" /\ pass'.view = pass.view
  <2>1. pass \in Passes
    BY DEF IndInv, TypeOK
  <2> QED BY <2>1 DEF SkipUnit, Passes, PCs
<1>2. TypeOK'
  BY <1>1 DEF SkipUnit, IndInv, TypeOK, store, server, control, book
<1>3. QED
  BY <1>1, <1>2
  DEF SkipUnit, IndInv, PassShape, SeenIsCurrent, ReadyIsNamed, CacheIsCurrent, StatesLawful,
      StaleCacheSafe, Seeded, Lawful, ActiveModel, OtherModel, store, server

\* Naming an empty inactive slot keeps the row lawful and the active slot.
LEMMA NamedLawful ==
    ASSUME NEW st \in UnitStates, Lawful(st), NEW slot \in Slots, NEW model \in Models
    PROVE  /\ Named(st, slot, model) \in UnitStates
           /\ Lawful(Named(st, slot, model))
           /\ Named(st, slot, model).slot = st.slot
           /\ Named(st, slot, model).model[st.slot] = st.model[st.slot]
<1>1. CASE Named(st, slot, model) = st
  BY <1>1
<1>2. CASE Named(st, slot, model) # st
  <2>1. /\ st.slot # slot /\ st.model[slot] = None /\ st.model[Other(slot)] # model
        /\ Named(st, slot, model) = [st EXCEPT !.model[slot] = model]
    BY <1>2 DEF Named
  <2>2. st.slot = Other(slot) /\ slot = Other(st.slot)
    BY <2>1 DEF UnitStates, Slots, Other
  <2>3. QED
    BY <2>1, <2>2, PhaseAssumption
    DEF UnitStates, Lawful, ActiveModel, OtherModel, OptModels
<1>3. QED
  BY <1>1, <1>2

\* The walk of a unit names its inactive slot and reads its state.
LEMMA WalkUnitStep == ASSUME IndInv, NEW u \in Units, WalkUnit(u) PROVE IndInv'
<1> DEFINE goal  == Target(state[u], pass.view)
           named == Named(state[u], Other(state[u].slot), goal)
           name  == goal # None /\ OtherModel(state[u]) = None
<1>1. /\ state[u] # None /\ pass.pc = "walk"
      /\ state' = IF name THEN [state EXCEPT ![u] = named] ELSE state
      /\ pass' = [pass EXCEPT !.at = u, !.seen = state[u],
                        !.pc = IF name /\ named # state[u] THEN "named" ELSE "count"]
  BY DEF WalkUnit
<1>2. state[u] \in UnitStates /\ Lawful(state[u]) /\ pass.view \in Views
  BY <1>1 DEF IndInv, TypeOK, StatesLawful, Seeded, PassShape
<1>3. goal \in OptModels
  BY <1>2, TargetType
<1>4. name => /\ named \in UnitStates
              /\ Lawful(named)
              /\ named.slot = state[u].slot
              /\ named.model[state[u].slot] = state[u].model[state[u].slot]
  BY <1>2, <1>3, NamedLawful, OtherSlot DEF OptModels, UnitStates
<1>5. name \in BOOLEAN
  OBVIOUS
<1> HIDE DEF goal, named, name
<1>6. /\ pass' \in Passes
      /\ pass'.pc = IF name /\ named # state[u] THEN "named" ELSE "count"
      /\ pass'.at = u /\ pass'.seen = state[u] /\ pass'.view = pass.view
  BY <1>1, <1>2 DEF IndInv, TypeOK, Passes, PCs
<1>7. /\ state' \in [Units -> UnitStates \cup {None}]
      /\ \A v \in Units : /\ state'[v] # None <=> state[v] # None
                          /\ state'[v] # None => Lawful(state'[v])
                          /\ state[v] # None =>
                               /\ state'[v].slot = state[v].slot
                               /\ state'[v].model[state[v].slot] = ActiveModel(state[v])
      /\ ~(name /\ named # state[u]) => state' = state
  BY <1>1, <1>2, <1>4, <1>5, PhaseAssumption
  DEF IndInv, TypeOK, StatesLawful, Seeded, ActiveModel
<1>8. TypeOK'
  BY <1>6, <1>7 DEF WalkUnit, IndInv, TypeOK, control, book, server
<1>9. SeenIsCurrent' /\ ReadyIsNamed' /\ PassShape' /\ StatesLawful'
  BY <1>1, <1>2, <1>6, <1>7
  DEF WalkUnit, IndInv, PassShape, SeenIsCurrent, ReadyIsNamed, StatesLawful, Seeded, server
<1>10. CacheIsCurrent' /\ StaleCacheSafe'
  BY <1>1, <1>6, <1>7
  DEF WalkUnit, IndInv, TypeOK, CacheIsCurrent, StaleCacheSafe, Seeded, ActiveModel, server
<1>11. QED
  BY <1>8, <1>9, <1>10 DEF IndInv

\* The statements between the reload of a unit and its report.
WalkPCs == {"count", "fill", "send", "flip", "flipping", "retire", "delete", "clear", "report"}

\* A step inside the walk of a unit that changes no state row and no cache.
LEMMA WalkGoesOn ==
    ASSUME IndInv, TypeOK', UNCHANGED <<state, server>>,
           pass.pc \in WalkPCs, pass'.pc \in WalkPCs,
           pass'.view = pass.view, pass'.at = pass.at, pass'.seen = pass.seen,
           pass'.pc = "send" => pass'.jobs # <<>>,
           pass'.pc \in {"fill", "send"} /\ pass'.beneath = "ready" => OtherModel(pass.seen) # None,
           pass'.pc \in {"flip", "flipping"} => OtherModel(pass.seen) # None
    PROVE  IndInv'
<1>1. PassShape' /\ SeenIsCurrent' /\ ReadyIsNamed'
  BY DEF WalkPCs, IndInv, PassShape, SeenIsCurrent, ReadyIsNamed, server, OtherModel
<1>2. CacheIsCurrent' /\ StatesLawful' /\ StaleCacheSafe'
  BY DEF WalkPCs, IndInv, CacheIsCurrent, StatesLawful, StaleCacheSafe, Seeded, server,
     Lawful, ActiveModel, OtherModel
<1>3. QED
  BY <1>1, <1>2 DEF IndInv

\* A reload after a flip or a clear makes the cache current again.
LEMMA ReloadStep == ASSUME IndInv, Reload PROVE IndInv'
<1> DEFINE u == pass.at
<1>1. /\ pass.pc \in {"named", "changed"} /\ u \in Units
      /\ state[u] \in UnitStates /\ state[u] # None /\ Lawful(state[u])
  BY DEF Reload, IndInv, PassShape, TypeOK, StatesLawful, Seeded
<1>2. /\ cache' = [cache EXCEPT ![u] = state[u]]
      /\ UNCHANGED <<state, env, configured>>
  BY DEF Reload, store
<1>3. /\ pass' \in Passes /\ pass'.pc \in {"count", "report"}
      /\ pass'.at = u /\ pass'.seen = state[u] /\ pass'.view = pass.view
  BY <1>1 DEF Reload, IndInv, TypeOK, Passes, PCs
<1> HIDE DEF u
<1>4. TypeOK'
  BY <1>1, <1>2, <1>3 DEF Reload, IndInv, TypeOK, store, control, book
<1>5. PassShape' /\ SeenIsCurrent' /\ ReadyIsNamed' /\ StatesLawful'
  BY <1>1, <1>2, <1>3 DEF IndInv, PassShape, SeenIsCurrent, ReadyIsNamed, StatesLawful, Seeded,
     Lawful, ActiveModel, OtherModel
<1>6. CacheIsCurrent' /\ StaleCacheSafe'
  <2>1. \A v \in Units \ {u} : cache'[v] = cache[v]
    BY <1>2 DEF IndInv, TypeOK
  <2>2. cache'[u] = state[u]
    BY <1>1, <1>2 DEF IndInv, TypeOK
  <2>3. QED
    BY <1>1, <1>2, <1>3, <2>1, <2>2
    DEF IndInv, CacheIsCurrent, StaleCacheSafe, Seeded, ActiveModel, u
<1>7. QED
  BY <1>4, <1>5, <1>6 DEF IndInv

\* Forgetting refusals keeps the counts in range.
LEMMA ForgetType ==
    ASSUME IndInv, NEW u, NEW slots, NEW kept
    PROVE  ForgetUnseen(u, slots, kept) \in [Rows -> [Slots -> 0 .. FailLimit]]
BY MigrationAssumption DEF ForgetUnseen, IndInv, TypeOK

\* The count plans fills of slots and models that exist.
LEMMA CountUnitStep == ASSUME IndInv, CountUnit PROVE IndInv'
<1> DEFINE u        == pass.at
           st       == pass.seen
           goal     == Target(st, pass.view)
           pending  == OtherPending(u, st, goal)
           beneath  == Phase(u, st, pass.view, pending)
           holes    == beneath = "steady"
           missing  == \/ Holes(u, st.slot) # {}
                       \/ ~holes /\ ForeignRows(u, st) # {}
           cleared  == (IF pending THEN {} ELSE {Other(st.slot)})
                         \cup (IF missing THEN {} ELSE {st.slot})
           kept     == ForgetUnseen(u, cleared, {})
           blocked  == \/ u \in kekSkipped
                       \/ \E r \in RowsOf(u), s \in Slots : kept[r][s] >= FailLimit
           active   == [slot |-> st.slot, model |-> ActiveModel(st), holes |-> holes]
           other    == [slot |-> Other(st.slot), model |-> goal, holes |-> FALSE]
           fillA    == missing /\ beneath \in {"steady", "flipped", "retiring"}
           fillB    == /\ pending
                       /\ \/ beneath \in {"filling", "held", "flipped", "guessed"}
                          \/ beneath = "ready" /\ blocked
           jobs     == (IF fillA THEN <<active>> ELSE <<>>)
                         \o (IF fillB THEN <<other>> ELSE <<>>)
<1>1. /\ pass.pc = "count" /\ failures' = kept
      /\ pass' = [pass EXCEPT !.pc = "fill", !.beneath = beneath,
                        !.blocked = blocked, !.done = TRUE, !.skipped = FALSE,
                        !.read = {}, !.jobs = jobs]
      /\ UNCHANGED <<store, control, server, inflight, kekSkipped, status, faults>>
  BY DEF CountUnit
<1>2. st \in UnitStates /\ Lawful(st) /\ pass.view \in Views /\ u \in Units
  <2>1. st \in UnitStates /\ pass.view \in Views /\ u \in Units /\ state[u] # None
    BY <1>1 DEF IndInv, PassShape
  <2>2. Lawful(state[u]) /\ state[u].slot = st.slot /\ state[u].model = st.model
    BY <1>1, <2>1 DEF IndInv, SeenIsCurrent, StatesLawful, Seeded
  <2>3. QED
    BY <2>1, <2>2 DEF Lawful, ActiveModel, OtherModel
<1>3. goal \in OptModels /\ pending \in BOOLEAN /\ (pending => goal \in Models)
  BY <1>2, TargetType DEF OtherPending, OptModels
<1>4. beneath \in Phases /\ (beneath = "ready" => OtherModel(st) # None)
  BY <1>2, <1>3, PhaseType, ReadyHolds
<1>5. kept \in [Rows -> [Slots -> 0 .. FailLimit]]
  BY ForgetType
<1>6. blocked \in BOOLEAN /\ holes \in BOOLEAN /\ fillA \in BOOLEAN /\ fillB \in BOOLEAN
      /\ (fillB => pending)
  OBVIOUS
<1>7. jobs \in Seq(Jobs)
  <2>1. active \in Jobs
    BY <1>2 DEF Jobs, ActiveModel, Lawful, UnitStates, OptModels
  <2>2. fillB => other \in Jobs
    BY <1>2, <1>3, <1>6, OtherSlot DEF Jobs, UnitStates
  <2> HIDE DEF active, other, fillA, fillB
  <2>3. QED
    BY <1>6, <2>1, <2>2
<1> HIDE DEF beneath, blocked, jobs, kept
<1>8. /\ pass' \in Passes /\ pass'.pc = "fill" /\ pass'.beneath = beneath
      /\ pass'.view = pass.view /\ pass'.at = pass.at /\ pass'.seen = pass.seen
  <2>1. pass \in Passes
    BY DEF IndInv, TypeOK
  <2>2. beneath \in Phases /\ blocked \in BOOLEAN /\ jobs \in Seq(Jobs)
    BY <1>4, <1>6, <1>7
  <2>3. pass' = [pass EXCEPT !.pc = "fill", !.beneath = beneath,
                        !.blocked = blocked, !.done = TRUE, !.skipped = FALSE,
                        !.read = {}, !.jobs = jobs]
    BY <1>1
  <2> HIDE DEF u, st, goal, pending, holes, missing, cleared, active, other, fillA, fillB
  <2>4. "fill" \in PCs
    BY DEF PCs
  <2>5. pass' \in Passes
    BY <2>1, <2>2, <2>3, <2>4 DEF Passes
  <2>6. /\ pass'.pc = "fill" /\ pass'.beneath = beneath
        /\ pass'.view = pass.view /\ pass'.at = pass.at /\ pass'.seen = pass.seen
    BY <2>1, <2>3 DEF Passes
  <2> QED BY <2>5, <2>6
<1>9. TypeOK'
  BY <1>1, <1>5, <1>8 DEF IndInv, TypeOK, store, control, server
<1>10. QED
  BY <1>1, <1>4, <1>8, <1>9, WalkGoesOn DEF WalkPCs, store

\* The fill at hand ends.
LEMMA EndFillType ==
    ASSUME IndInv, pass.jobs # <<>>, NEW done \in BOOLEAN
    PROVE  /\ EndFill(pass, done) \in Passes
           /\ EndFill(pass, done).pc = "fill"
           /\ EndFill(pass, done).beneath = pass.beneath
           /\ EndFill(pass, done).view = pass.view
           /\ EndFill(pass, done).at = pass.at
           /\ EndFill(pass, done).seen = pass.seen
<1>1. pass \in Passes /\ Tail(pass.jobs) \in Seq(Jobs)
  BY DEF IndInv, TypeOK, Passes
<1>2. EndFill(pass, done) \in Passes
  <2> DEFINE p == [pass EXCEPT !.pc = "fill", !.jobs = Tail(@), !.read = {}]
  <2>1. p \in Passes
    BY <1>1 DEF Passes, PCs
  <2>2. EndFill(pass, done) = [p EXCEPT !.page = {}, !.tally = "none", !.done = @ /\ done]
    BY DEF EndFill
  <2> HIDE DEF p
  <2>3. QED
    BY <2>1, <2>2 DEF Passes
<1>3. QED
  BY <1>1, <1>2 DEF EndFill, Passes

\* A page is read.
LEMMA TakePageType ==
    ASSUME IndInv, NEW rows \in SUBSET Rows, NEW open \in SUBSET Rows, NEW skipped \in BOOLEAN
    PROVE  /\ TakePage(rows, open, skipped) \in Passes
           /\ TakePage(rows, open, skipped).pc = "send"
           /\ TakePage(rows, open, skipped).beneath = pass.beneath
           /\ TakePage(rows, open, skipped).view = pass.view
           /\ TakePage(rows, open, skipped).at = pass.at
           /\ TakePage(rows, open, skipped).seen = pass.seen
           /\ TakePage(rows, open, skipped).jobs = pass.jobs
<1>1. pass \in Passes
  BY DEF IndInv, TypeOK
<1>2. TakePage(rows, open, skipped) \in Passes
  <2> DEFINE p == [pass EXCEPT !.pc = "send", !.page = open, !.tally = "none"]
  <2>1. p \in Passes
    BY <1>1 DEF Passes, PCs
  <2>2. TakePage(rows, open, skipped) =
          [p EXCEPT !.read = @ \cup rows, !.skipped = @ \/ skipped]
    BY DEF TakePage
  <2> HIDE DEF p
  <2>3. QED
    BY <2>1, <2>2 DEF Passes
<1>3. QED
  BY <1>1, <1>2 DEF TakePage, Passes

\* A page is made of rows.
LEMMA NextPageType ==
    /\ NextPage \in SUBSET Rows
    /\ \A rows \in SUBSET Rows : PlainRows(rows) \in SUBSET Rows
BY DEF NextPage, Lowest, Holes, PendingRows, RowsOf, PlainRows

\* A fill that goes on stays with its unit and what the count made of it.
FillGoesOn ==
    /\ pass.pc \in {"fill", "send"} /\ pass'.pc \in {"fill", "send"}
    /\ pass' \in Passes /\ pass'.beneath = pass.beneath
    /\ pass'.view = pass.view /\ pass'.at = pass.at /\ pass'.seen = pass.seen
    /\ pass'.pc = "send" => pass'.jobs # <<>>

\* Reading a page is such a step.
LEMMA ReadPageMove ==
    ASSUME IndInv, ReadPage \/ LoseKey
    PROVE  /\ FillGoesOn
           /\ UNCHANGED <<store, control, server, inflight, kekSkipped, status>>
           /\ faults' \in 0 .. MaxFaults
           /\ failures' \in [Rows -> [Slots -> 0 .. FailLimit]]
<1>0. /\ pass.pc = "fill" /\ pass.jobs # <<>>
      /\ UNCHANGED <<store, control, server, inflight, kekSkipped, status>>
      /\ faults' \in 0 .. MaxFaults
      /\ failures' \in [Rows -> [Slots -> 0 .. FailLimit]]
  <2>1. CASE ReadPage
    <3>1. \/ failures' = failures
          \/ failures' = ForgetUnseen(pass.at, {Head(pass.jobs).slot}, pass.read)
      BY <2>1 DEF ReadPage
    <3>2. failures' \in [Rows -> [Slots -> 0 .. FailLimit]]
      BY <3>1, ForgetType DEF IndInv, TypeOK
    <3>3. QED
      BY <2>1, <3>2 DEF ReadPage, IndInv, TypeOK
  <2>2. CASE LoseKey
    BY <2>2, MigrationAssumption DEF LoseKey, Fault, IndInv, TypeOK, book
  <2>3. QED
    BY <2>1, <2>2
<1>1. \/ \E done \in BOOLEAN : pass' = EndFill(pass, done)
      \/ \E open \in SUBSET Rows, skipped \in BOOLEAN : pass' = TakePage(NextPage, open, skipped)
  <2>1. CASE ReadPage
    <3>1. \E open \in SUBSET Rows : open = IF KekVerified THEN NextPage ELSE PlainRows(NextPage)
      BY NextPageType
    <3>2. QED
      BY <2>1, <3>1 DEF ReadPage
  <2>2. CASE LoseKey
    BY <2>2, NextPageType DEF LoseKey
  <2>3. QED
    BY <2>1, <2>2
<1>2. /\ pass' \in Passes /\ pass'.pc \in {"fill", "send"} /\ pass'.beneath = pass.beneath
      /\ pass'.view = pass.view /\ pass'.at = pass.at /\ pass'.seen = pass.seen
      /\ pass'.pc = "send" => pass'.jobs # <<>>
  BY <1>0, <1>1, EndFillType, TakePageType, NextPageType
<1>3. QED
  BY <1>0, <1>2 DEF FillGoesOn

\* Reading a page keeps the invariant.
LEMMA ReadPageStep == ASSUME IndInv, ReadPage \/ LoseKey PROVE IndInv'
<1>1. TypeOK'
  BY ReadPageMove DEF FillGoesOn, IndInv, TypeOK, store, control, server
<1>2. QED
  BY <1>1, ReadPageMove, WalkGoesOn DEF FillGoesOn, WalkPCs, store, IndInv, ReadyIsNamed

\* A refusal counts up to the limit.
LEMMA CountFailureType ==
    ASSUME IndInv, NEW r \in Rows, NEW slot \in Slots
    PROVE  CountFailure(r, slot) \in [Rows -> [Slots -> 0 .. FailLimit]]
BY MigrationAssumption DEF CountFailure, IndInv, TypeOK

\* A fill under way has a slot and a model.
LEMMA HeadJob == ASSUME IndInv, pass.jobs # <<>> PROVE Head(pass.jobs) \in Jobs
BY DEF IndInv, TypeOK, Passes

\* Storing, refusing or omitting a row is such a step too.
LEMMA SendMove ==
    ASSUME IndInv, NEW r \in Rows, StoreRow(r) \/ RefuseRow(r) \/ OmitRow(r)
    PROVE  /\ FillGoesOn
           /\ failures' \in [Rows -> [Slots -> 0 .. FailLimit]]
           /\ vec' \in [Rows -> [Slots -> OptModels]]
           /\ faults' \in 0 .. MaxFaults
           /\ UNCHANGED <<kind, state, control, server, inflight, kekSkipped, status>>
<1> DEFINE job == Head(pass.jobs)
<1>1. pass.pc = "send" /\ pass.jobs # <<>>
  BY DEF StoreRow, RefuseRow, OmitRow, SendsNext, IndInv, PassShape
<1>2. job.slot \in Slots /\ job.model \in Models
  BY <1>1, HeadJob DEF Jobs
<1> HIDE DEF job
<1>3. /\ pass' \in Passes /\ pass'.pc = "send" /\ pass'.beneath = pass.beneath
      /\ pass'.view = pass.view /\ pass'.at = pass.at /\ pass'.seen = pass.seen
      /\ pass'.jobs = pass.jobs
  <2>1. CASE StoreRow(r)
    BY <1>1, <1>2, <2>1 DEF StoreRow, IndInv, TypeOK, Passes, job
  <2>2. CASE RefuseRow(r)
    <3>1. PICK tally \in {pass.tally, "landed"} :
            pass' = [pass EXCEPT !.page = @ \ {r}, !.tally = tally, !.up = @ \cup {job.model}]
      BY <2>2 DEF RefuseRow, job
    <3>2. QED
      BY <1>1, <1>2, <3>1 DEF IndInv, TypeOK, Passes
  <2>3. CASE OmitRow(r)
    BY <1>1, <1>2, <2>3 DEF OmitRow, IndInv, TypeOK, Passes, job
  <2>4. QED
    BY <2>1, <2>2, <2>3
<1>4. /\ failures' \in [Rows -> [Slots -> 0 .. FailLimit]]
      /\ vec' \in [Rows -> [Slots -> OptModels]]
      /\ faults' \in 0 .. MaxFaults
      /\ UNCHANGED <<kind, state, control, server, inflight, kekSkipped, status>>
  <2>1. CASE StoreRow(r)
    <3>1. failures' = [failures EXCEPT ![r][job.slot] = 0]
      BY <2>1 DEF StoreRow, job
    <3>2. vec' = [vec EXCEPT ![r][job.slot] = job.model] \/ vec' = vec
      BY <2>1 DEF StoreRow, job
    <3>3. failures' \in [Rows -> [Slots -> 0 .. FailLimit]]
      BY <1>2, <3>1, MigrationAssumption DEF IndInv, TypeOK
    <3>4. vec' \in [Rows -> [Slots -> OptModels]]
      <4>1. vec \in [Rows -> [Slots -> OptModels]] /\ job.model \in OptModels
        BY <1>2 DEF IndInv, TypeOK, OptModels
      <4>2. QED
        BY <1>2, <3>2, <4>1
    <3>5. QED
      BY <2>1, <3>3, <3>4 DEF StoreRow, IndInv, TypeOK
  <2>2. CASE RefuseRow(r) \/ OmitRow(r)
    <3>1. failures' = CountFailure(r, job.slot)
      BY <2>2 DEF RefuseRow, OmitRow, job
    <3>2. QED
      BY <1>2, <2>2, <3>1, CountFailureType, MigrationAssumption
      DEF RefuseRow, OmitRow, Fault, IndInv, TypeOK, store
  <2>3. QED
    BY <2>1, <2>2
<1>5. QED
  BY <1>1, <1>3, <1>4 DEF FillGoesOn

\* Storing, refusing or omitting a row keeps the invariant.
LEMMA SendStep ==
    ASSUME IndInv, NEW r \in Rows, StoreRow(r) \/ RefuseRow(r) \/ OmitRow(r)
    PROVE  IndInv'
<1>1. TypeOK'
  BY SendMove DEF FillGoesOn, IndInv, TypeOK, control, server
<1>2. QED
  BY <1>1, SendMove, WalkGoesOn DEF FillGoesOn, WalkPCs, IndInv, ReadyIsNamed

\* And so is the end of a page or of a fill.
LEMMA FillEndsMove ==
    ASSUME IndInv, Outage \/ Budget \/ EndPage
    PROVE  /\ FillGoesOn
           /\ UNCHANGED <<store, control, server, inflight, book>>
           /\ faults' \in 0 .. MaxFaults
<1>1. /\ pass.pc \in {"fill", "send"} /\ pass.jobs # <<>>
      /\ UNCHANGED <<store, control, server, inflight, book>>
      /\ faults' \in 0 .. MaxFaults
  <2>1. CASE Outage
    BY <2>1, MigrationAssumption DEF Outage, Fault, IndInv, PassShape, TypeOK
  <2>2. CASE Budget
    BY <2>2, MigrationAssumption DEF Budget, Fault, IndInv, TypeOK
  <2>3. CASE EndPage
    BY <2>3 DEF EndPage, IndInv, PassShape, TypeOK
  <2>4. QED
    BY <2>1, <2>2, <2>3
<1>2. /\ pass' \in Passes /\ pass'.pc = "fill" /\ pass'.beneath = pass.beneath
      /\ pass'.view = pass.view /\ pass'.at = pass.at /\ pass'.seen = pass.seen
  <2> DEFINE ended == EndFill(pass, FALSE)
  <2>1. /\ ended \in Passes /\ ended.pc = "fill" /\ ended.beneath = pass.beneath
        /\ ended.view = pass.view /\ ended.at = pass.at /\ ended.seen = pass.seen
    BY <1>1, EndFillType
  <2> HIDE DEF ended
  <2>2. CASE Outage
    <3>1. pass' = [ended EXCEPT !.down = @ \cup {Head(pass.jobs).model}]
      BY <2>2 DEF Outage, ended
    <3>2. Head(pass.jobs).model \in Models
      BY <1>1, HeadJob DEF Jobs
    <3>3. QED
      BY <2>1, <3>1, <3>2 DEF Passes
  <2>3. CASE Budget
    <3>1. pass' = [ended EXCEPT !.jobs = <<>>]
      BY <2>3 DEF Budget, ended
    <3>2. <<>> \in Seq(Jobs)
      OBVIOUS
    <3>3. QED
      BY <2>1, <3>1, <3>2 DEF Passes
  <2>4. CASE EndPage
    <3>1. pass' = ended \/ pass' = [pass EXCEPT !.pc = "fill", !.tally = "none"]
      BY <2>4 DEF EndPage, ended
    <3>2. CASE pass' = ended
      BY <2>1, <3>2
    <3>3. CASE pass' = [pass EXCEPT !.pc = "fill", !.tally = "none"]
      <4>1. pass \in Passes /\ "fill" \in PCs
        BY DEF IndInv, TypeOK, PCs
      <4>2. QED
        BY <3>3, <4>1 DEF Passes
    <3>4. QED
      BY <3>1, <3>2, <3>3
  <2>5. QED
    BY <2>2, <2>3, <2>4
<1>3. QED
  BY <1>1, <1>2 DEF FillGoesOn

\* The end of a page or of a fill keeps the invariant.
LEMMA FillEndsStep == ASSUME IndInv, Outage \/ Budget \/ EndPage PROVE IndInv'
<1>1. TypeOK'
  BY FillEndsMove DEF FillGoesOn, IndInv, TypeOK, store, control, server, book
<1>2. QED
  BY <1>1, FillEndsMove, WalkGoesOn DEF FillGoesOn, WalkPCs, store, IndInv, ReadyIsNamed

\* Steps of the walk that set its next statement and little else.
LEMMA TurnMove ==
    ASSUME IndInv, EndFills \/ LockFlip \/ TimeOutFlip \/ PassGate
    PROVE  /\ pass.pc \in {"fill", "flip", "flipping", "retire"}
           /\ pass' \in Passes /\ pass'.pc \in {"flip", "flipping", "retire", "delete", "report"}
           /\ pass'.view = pass.view /\ pass'.at = pass.at /\ pass'.seen = pass.seen
           /\ pass'.pc \in {"flip", "flipping"} => OtherModel(pass.seen) # None
           /\ UNCHANGED <<store, control, server, inflight, failures, status>>
           /\ faults' \in 0 .. MaxFaults /\ kekSkipped' \subseteq Units
<1>1. /\ pass.pc \in {"fill", "flip", "flipping", "retire"}
      /\ UNCHANGED <<store, control, server, inflight, failures, status>>
      /\ faults' \in 0 .. MaxFaults
  BY MigrationAssumption DEF EndFills, LockFlip, TimeOutFlip, PassGate, Fault, IndInv, TypeOK, book
<1>2. kekSkipped' \subseteq Units
  BY DEF EndFills, LockFlip, TimeOutFlip, PassGate, IndInv, TypeOK, PassShape, book
<1>3. /\ pass' \in Passes /\ pass'.pc \in {"flip", "flipping", "retire", "delete", "report"}
      /\ pass'.view = pass.view /\ pass'.at = pass.at /\ pass'.seen = pass.seen
      /\ pass'.pc \in {"flip", "flipping"} => OtherModel(pass.seen) # None
  <2>0. pass \in Passes
    BY DEF IndInv, TypeOK
  <2>1. CASE EndFills
    <3>1. PICK pc \in {"flip", "retire", "report"} :
            /\ pass' = [pass EXCEPT !.pc = pc]
            /\ pc = "flip" => pass.beneath = "ready" /\ pass.pc = "fill"
      BY <2>1 DEF EndFills
    <3>2. pass' \in Passes
      BY <2>0, <3>1 DEF Passes, PCs
    <3>3. QED
      BY <2>0, <3>1, <3>2 DEF Passes, IndInv, ReadyIsNamed
  <2>2. CASE LockFlip
    <3>1. PICK pc \in {"flipping", "report"}, read \in SUBSET Rows :
            pass' = [pass EXCEPT !.pc = pc, !.read = read]
      BY <2>2 DEF LockFlip, RowsOf
    <3>2. pass' \in Passes
      BY <2>0, <3>1 DEF Passes, PCs
    <3>3. OtherModel(pass.seen) # None
      BY <2>2 DEF LockFlip, IndInv, ReadyIsNamed
    <3>4. QED
      BY <2>0, <3>1, <3>2, <3>3 DEF Passes
  <2>3. CASE TimeOutFlip \/ PassGate
    <3>1. PICK pc \in {"delete", "report"} : pass' = [pass EXCEPT !.pc = pc]
      BY <2>3 DEF TimeOutFlip, PassGate
    <3>2. pass' \in Passes
      BY <2>0, <3>1 DEF Passes, PCs
    <3>3. QED
      BY <2>0, <3>1, <3>2 DEF Passes
  <2>4. QED
    BY <2>1, <2>2, <2>3
<1>4. QED
  BY <1>1, <1>2, <1>3

\* They keep the invariant.
LEMMA TurnStep ==
    ASSUME IndInv, EndFills \/ LockFlip \/ TimeOutFlip \/ PassGate
    PROVE  IndInv'
<1>1. TypeOK'
  BY TurnMove DEF IndInv, TypeOK, store, control, server
<1>2. QED
  BY <1>1, TurnMove, WalkGoesOn DEF WalkPCs, store

\* The flip: the one step that changes a unit's active slot.
LEMMA CommitFlipStep == ASSUME IndInv, CommitFlip PROVE IndInv'
<1> DEFINE u == pass.at
<1>1. /\ pass.pc = "flipping" /\ u \in Units
      /\ state[u] \in UnitStates /\ state[u] # None /\ Lawful(state[u])
      /\ OtherModel(state[u]) # None
  BY DEF CommitFlip, IndInv, PassShape, TypeOK, StatesLawful, Seeded, SeenIsCurrent,
     ReadyIsNamed, OtherModel
<1>2. /\ state' = [state EXCEPT ![u] =
                     [state[u] EXCEPT !.slot = Other(@), !.window = "open"]]
      /\ UNCHANGED server
  <2>1. state' = [state EXCEPT ![u].slot = Other(@), ![u].window = "open"]
    BY DEF CommitFlip
  <2>2. QED
    BY <1>1, <2>1 DEF CommitFlip, IndInv, TypeOK
<1>3. /\ pass' \in Passes /\ pass'.pc = "changed"
      /\ pass'.at = u /\ pass'.seen = pass.seen /\ pass'.view = pass.view
  BY DEF CommitFlip, IndInv, TypeOK, Passes, PCs
<1> HIDE DEF u
<1>4. /\ state' \in [Units -> UnitStates \cup {None}]
      /\ \A v \in Units : /\ state'[v] # None <=> state[v] # None
                          /\ state[v] # None => state'[v].model = state[v].model
                          /\ v # u => state'[v] = state[v]
      /\ state'[u].slot = Other(state[u].slot) /\ state'[u].model = state[u].model
  <2>1. [state[u] EXCEPT !.slot = Other(@), !.window = "open"] \in UnitStates
    BY <1>1, OtherSlot DEF UnitStates
  <2>2. QED
    BY <1>1, <1>2, <2>1, PhaseAssumption DEF IndInv, TypeOK, UnitStates
<1>5. Lawful(state'[u])
  BY <1>1, <1>4, OtherSlot DEF Lawful, ActiveModel, OtherModel, UnitStates
<1>6. TypeOK'
  BY <1>3, <1>4 DEF CommitFlip, IndInv, TypeOK, control, book, server
<1>7. PassShape' /\ SeenIsCurrent' /\ ReadyIsNamed' /\ StatesLawful'
  BY <1>1, <1>2, <1>3, <1>4, <1>5
  DEF IndInv, PassShape, SeenIsCurrent, ReadyIsNamed, StatesLawful, Seeded, server
<1>8. CacheIsCurrent' /\ StaleCacheSafe'
  BY <1>1, <1>2, <1>3, <1>4
  DEF IndInv, CacheIsCurrent, StaleCacheSafe, Seeded, ActiveModel, server, u
<1>9. QED
  BY <1>6, <1>7, <1>8 DEF IndInv

\* A retire batch touches vectors only.
LEMMA RetireRowsStep == ASSUME IndInv, RetireRows PROVE IndInv'
<1>1. /\ pass' \in Passes /\ pass.pc = "delete" /\ pass'.pc \in {"clear", "retire"}
      /\ pass'.view = pass.view /\ pass'.at = pass.at /\ pass'.seen = pass.seen
  BY DEF RetireRows, IndInv, TypeOK, Passes, PCs
<1>2. vec' \in [Rows -> [Slots -> OptModels]]
  <2> DEFINE slot == Other(pass.seen.slot)
  <2>1. vec \in [Rows -> [Slots -> OptModels]] /\ None \in OptModels
    BY DEF IndInv, TypeOK, OptModels
  <2>2. \E batch : vec' = [r \in Rows |-> IF r \in batch
                                    THEN [vec[r] EXCEPT ![slot] = None] ELSE vec[r]]
    BY DEF RetireRows
  <2> HIDE DEF slot
  <2>3. QED
    BY <2>1, <2>2
<1>3. TypeOK'
  BY <1>1, <1>2 DEF RetireRows, IndInv, TypeOK, control, server, book
<1>4. QED
  BY <1>1, <1>3, WalkGoesOn DEF RetireRows, WalkPCs

\* Retire's last statement: the one step that takes a model from a slot.
LEMMA ClearSlotStep == ASSUME IndInv, ClearSlot PROVE IndInv'
<1> DEFINE u == pass.at
           slot == Other(pass.seen.slot)
           clear == Clearable(u, slot, pass.view.retire)
<1>1. /\ pass.pc = "clear" /\ u \in Units /\ slot \in Slots
      /\ state[u] \in UnitStates /\ state[u] # None /\ Lawful(state[u])
      /\ cache[u] # None => cache[u].slot = state[u].slot
  BY OtherSlot DEF ClearSlot, IndInv, PassShape, TypeOK, StatesLawful, Seeded, UnitStates,
     CacheIsCurrent
<1>2. /\ state' = IF clear THEN [state EXCEPT ![u] = Cleared(@, slot)] ELSE state
      /\ pass' = [pass EXCEPT !.pc = IF clear THEN "changed" ELSE "report"]
      /\ UNCHANGED server
  BY DEF ClearSlot
<1>3. clear => state[u].slot # slot
  BY DEF Clearable
<1>4. clear \in BOOLEAN
  BY DEF Clearable
<1> HIDE DEF u, slot, clear
<1>5. /\ pass' \in Passes /\ pass'.pc = IF clear THEN "changed" ELSE "report"
      /\ pass'.at = u /\ pass'.seen = pass.seen /\ pass'.view = pass.view
  <2>1. pass \in Passes
    BY DEF IndInv, TypeOK
  <2>2. CASE clear
    BY <1>2, <2>1, <2>2 DEF Passes, PCs, u
  <2>3. CASE ~clear
    BY <1>2, <2>1, <2>3 DEF Passes, PCs, u
  <2> QED BY <1>4, <2>2, <2>3
<1>6. CASE ~clear
  <2>1. TypeOK'
    BY <1>2, <1>5, <1>6 DEF ClearSlot, IndInv, TypeOK, control, server, book
  <2>2. QED
    BY <1>1, <1>2, <1>5, <1>6, <2>1, WalkGoesOn DEF WalkPCs, u
<1>7. CASE clear
  <2>1. /\ Cleared(state[u], slot) \in UnitStates
        /\ Lawful(Cleared(state[u], slot))
        /\ Cleared(state[u], slot).slot = state[u].slot
        /\ Cleared(state[u], slot).model[state[u].slot] = state[u].model[state[u].slot]
    BY <1>1, <1>3, <1>7, OtherSlot
    DEF Cleared, UnitStates, Lawful, ActiveModel, OtherModel, OptModels
  <2>2. /\ state' \in [Units -> UnitStates \cup {None}]
        /\ \A v \in Units : /\ state'[v] # None <=> state[v] # None
                            /\ v # u => state'[v] = state[v]
        /\ state'[u] = Cleared(state[u], slot)
    BY <1>1, <1>2, <1>7, <2>1, PhaseAssumption DEF IndInv, TypeOK
  <2>3. TypeOK'
    BY <1>5, <2>2 DEF ClearSlot, IndInv, TypeOK, control, book, server
  <2>4. PassShape' /\ SeenIsCurrent' /\ ReadyIsNamed' /\ StatesLawful'
    BY <1>1, <1>2, <1>5, <1>7, <2>1, <2>2
    DEF IndInv, PassShape, SeenIsCurrent, ReadyIsNamed, StatesLawful, Seeded, server
  <2>5. CacheIsCurrent' /\ StaleCacheSafe'
    BY <1>1, <1>2, <1>5, <1>7, <2>1, <2>2
    DEF IndInv, CacheIsCurrent, StaleCacheSafe, Seeded, ActiveModel, server, u
  <2>6. QED
    BY <2>3, <2>4, <2>5 DEF IndInv
<1>8. QED
  BY <1>4, <1>6, <1>7

\* The report ends the walk of a unit.
LEMMA ReportUnitStep == ASSUME IndInv, ReportUnit PROVE IndInv'
<1>1. pass.pc = "report" /\ pass.at \in Units /\ pass.view \in Views
  BY DEF ReportUnit, IndInv, PassShape
<1>2. pass' \in Passes /\ pass'.pc = "walk" /\ pass'.view = pass.view
  BY <1>1, IdleType DEF ReportUnit, IndInv, TypeOK, Passes, PCs
<1>3. status' \in [Units -> BOOLEAN \cup {None}]
  <2>1. (FailedRows(pass.at) # {}) \in BOOLEAN /\ status \in [Units -> BOOLEAN \cup {None}]
    BY DEF IndInv, TypeOK
  <2>2. status' = [status EXCEPT ![pass.at] = FailedRows(pass.at) # {}]
    BY DEF ReportUnit
  <2>3. QED
    BY <1>1, <2>1, <2>2
<1>4. TypeOK'
  BY <1>2, <1>3 DEF ReportUnit, IndInv, TypeOK, store, control, server
<1>5. QED
  BY <1>1, <1>2, <1>4
  DEF ReportUnit, IndInv, PassShape, SeenIsCurrent, ReadyIsNamed, CacheIsCurrent, StatesLawful,
      StaleCacheSafe, Seeded, Lawful, ActiveModel, OtherModel, store, server

\* The invariant holds in the store of a server that never migrated.
LEMMA InitInv == Init => IndInv
<1> SUFFICES ASSUME Init PROVE IndInv
  OBVIOUS
<1>1. TypeOK
  <2>1. intent \in Intents
    BY DEF Init, Intents, OptModels
  <2>2. vec \in [Rows -> [Slots -> OptModels]]
    BY MigrationAssumption DEF Init, OptModels
  <2>3. kind \in [Rows -> {"absent", "plain", "private", "gone"}]
    BY MigrationAssumption DEF Init
  <2>4. QED
    BY <2>1, <2>2, <2>3, IdleType, MigrationAssumption DEF Init, TypeOK
<1>2. QED
  BY <1>1, IdleType DEF Init, IndInv, PassShape, SeenIsCurrent, ReadyIsNamed, CacheIsCurrent,
     StatesLawful, StaleCacheSafe, Seeded

\* Every action keeps the invariant.
LEMMA NextInv == IndInv /\ [Next]_vars => IndInv'
<1> SUFFICES ASSUME IndInv, [Next]_vars PROVE IndInv'
  OBVIOUS
<1>1. CASE Sweep
  BY <1>1, BeginPassStep, EndStep, ListUnitsStep, WalkUnitStep, SkipUnitStep, ReloadStep,
     CountUnitStep, ReadPageStep, FillEndsStep, SendStep, TurnStep, CommitFlipStep,
     RetireRowsStep, ClearSlotStep, ReportUnitStep
  DEF Sweep
<1>2. CASE Faulty
  BY <1>2, ReadPageStep, FillEndsStep, TurnStep, EndStep, CrashStep, SendStep DEF Faulty
<1>3. CASE Operator
  BY <1>3, BootStep, CommandStep, CloseWindowStep DEF Operator
<1>4. CASE Writer
  BY <1>4, WriterStep
<1>5. CASE UNCHANGED vars
  <2>1. TypeOK'
    BY <1>5 DEF IndInv, TypeOK, vars
  <2>2. QED
    BY <1>5, <2>1, Undisturbed DEF vars, server
<1>6. QED
  BY <1>1, <1>2, <1>3, <1>4, <1>5 DEF Next

\* The inductive invariant of the sweep: what a walk has read of its unit's state
\* row is still true, a unit that may flip has a named slot to flip to, and the
\* cached states are at most one flip behind.
THEOREM Inductive == Spec => []IndInv
BY InitInv, NextInv, PTL DEF Spec

\* Every variable keeps its type, whatever the operator, the writers, the faults
\* and the sweep do (the sweep of services/embedding_migration.rs).
THEOREM TypeCorrect == Spec => []TypeOK
<1>1. IndInv => TypeOK
  BY DEF IndInv
<1>2. QED
  BY <1>1, Inductive, PTL

\* The CHECK constraints of embedding_state never fire: no seed, name, flip or
\* clear leaves a unit without an active model or with one model in both slots.
THEOREM Lawfulness == Spec => []StatesLawful
<1>1. IndInv => StatesLawful
  BY DEF IndInv
<1>2. QED
  BY <1>1, Inductive, PTL

\* The request path may use a cached state however old it is: the slot it names
\* still holds the model it names (the claim on EmbedderSet.states).
THEOREM CacheSafety == Spec => []StaleCacheSafe
<1>1. IndInv => StaleCacheSafe
  BY DEF IndInv
<1>2. QED
  BY <1>1, Inductive, PTL

\* The actions that write a state row.
LEMMA StateWriters ==
    ASSUME [Next]_vars, state' # state
    PROVE  \/ \E e \in Configs : Boot(e) \/ RefuseBoot(e)
           \/ \E u \in Units : WalkUnit(u) \/ CloseWindow(u)
           \/ ListUnits \/ CommitFlip \/ ClearSlot
<1>1. CASE Sweep
  BY <1>1 DEF Sweep, BeginPass, BeginPassWithoutView, SkipUnit, Reload, CountUnit, ReadPage,
     StoreRow, EndPage, EndFills, LockFlip, PassGate, RetireRows, ReportUnit, EndPass,
     StopAtGate, store
<1>2. CASE Faulty
  BY <1>2 DEF Faulty, LoseKey, Outage, Budget, TimeOutFlip, StopPass, Crash, RefuseRow, OmitRow,
     store
<1>3. CASE Operator
  BY <1>3 DEF Operator, ReadStatus, ChangeIntent, RefuseCommand, store
<1>4. CASE Writer
  BY <1>4 DEF Writer, StartWrite, CommitWrite, Forget, store
<1>5. CASE UNCHANGED vars
  BY <1>5 DEF vars
<1>6. QED
  BY <1>1, <1>2, <1>3, <1>4, <1>5 DEF Next

\* A slot keeps its model until retire clears it, and retire clears it only when
\* no row of the unit carries that model any more (CLEAR_SLOT_A, decision 0027).
THEOREM SlotsKept == Spec => SlotKeepsModel
<1> DEFINE Keeps ==
        \A u \in Seeded(state) : \A s \in Slots :
          state[u].model[s] # None /\ state'[u].model[s] # state[u].model[s] =>
              /\ state'[u].model[s] = None
              /\ state[u].model[s] = pass.view.retire
              /\ \A r \in RowsOf(u) : vec[r][s] # state[u].model[s]
<1>1. ASSUME IndInv, [Next]_vars PROVE Keeps
  <2>1. SUFFICES ASSUME NEW u \in Units, state[u] # None, NEW s \in Slots,
                        state[u].model[s] # None,
                        state'[u].model[s] # state[u].model[s]
                 PROVE  /\ state'[u].model[s] = None
                        /\ state[u].model[s] = pass.view.retire
                        /\ \A r \in RowsOf(u) : vec[r][s] # state[u].model[s]
    BY DEF Seeded
  <2>2. state[u] \in UnitStates
    BY <1>1, <2>1 DEF IndInv, TypeOK
  <2>3. ASSUME NEW e \in Configs, Boot(e) \/ RefuseBoot(e) PROVE FALSE
    BY <1>1, <2>1, <2>3, SeedUnitsLawful DEF Boot, RefuseBoot, IndInv
  <2>4. CASE ListUnits
    BY <1>1, <2>1, <2>4, SeedUnitsLawful DEF ListUnits, IndInv
  <2>5. ASSUME NEW v \in Units, WalkUnit(v) PROVE FALSE
    <3> DEFINE goal == Target(state[v], pass.view)
               slot == Other(state[v].slot)
    <3>1. CASE state' = state
      BY <2>1, <3>1
    <3>2. CASE state' # state
      <4>1. /\ OtherModel(state[v]) = None
            /\ state' = [state EXCEPT ![v] = Named(state[v], slot, goal)]
        BY <2>5, <3>2 DEF WalkUnit
      <4>2. v = u
        BY <1>1, <2>1, <4>1 DEF IndInv, TypeOK
      <4>3. state'[u] = state[u] \/ state'[u] = [state[u] EXCEPT !.model[slot] = goal]
        BY <1>1, <2>1, <4>1, <4>2 DEF Named, IndInv, TypeOK
      <4>4. s # slot
        BY <2>1, <4>1, <4>2 DEF OtherModel
      <4> HIDE DEF slot, goal
      <4>5. QED
        BY <2>1, <2>2, <4>3, <4>4 DEF UnitStates
    <3>3. QED
      BY <3>1, <3>2
  <2>6. ASSUME NEW v \in Units, CloseWindow(v) PROVE FALSE
    BY <1>1, <2>1, <2>2, <2>6 DEF CloseWindow, IndInv, TypeOK, UnitStates
  <2>7. CASE CommitFlip
    BY <1>1, <2>1, <2>2, <2>7 DEF CommitFlip, IndInv, TypeOK, UnitStates
  <2>8. CASE ClearSlot
    <3> DEFINE slot == Other(pass.seen.slot)
    <3>1. /\ Clearable(pass.at, slot, pass.view.retire)
          /\ state' = [state EXCEPT ![pass.at] = Cleared(@, slot)]
      BY <2>1, <2>8 DEF ClearSlot
    <3>2. u = pass.at
      BY <1>1, <2>1, <3>1 DEF IndInv, TypeOK
    <3>3. state'[u] = [state[u] EXCEPT !.model[slot] = None]
      BY <1>1, <2>1, <3>1, <3>2 DEF Cleared, IndInv, TypeOK
    <3> HIDE DEF slot
    <3>4. s = slot /\ state'[u].model[s] = None
      BY <2>1, <2>2, <3>3 DEF UnitStates
    <3>5. QED
      BY <3>1, <3>2, <3>4 DEF Clearable
  <2>9. QED
    BY <1>1, <2>1, <2>3, <2>4, <2>5, <2>6, <2>7, <2>8, StateWriters
<1>2. IndInv /\ [Next]_vars => [Keeps]_vars
  BY <1>1
<1>3. QED
  BY <1>2, Inductive, PTL DEF Spec, SlotKeepsModel

-----------------------------------------------------------------------------
(* The control row.                                                        *)

\* What a command that writes may write.
LEMMA WhatIsDecided ==
    ASSUME IndInv, ChangeIntent
    PROVE  \/ intent'.verb = "start" /\ intent'.retire = None
           \/ /\ intent'.verb = "flip" /\ ~intent.flip
              /\ intent'.target = intent.target /\ intent'.retire = intent.retire
           \/ /\ intent'.verb = "rollback" /\ ~intent'.flip
              /\ intent.target # None /\ intent'.target = None /\ intent'.retire = intent.target
              /\ ~(intent.verb = "rollback" /\ intent.flip)
           \/ /\ intent'.verb = "rollback" /\ intent'.target # None /\ intent'.retire = None
           \/ /\ intent'.verb = "retire" /\ intent'.target = intent.target
              /\ intent'.retire # None /\ intent'.retire # intent.target
              /\ intent.target # None => intent.target \in Actives(state)
<1>1. PICK c \in Decide(cmd.verb, intent, cmd.blocks, state, cmd.published) :
          intent' = [gen |-> intent.gen + 1, target |-> c.target, flip |-> c.flip,
                     retire |-> c.retire, verb |-> c.verb]
  BY DEF ChangeIntent
<1>2. cmd.verb \in Verbs /\ Ids(cmd.blocks) \in SUBSET Models /\ intent \in Intents
  BY IdsType DEF ChangeIntent, IndInv, TypeOK, Commands
<1>3. CASE cmd.verb = "start"
  <2>1. PICK t : c = Change(t, FALSE, None, "start")
    BY <1>1, <1>3 DEF Decide, DecideStart
  <2>2. QED
    BY <1>1, <2>1 DEF Change
<1>4. CASE cmd.verb = "flip"
  <2>1. PICK t : t = intent.target /\ ~intent.flip /\ c = Change(t, TRUE, intent.retire, "flip")
    BY <1>1, <1>4 DEF Decide, DecideFlip
  <2>2. QED
    BY <1>1, <2>1 DEF Change
<1>5. CASE cmd.verb = "rollback"
  <2> DEFINE on == {u \in Seeded(state) : ActiveModel(state[u]) = intent.target}
  <2>1. c \in DecideRollback(intent, cmd.blocks, state)
    BY <1>1, <1>5 DEF Decide
  <2>2. CASE on = {}
    <3>1. /\ intent.target # None /\ ~(intent.verb = "rollback" /\ intent.flip)
          /\ c = Change(None, FALSE, intent.target, "rollback")
      BY <2>1, <2>2 DEF DecideRollback
    <3>2. QED
      BY <1>1, <3>1 DEF Change
  <2>3. CASE on # {}
    <3>1. PICK m \in Ids(cmd.blocks) : c = Change(m, TRUE, None, "rollback")
      BY <2>1, <2>3, ZenonT(30) DEF DecideRollback
    <3>2. m # None
      BY <1>2, PhaseAssumption
    <3>3. QED
      BY <1>1, <3>1, <3>2 DEF Change
  <2>4. QED
    BY <2>2, <2>3
<1>6. CASE cmd.verb = "retire"
  <2> DEFINE goals == IF intent.target # None THEN {intent.target} ELSE Actives(state)
  <2>1. PICK m \in Held(state, Seeded(state)) :
          /\ Actives(state) = goals
          /\ \E goal \in goals : goals = {goal} /\ m # goal
          /\ c = Change(intent.target, intent.flip, m, "retire")
    BY <1>1, <1>6 DEF Decide, DecideRetire
  <2>2. m # None
    BY DEF Held
  <2>3. m # intent.target /\ (intent.target # None => intent.target \in Actives(state))
    BY <2>1, <2>2
  <2>4. QED
    BY <1>1, <2>1, <2>2, <2>3 DEF Change
<1>7. QED
  BY <1>2, <1>3, <1>4, <1>5, <1>6 DEF Verbs

\* Only the command writes the operator's half of the control row.
LEMMA IntentWriters == ASSUME [Next]_vars, intent' # intent PROVE ChangeIntent
<1>1. CASE Sweep
  BY <1>1 DEF Sweep, BeginPass, BeginPassWithoutView, ListUnits, WalkUnit, SkipUnit, Reload,
     CountUnit, ReadPage, StoreRow, EndPage, EndFills, LockFlip, CommitFlip, PassGate,
     RetireRows, ClearSlot, ReportUnit, EndPass, StopAtGate, control
<1>2. CASE Faulty
  BY <1>2 DEF Faulty, LoseKey, Outage, Budget, TimeOutFlip, StopPass, Crash, RefuseRow, OmitRow,
     control
<1>3. CASE Operator
  BY <1>3 DEF Operator, Boot, RefuseBoot, CloseWindow, ReadStatus, RefuseCommand, control
<1>4. CASE Writer
  BY <1>4 DEF Writer, StartWrite, CommitWrite, Forget, control
<1>5. CASE UNCHANGED vars
  BY <1>5 DEF vars
<1>6. QED
  BY <1>1, <1>2, <1>3, <1>4, <1>5 DEF Next

\* The CHECK constraint of embedding_control never fires.
THEOREM ControlIsLawful == Spec => []ControlLawful
<1>1. Init => ControlLawful
  BY DEF Init, ControlLawful
<1>2. IndInv /\ ControlLawful /\ [Next]_vars => ControlLawful'
  <2> SUFFICES ASSUME IndInv, ControlLawful, [Next]_vars PROVE ControlLawful'
    OBVIOUS
  <2>1. CASE intent' = intent
    BY <2>1 DEF ControlLawful
  <2>2. CASE intent' # intent
    BY <2>2, IntentWriters, WhatIsDecided DEF ControlLawful
  <2>3. QED
    BY <2>1, <2>2
<1>3. QED
  BY <1>1, <1>2, Inductive, PTL DEF Spec

\* While a rollback waits for the pass that applies it, no command makes the
\* control row retire the model it restores (decide_rollback's NoOp).
THEOREM RollbackKept == Spec => RollbackIsKept
<1> DEFINE Kept ==
        intent.verb = "rollback" /\ intent.flip /\ intent.target \notin Actives(state)
          => intent'.retire # intent.target
<1>1. ASSUME IndInv, ControlLawful, [Next]_vars PROVE Kept
  <2>1. CASE intent' = intent
    BY <1>1, <2>1 DEF ControlLawful
  <2>2. CASE intent' # intent
    BY <1>1, <2>2, IntentWriters, WhatIsDecided DEF ControlLawful
  <2>3. QED
    BY <2>1, <2>2
<1>2. IndInv /\ ControlLawful /\ [Next]_vars => [Kept]_vars
  BY <1>1
<1>3. QED
  BY <1>2, Inductive, ControlIsLawful, PTL DEF Spec, RollbackIsKept

-----------------------------------------------------------------------------
(* The slots and what lies in them.  SlotInv holds in every mode, PureInv  *)
(* where for_unit makes one guess.                                         *)

\* A row that is not written yet, or gone, has no vector, and only a row that is
\* not written yet has a write in flight.
RowsAreBare ==
    /\ \A r \in Rows : kind[r] \in {"absent", "gone"} => vec[r] = NoVectors
    /\ \A r \in Rows : inflight[r] # None => kind[r] = "absent" /\ env # None

\* A flip goes to the current model, which its slot holds.
FlipsToCurrent ==
    \/ pass.pc \in {"fill", "send"} /\ pass.beneath = "ready"
    \/ pass.pc \in {"flip", "flipping"}
    => /\ OtherModel(pass.seen) = pass.view.current
       /\ ActiveModel(pass.seen) = pass.view.previous

\* The models a process comes upon while it runs are those of its blocks.
ViewIsBuilt(view) ==
    view.current \in Ids(env.blocks) /\ view.previous \in Ids(env.blocks) \cup {None}

AllIsBuilt ==
    env # None =>
        /\ ViewIsBuilt(configured)
        /\ pass.pc # "idle" => ViewIsBuilt(pass.view)
        /\ \A r \in Rows : inflight[r] # None =>
              inflight[r].active \in Ids(env.blocks) /\ inflight[r].second \in Ids(env.blocks) \cup {None}
        /\ \A r \in Rows : state[UnitOf[r]] = None =>
              \A s \in Slots : vec[r][s] \in Ids(env.blocks) \cup {None}

\* What the flip counted stands until it commits: the control row is locked, and
\* no write can reach a row that was eligible then.
FlipStands ==
    pass.pc = "flipping" =>
        /\ intent.gen = pass.view.gen
        /\ \A r \in RowsOf(pass.at) \cap pass.read :
              /\ kind[r] # "absent"
              /\ Eligible(r) => vec[r][Other(pass.seen.slot)] = OtherModel(pass.seen)

\* A retire under way keeps the window it found closed.
WindowPassed == pass.pc \in {"retire", "delete", "clear"} => state[pass.at].window # "open"

\* A view that the control row has not moved past follows it: it names a
\* previous model only while nothing is retired.
ViewIsOfIntent ==
    /\ Mode = "env" => cmd = None /\ intent.retire = None
    /\ Mode = "command" /\ pass.pc # "idle" =>
          /\ pass.view.gen <= intent.gen
          /\ pass.view.gen = intent.gen /\ pass.view.previous # None => intent.retire = None

\* A page holds rows of the unit it was read for.
PageIsOfUnit == pass.pc = "send" => pass.page \subseteq RowsOf(pass.at)

SlotInv ==
    /\ RowsAreBare
    /\ PageIsOfUnit
    /\ FlipsToCurrent
    /\ AllIsBuilt
    /\ ActiveIsBuilt
    /\ FlipStands
    /\ WindowPassed
    /\ ViewIsOfIntent

\* The model for_unit answers with for a unit that has no state row.
Guess(view) == IF view.previous # None THEN view.previous ELSE view.current

\* Where that answer is the same for as long as a process runs and a unit has
\* no state row: .env steers it, or the only unit is one that passes seed.
OneGuess == Mode = "env" \/ Units = {DefaultUnit}

FirstGuess == IF Mode = "env" THEN Guess(EnvView(env)) ELSE env.blocks[1]

GuessHolds ==
    /\ env # None /\ Seeded(state) # Units => Guess(configured) = FirstGuess
    /\ Seeded(state) = {} => intent.target = None
    /\ Mode = "env" /\ pass.pc # "idle" => pass.view = EnvView(env)

\* The caches know the units that have a state row, and the models of their
\* slots, but for a name or a clear that is not reloaded yet.
CacheIsWhole == Seeded(cache) = IF env = None THEN {} ELSE Seeded(state)

CacheIsNamed ==
    \A u \in Seeded(cache) :
        \/ pass.pc \in {"idle", "list"}
        \/ pass.pc \in {"named", "changed"} /\ u = pass.at
        \/ cache[u].model = state[u].model

\* The model of the slot a cached state takes for the other one: cleared since,
\* or the same, or named since.
SpareIsKnown ==
    \A u \in Seeded(cache) :
        LET m == state[u].model[Other(cache[u].slot)]
        IN \/ m \in {None, OtherModel(cache[u])}
           \/ OtherModel(cache[u]) = None /\ m \in Ids(env.blocks)

\* A write in flight, however late, brings no vector into a slot that names
\* another model.
WriteFits(w, st) ==
    /\ w.second # w.active
    /\ IF st = None THEN w.slot = "a" /\ w.active = FirstGuess
       ELSE /\ st.model[w.slot] \in {None, w.active}
            /\ st.model[Other(w.slot)] # w.active
            /\ w.second # None => st.model[Other(w.slot)] \in {None, w.second}

WritesFit == \A r \in Rows : inflight[r] # None => WriteFits(inflight[r], state[UnitOf[r]])

\* What a seed will find in slot a of a unit without a state row comes from one
\* model.
SeedIsPure ==
    \A u \in Units \ Seeded(state) : \A r \in RowsOf(u) :
        /\ vec[r]["a"] = None => vec[r] = NoVectors
        /\ env # None => vec[r]["a"] \in {None, FirstGuess}
        /\ \A q \in RowsOf(u) : vec[r]["a"] # None /\ vec[q]["a"] # None => vec[r]["a"] = vec[q]["a"]

\* The slot a flip goes to holds no other model's vector while it commits.
FlipIsPure ==
    pass.pc = "flipping" => \A r \in RowsOf(pass.at) :
        vec[r][Other(pass.seen.slot)] \in {None, OtherModel(pass.seen)}

PureInv ==
    /\ GuessHolds
    /\ CacheIsWhole
    /\ CacheIsNamed
    /\ SpareIsKnown
    /\ WritesFit
    /\ SeedIsPure
    /\ FlipIsPure
    /\ ActiveSlotPure

\* First how each kind of step moves the pass and the state rows.

\* A majority model is the model of some row.
LEMMA MajorityHeld ==
    ASSUME NEW u \in Units, NEW slot \in Slots, Majority(u, slot) # None
    PROVE  \E r \in RowsOf(u) : vec[r][slot] = Majority(u, slot)
<1> DEFINE Of(m) == {r \in RowsOf(u) : vec[r][slot] = m}
           best == {m \in Models : Cardinality(Of(m)) > 0
                                   /\ \A n \in Models : Cardinality(Of(n)) <= Cardinality(Of(m))}
<1>1. Majority(u, slot) = IF best = {} THEN None ELSE CHOOSE m \in best : TRUE
  BY DEF Majority
<1>2. Majority(u, slot) \in best
  BY <1>1
<1>3. Cardinality(Of(Majority(u, slot))) > 0
  BY <1>2
<1>4. Cardinality({}) = 0
  BY FS_EmptySet
<1>5. Of(Majority(u, slot)) # {}
  BY <1>3, <1>4
<1> QED BY <1>5

\* A seeded row names models of the unit's own vectors, slot a first.
LEMMA SeedPlanIs ==
    ASSUME TypeOK, NEW u \in Units, HoldsVectors(u)
    PROVE  /\ SeedPlan(u) \in UnitStates /\ Lawful(SeedPlan(u)) /\ SeedPlan(u) # None
           /\ SeedPlan(u).window = "never"
           /\ \A s \in Slots : SeedPlan(u).model[s] # None =>
                 \E r \in RowsOf(u) : vec[r][s] = SeedPlan(u).model[s]
           /\ (\E r \in RowsOf(u) : vec[r]["a"] # None) => SeedPlan(u).slot = "a"
<1> DEFINE a == Majority(u, "a")
           b == Majority(u, "b")
<1>1. SeedPlan(u) \in UnitStates /\ Lawful(SeedPlan(u)) /\ SeedPlan(u) # None
  BY SeedPlanLawful, PhaseAssumption
<1>2. /\ a # None => \E r \in RowsOf(u) : vec[r]["a"] = a
      /\ b # None => \E r \in RowsOf(u) : vec[r]["b"] = b
      /\ (\E r \in RowsOf(u) : vec[r]["a"] # None) => a # None
  BY MajorityHeld, MajorityExists DEF Slots
<1> HIDE DEF a, b
<1>3. SeedPlan(u) = [slot   |-> IF a # None THEN "a" ELSE "b",
                     model  |-> [s \in Slots |-> IF s = "a" THEN a
                                                 ELSE IF b = a THEN None ELSE b],
                     window |-> "never"]
  BY DEF SeedPlan, a, b
<1>4. /\ SeedPlan(u).window = "never"
      /\ SeedPlan(u).model["a"] = a
      /\ SeedPlan(u).model["b"] \in {None, b}
      /\ a # None => SeedPlan(u).slot = "a"
  BY <1>3 DEF Slots
<1> QED BY <1>1, <1>2, <1>4 DEF Slots

\* Seeding changes no state row and adds rows for units that hold vectors.
LEMMA SeedUnitsIs ==
    ASSUME TypeOK, NEW units, NEW u \in Units
    PROVE  \/ SeedUnits(units)[u] = state[u] /\ (state[u] # None \/ u \notin units \/ ~HoldsVectors(u))
           \/ state[u] = None /\ HoldsVectors(u) /\ u \in units /\ SeedUnits(units)[u] = SeedPlan(u)
BY DEF SeedUnits

\* A unit that counts as ready holds the current model beside the previous one.
LEMMA ReadyMeans ==
    ASSUME NEW u, NEW st \in UnitStates, Lawful(st), NEW view \in Views,
           NEW pending \in BOOLEAN, Phase(u, st, view, pending) = "ready"
    PROVE  OtherModel(st) = view.current /\ ActiveModel(st) = view.previous
BY DEF Phase

\* What the count leaves in the pass.
LEMMA CountMove ==
    ASSUME IndInv, CountUnit
    PROVE  /\ pass.pc = "count" /\ pass'.pc = "fill"
           /\ pass'.view = pass.view /\ pass'.at = pass.at /\ pass'.seen = pass.seen
           /\ \E pending \in BOOLEAN :
                 pass'.beneath = Phase(pass.at, pass.seen, pass.view, pending)
           /\ UNCHANGED <<store, control, server, inflight>>
<1> DEFINE pending == OtherPending(pass.at, pass.seen, Target(pass.seen, pass.view))
           beneath == Phase(pass.at, pass.seen, pass.view, pending)
<1>1. PICK blocked, jobs :
        pass' = [pass EXCEPT !.pc = "fill", !.beneath = beneath, !.blocked = blocked,
                             !.done = TRUE, !.skipped = FALSE, !.read = {}, !.jobs = jobs]
  BY DEF CountUnit
<1>2. pass.pc = "count" /\ UNCHANGED <<store, control, server, inflight>>
  BY DEF CountUnit
<1>3. pending \in BOOLEAN
  BY DEF OtherPending
<1>4. pass \in Passes
  BY DEF IndInv, TypeOK
<1> HIDE DEF pending, beneath
<1>5. /\ pass'.pc = "fill" /\ pass'.beneath = beneath
      /\ pass'.view = pass.view /\ pass'.at = pass.at /\ pass'.seen = pass.seen
  BY <1>1, <1>4 DEF Passes
<1> QED BY <1>2, <1>3, <1>5 DEF beneath

\* The walk of a unit names at most its empty inactive slot, with its target.
LEMMA WalkState ==
    ASSUME IndInv, NEW u \in Units, WalkUnit(u)
    PROVE  /\ pass.pc = "walk" /\ pass'.pc \in {"named", "count"}
           /\ pass'.view = pass.view /\ pass'.at = u /\ pass'.seen = state[u]
           /\ state[u] # None /\ state'[u] # None
           /\ \A v \in Units : v # u => state'[v] = state[v]
           /\ state'[u].slot = state[u].slot /\ state'[u].window = state[u].window
           /\ ActiveModel(state'[u]) = ActiveModel(state[u])
           /\ pass'.pc = "count" => state' = state
           /\ \/ state' = state
              \/ /\ OtherModel(state[u]) = None
                 /\ OtherModel(state'[u]) = Target(state[u], pass.view)
                 /\ OtherModel(state'[u]) \notin {None, ActiveModel(state[u])}
<1> DEFINE goal  == Target(state[u], pass.view)
           named == Named(state[u], Other(state[u].slot), goal)
           name  == goal # None /\ OtherModel(state[u]) = None
<1>1. /\ state[u] # None /\ pass.pc = "walk"
      /\ state' = IF name THEN [state EXCEPT ![u] = named] ELSE state
      /\ pass' = [pass EXCEPT !.at = u, !.seen = state[u],
                        !.pc = IF name /\ named # state[u] THEN "named" ELSE "count"]
  BY DEF WalkUnit
<1>2. state[u] \in UnitStates /\ state \in [Units -> UnitStates \cup {None}] /\ pass \in Passes
  BY <1>1 DEF IndInv, TypeOK
<1>3. \/ named = state[u]
      \/ /\ named = [state[u] EXCEPT !.model[Other(state[u].slot)] = goal]
         /\ state[u].model[Other(Other(state[u].slot))] # goal
  BY DEF Named
<1>4. /\ Other(state[u].slot) \in Slots /\ Other(state[u].slot) # state[u].slot
      /\ state[u].slot \in Slots /\ Other(Other(state[u].slot)) = state[u].slot
  BY <1>2, OtherSlot DEF UnitStates
<1>5. name \in BOOLEAN /\ (name => goal # None /\ OtherModel(state[u]) = None)
  OBVIOUS
<1> HIDE DEF goal, named, name
<1>6. named # state[u] =>
        /\ named.slot = state[u].slot /\ named.window = state[u].window
        /\ ActiveModel(named) = ActiveModel(state[u]) /\ OtherModel(named) = goal
        /\ goal # ActiveModel(state[u])
  BY <1>2, <1>3, <1>4 DEF UnitStates, ActiveModel, OtherModel
<1>7. /\ pass'.pc = IF name /\ named # state[u] THEN "named" ELSE "count"
      /\ pass'.view = pass.view /\ pass'.at = u /\ pass'.seen = state[u]
  BY <1>1, <1>2 DEF Passes
<1>8. CASE name /\ named # state[u]
  <2>1. named \in UnitStates
    <3>1. goal \in OptModels
      BY <1>1, <1>2, TargetType DEF IndInv, PassShape, goal
    <3> QED BY <1>2, <1>3, <1>4, <1>8, <3>1 DEF UnitStates
  <2>2. state'[u] = named /\ \A v \in Units : v # u => state'[v] = state[v]
    BY <1>1, <1>2, <1>8
  <2>3. named # None
    BY <2>1, PhaseAssumption
  <2>4. OtherModel(named) = Target(state[u], pass.view) /\ OtherModel(named) # None
    BY <1>5, <1>6, <1>8 DEF goal
  <2> QED BY <1>1, <1>5, <1>6, <1>7, <1>8, <2>2, <2>3, <2>4
<1>9. CASE ~(name /\ named # state[u])
  <2>1. state' = state
    BY <1>1, <1>2, <1>5, <1>9
  <2> QED BY <1>1, <1>7, <1>9, <2>1
<1> QED BY <1>5, <1>8, <1>9

\* A flip changes the slot and opens the window, nothing else.
LEMMA FlipState ==
    ASSUME IndInv, CommitFlip
    PROVE  /\ pass.pc = "flipping" /\ pass'.pc = "changed" /\ pass.at \in Units
           /\ pass'.view = pass.view /\ pass'.at = pass.at /\ pass'.seen = pass.seen
           /\ \A v \in Units : v # pass.at => state'[v] = state[v]
           /\ state[pass.at] # None /\ state'[pass.at] # None
           /\ state'[pass.at].slot = Other(state[pass.at].slot)
           /\ state'[pass.at].model = state[pass.at].model
           /\ ActiveModel(state'[pass.at]) = OtherModel(state[pass.at])
           /\ OtherModel(state'[pass.at]) = ActiveModel(state[pass.at])
<1>1. /\ pass.pc = "flipping" /\ pass.at \in Units /\ state[pass.at] # None
      /\ state \in [Units -> UnitStates \cup {None}] /\ state[pass.at] \in UnitStates
      /\ pass \in Passes
  BY DEF CommitFlip, IndInv, TypeOK, PassShape
<1>2. PICK u \in Units : u = pass.at
  BY <1>1
<1>3. PICK st \in UnitStates : st = [state[u] EXCEPT !.slot = Other(@), !.window = "open"]
  BY <1>1, <1>2, OtherSlot DEF UnitStates
<1>4. state' = [state EXCEPT ![u] = st]
  <2>1. state' = [state EXCEPT ![u].slot = Other(@), ![u].window = "open"]
    BY <1>2 DEF CommitFlip
  <2> QED BY <1>1, <1>2, <1>3, <2>1
<1>5. st.slot = Other(state[u].slot) /\ st.model = state[u].model /\ st # None
  BY <1>1, <1>2, <1>3, PhaseAssumption DEF UnitStates
<1>6. ActiveModel(st) = OtherModel(state[u]) /\ OtherModel(st) = ActiveModel(state[u])
  BY <1>1, <1>2, <1>5, OtherSlot DEF ActiveModel, OtherModel, UnitStates
<1>7. pass'.pc = "changed" /\ pass'.view = pass.view /\ pass'.at = pass.at /\ pass'.seen = pass.seen
  BY <1>1 DEF CommitFlip, Passes
<1>8. state'[u] = st /\ \A v \in Units : v # u => state'[v] = state[v]
  BY <1>1, <1>4
<1> QED BY <1>1, <1>2, <1>5, <1>6, <1>7, <1>8

\* The last statement of a retire empties the inactive slot, or does nothing.
LEMMA ClearState ==
    ASSUME IndInv, ClearSlot
    PROVE  /\ pass.pc = "clear" /\ pass'.pc \in {"changed", "report"} /\ pass.at \in Units
           /\ pass'.view = pass.view /\ pass'.at = pass.at /\ pass'.seen = pass.seen
           /\ \A v \in Units : v # pass.at => state'[v] = state[v]
           /\ state[pass.at] # None /\ state'[pass.at] # None
           /\ state'[pass.at].slot = state[pass.at].slot
           /\ ActiveModel(state'[pass.at]) = ActiveModel(state[pass.at])
           /\ \/ state' = state
              \/ pass'.pc = "changed" /\ OtherModel(state'[pass.at]) = None
<1> DEFINE slot == Other(pass.seen.slot)
           clear == Clearable(pass.at, slot, pass.view.retire)
<1>1. /\ pass.pc = "clear" /\ pass.at \in Units /\ state[pass.at] # None
      /\ state \in [Units -> UnitStates \cup {None}] /\ state[pass.at] \in UnitStates
      /\ pass \in Passes /\ slot \in Slots
  BY OtherSlot DEF ClearSlot, IndInv, TypeOK, PassShape, UnitStates
<1>2. /\ state' = IF clear THEN [state EXCEPT ![pass.at] = Cleared(@, slot)] ELSE state
      /\ pass' = [pass EXCEPT !.pc = IF clear THEN "changed" ELSE "report"]
  BY DEF ClearSlot
<1>3. (clear => state[pass.at].slot # slot) /\ clear \in BOOLEAN
  BY DEF Clearable
<1> HIDE DEF slot, clear
<1>4. PICK u \in Units : u = pass.at
  BY <1>1
<1>5. /\ pass'.pc = IF clear THEN "changed" ELSE "report"
      /\ pass'.view = pass.view /\ pass'.at = pass.at /\ pass'.seen = pass.seen
  BY <1>1, <1>2 DEF Passes
<1>6. CASE clear
  <2>1. PICK st \in UnitStates : st = [state[u] EXCEPT !.model[slot] = None]
    BY <1>1, <1>4 DEF UnitStates, OptModels
  <2>2. state' = [state EXCEPT ![u] = st]
    BY <1>1, <1>2, <1>4, <1>6, <2>1 DEF Cleared
  <2>3. slot = Other(state[u].slot)
    BY <1>1, <1>3, <1>4, <1>6 DEF UnitStates, Slots, Other
  <2>4. /\ st.slot = state[u].slot /\ st # None
        /\ ActiveModel(st) = ActiveModel(state[u]) /\ OtherModel(st) = None
    BY <1>1, <1>3, <1>4, <1>6, <2>1, <2>3, PhaseAssumption DEF UnitStates, ActiveModel, OtherModel
  <2>5. state'[u] = st /\ \A v \in Units : v # u => state'[v] = state[v]
    BY <1>1, <2>2
  <2> QED BY <1>1, <1>4, <1>5, <1>6, <2>4, <2>5
<1>7. CASE ~clear
  BY <1>1, <1>2, <1>5, <1>7
<1> QED BY <1>3, <1>6, <1>7

\* The end of a rollback window changes nothing else of a state row.
LEMMA CloseState ==
    ASSUME IndInv, NEW u \in Units, CloseWindow(u)
    PROVE  \A v \in Units : /\ state'[v] # None <=> state[v] # None
                            /\ state[v] # None => /\ state'[v].slot = state[v].slot
                                                  /\ state'[v].model = state[v].model
                                                  /\ state'[v].window \in {state[v].window, "closed"}
<1>1. state[u] \in UnitStates /\ state \in [Units -> UnitStates \cup {None}] /\ state[u] # None
  BY DEF CloseWindow, IndInv, TypeOK
<1>2. PICK st \in UnitStates : st = [state[u] EXCEPT !.window = "closed"]
  BY <1>1 DEF UnitStates
<1>3. state' = [state EXCEPT ![u] = st]
  BY <1>1, <1>2 DEF CloseWindow
<1>4. st # None /\ st.slot = state[u].slot /\ st.model = state[u].model /\ st.window = "closed"
  BY <1>1, <1>2, PhaseAssumption DEF UnitStates
<1>5. state'[u] = st /\ \A v \in Units : v # u => state'[v] = state[v]
  BY <1>1, <1>3
<1> QED BY <1>1, <1>4, <1>5

\* The pass goes on with the unit it walks.
Moves ==
    /\ pass.pc \in WalkPCs /\ pass'.pc \in WalkPCs
    /\ pass'.view = pass.view /\ pass'.at = pass.at /\ pass'.seen = pass.seen
    /\ FlipsToCurrent' /\ PageIsOfUnit'
    /\ pass'.pc = "flipping" => pass.pc = "flip" /\ LockFlip
    /\ pass'.pc \in {"retire", "delete", "clear"} => state[pass.at].window # "open"

\* What a pass reads before it flips is what its state row still says.
LEMMA SeenIs ==
    ASSUME IndInv, pass.pc \in WalkPCs
    PROVE  /\ pass.at \in Units /\ state[pass.at] # None /\ pass.seen \in UnitStates /\ pass.view \in Views
           /\ state[pass.at].slot = pass.seen.slot /\ state[pass.at].model = pass.seen.model
           /\ ActiveModel(state[pass.at]) = ActiveModel(pass.seen) /\ ActiveModel(pass.seen) # None
           /\ OtherModel(state[pass.at]) = OtherModel(pass.seen)
           /\ OtherModel(pass.seen) # ActiveModel(pass.seen)
<1>1. /\ pass.at \in Units /\ state[pass.at] # None /\ pass.seen \in UnitStates /\ pass.view \in Views
      /\ state[pass.at].slot = pass.seen.slot /\ state[pass.at].model = pass.seen.model
  BY DEF IndInv, PassShape, SeenIsCurrent, WalkPCs
<1>2. Lawful(state[pass.at])
  BY <1>1 DEF IndInv, StatesLawful, Seeded
<1> QED BY <1>1, <1>2 DEF Lawful, ActiveModel, OtherModel

\* A page that is being sent keeps to the rows of its unit.
LEMMA PageStays ==
    ASSUME IndInv, PageIsOfUnit,
           \/ ReadPage \/ LoseKey \/ Outage \/ Budget \/ EndPage
           \/ \E r \in Rows : StoreRow(r) \/ RefuseRow(r) \/ OmitRow(r)
    PROVE  PageIsOfUnit'
<1>1. FillGoesOn
  BY ReadPageMove, FillEndsMove, SendMove
<1>2. pass \in Passes
  BY DEF IndInv, TypeOK
<1> SUFFICES ASSUME pass'.pc = "send" PROVE pass'.page \subseteq RowsOf(pass.at)
  BY <1>1 DEF PageIsOfUnit, FillGoesOn
<1>3. CASE ReadPage \/ LoseKey
  <2>1. NextPage \subseteq RowsOf(pass.at) /\ PlainRows(NextPage) \subseteq NextPage
    BY DEF NextPage, Lowest, Holes, PendingRows, PlainRows
  <2>2. \A done : EndFill(pass, done).pc = "fill"
    BY <1>2 DEF EndFill, Passes
  <2>3. PICK open \in SUBSET NextPage : \E skipped : pass' = TakePage(NextPage, open, skipped)
    <3>1. CASE ReadPage
      BY <2>1, <2>2, <3>1 DEF ReadPage
    <3>2. CASE LoseKey
      BY <2>1, <3>2 DEF LoseKey
    <3> QED BY <1>3, <3>1, <3>2
  <2>4. pass'.page = open
    BY <1>2, <2>3 DEF TakePage, Passes
  <2> QED BY <2>1, <2>3, <2>4
<1>4. CASE Outage \/ Budget \/ EndPage
  <2>1. EndFill(pass, FALSE).pc = "fill" /\ EndFill(pass, FALSE) \in Passes
    <3>1. pass.jobs # <<>>
      BY <1>4 DEF Outage, Budget, EndPage, IndInv, PassShape
    <3> QED BY <3>1, EndFillType
  <2>2. pass'.pc = "fill"
    <3>1. CASE Outage
      BY <2>1, <3>1 DEF Outage, Passes
    <3>2. CASE Budget
      BY <2>1, <3>2 DEF Budget, Passes
    <3>3. CASE EndPage
      BY <1>2, <2>1, <3>3 DEF EndPage, Passes
    <3> QED BY <1>4, <3>1, <3>2, <3>3
  <2> QED BY <2>2
<1>5. ASSUME NEW r \in Rows, StoreRow(r) \/ RefuseRow(r) \/ OmitRow(r)
      PROVE  pass'.page \subseteq RowsOf(pass.at)
  <2>1. pass.pc = "send"
    BY <1>5 DEF StoreRow, RefuseRow, OmitRow, SendsNext
  <2>2. pass'.page = pass.page \ {r}
    <3>1. CASE StoreRow(r)
      BY <1>2, <3>1 DEF StoreRow, Passes
    <3>2. CASE RefuseRow(r)
      BY <1>2, <3>2 DEF RefuseRow, Passes
    <3>3. CASE OmitRow(r)
      BY <1>2, <3>3 DEF OmitRow, Passes
    <3> QED BY <1>5, <3>1, <3>2, <3>3
  <2> QED BY <2>1, <2>2 DEF PageIsOfUnit
<1> QED BY <1>3, <1>4, <1>5

\* The statements between the count and the report are such moves.
LEMMA MovesOn ==
    ASSUME IndInv, SlotInv,
           \/ CountUnit \/ ReadPage \/ LoseKey \/ Outage \/ Budget \/ EndPage
           \/ \E r \in Rows : StoreRow(r) \/ RefuseRow(r) \/ OmitRow(r)
           \/ EndFills \/ LockFlip \/ TimeOutFlip \/ PassGate \/ RetireRows
    PROVE  Moves
<1>1. CASE CountUnit
  <2>1. PICK pending \in BOOLEAN : pass'.beneath = Phase(pass.at, pass.seen, pass.view, pending)
    BY <1>1, CountMove
  <2>2. /\ pass.pc = "count" /\ pass'.pc = "fill"
        /\ pass'.view = pass.view /\ pass'.at = pass.at /\ pass'.seen = pass.seen
    BY <1>1, CountMove
  <2>3. pass.seen \in UnitStates /\ pass.view \in Views /\ Lawful(pass.seen)
    BY <2>2, SeenIs DEF WalkPCs, Lawful
  <2>4. FlipsToCurrent'
    BY <2>1, <2>2, <2>3, ReadyMeans DEF FlipsToCurrent, OtherModel, ActiveModel
  <2> QED BY <2>2, <2>4 DEF Moves, WalkPCs, PageIsOfUnit
<1>2. CASE \/ ReadPage \/ LoseKey \/ Outage \/ Budget \/ EndPage
           \/ \E r \in Rows : StoreRow(r) \/ RefuseRow(r) \/ OmitRow(r)
  <2>1. FillGoesOn
    BY <1>2, ReadPageMove, FillEndsMove, SendMove
  <2>2. PageIsOfUnit'
    BY <1>2, PageStays DEF SlotInv
  <2>3. FlipsToCurrent'
    BY <2>1 DEF FillGoesOn, SlotInv, FlipsToCurrent, OtherModel, ActiveModel
  <2> QED BY <2>1, <2>2, <2>3 DEF Moves, FillGoesOn, WalkPCs
<1>3. CASE EndFills \/ LockFlip \/ TimeOutFlip \/ PassGate
  <2>1. /\ pass.pc \in {"fill", "flip", "flipping", "retire"}
        /\ pass'.pc \in {"flip", "flipping", "retire", "delete", "report"}
        /\ pass'.view = pass.view /\ pass'.at = pass.at /\ pass'.seen = pass.seen
    BY <1>3, TurnMove
  <2>2. pass \in Passes
    BY DEF IndInv, TypeOK
  <2>3. CASE EndFills
    <3>1. /\ pass'.pc = "flip" => pass.beneath = "ready"
          /\ pass'.pc \notin {"flipping", "delete"}
          /\ pass'.pc = "retire" => MayRetire(pass.at, pass.seen)
          /\ pass.pc = "fill"
      BY <2>2, <2>3 DEF EndFills, Passes
    <3>2. FlipsToCurrent' /\ PageIsOfUnit'
      BY <2>1, <3>1 DEF SlotInv, FlipsToCurrent, PageIsOfUnit, OtherModel, ActiveModel
    <3> QED BY <2>1, <3>1, <3>2 DEF Moves, WalkPCs, MayRetire
  <2>4. CASE LockFlip
    <3>1. pass.pc = "flip" /\ pass'.pc \in {"flipping", "report"}
      BY <2>2, <2>4 DEF LockFlip, Passes
    <3>2. FlipsToCurrent' /\ PageIsOfUnit'
      BY <2>1, <3>1 DEF SlotInv, FlipsToCurrent, PageIsOfUnit, OtherModel, ActiveModel
    <3> QED BY <2>1, <2>4, <3>1, <3>2 DEF Moves, WalkPCs
  <2>5. CASE TimeOutFlip \/ PassGate
    <3>1. \/ pass'.pc = "report"
          \/ pass.pc = "retire" /\ pass'.pc = "delete"
      BY <2>2, <2>5 DEF TimeOutFlip, PassGate, Passes
    <3>2. FlipsToCurrent' /\ PageIsOfUnit'
      BY <3>1 DEF FlipsToCurrent, PageIsOfUnit
    <3> QED BY <2>1, <3>1, <3>2 DEF Moves, WalkPCs, SlotInv, WindowPassed
  <2> QED BY <1>3, <2>3, <2>4, <2>5
<1>4. CASE RetireRows
  <2>1. /\ pass.pc = "delete" /\ pass'.pc \in {"clear", "retire"}
        /\ pass'.view = pass.view /\ pass'.at = pass.at /\ pass'.seen = pass.seen
    BY <1>4 DEF RetireRows, IndInv, TypeOK, Passes
  <2>2. FlipsToCurrent' /\ PageIsOfUnit'
    BY <2>1 DEF FlipsToCurrent, PageIsOfUnit
  <2> QED BY <2>1, <2>2 DEF Moves, WalkPCs, SlotInv, WindowPassed
<1> QED BY <1>1, <1>2, <1>3, <1>4

\* A step that leaves the store's rows and the control row alone, and the pass
\* at a statement where nothing hangs on what it has read, keeps SlotInv.
LEMMA AsideKeeps ==
    ASSUME IndInv, SlotInv,
           UNCHANGED <<kind, vec, intent, env, configured, inflight>>, cmd' \in {cmd, None},
           pass'.pc \in {"idle", "list", "walk", "named", "count", "changed", "report"},
           pass'.pc # "idle" => pass.pc # "idle" /\ pass'.view = pass.view,
           \A u \in Units : state'[u] = None => state[u] = None,
           ActiveIsBuilt'
    PROVE  SlotInv'
<1>1. RowsAreBare' /\ PageIsOfUnit' /\ FlipsToCurrent' /\ FlipStands' /\ WindowPassed'
  BY DEF SlotInv, RowsAreBare, PageIsOfUnit, FlipsToCurrent, FlipStands, WindowPassed
<1>2. AllIsBuilt'
  BY MigrationAssumption DEF SlotInv, AllIsBuilt, ViewIsBuilt
<1>3. ViewIsOfIntent'
  BY DEF SlotInv, ViewIsOfIntent
<1> QED BY <1>1, <1>2, <1>3 DEF SlotInv

\* The units of rows are units.
LEMMA UnitOfRow == ASSUME NEW r \in Rows PROVE UnitOf[r] \in Units
BY MigrationAssumption

\* A move keeps SlotInv, if it touches vectors of units with a state row only.
LEMMA MoveKeeps ==
    ASSUME IndInv, SlotInv, Moves, UNCHANGED <<kind, state, intent, cmd, env, configured, inflight>>,
           RowsAreBare', pass'.pc = "flipping" => vec' = vec,
           \A r \in Rows : state[UnitOf[r]] = None => \A s \in Slots : vec'[r][s] \in {vec[r][s], None}
    PROVE  SlotInv'
<1>1. PageIsOfUnit' /\ FlipsToCurrent' /\ WindowPassed' /\ ActiveIsBuilt'
  BY DEF Moves, SlotInv, WindowPassed, ActiveIsBuilt, Seeded, ActiveModel
<1>2. AllIsBuilt'
  <2>1. pass.pc # "idle" /\ pass'.view = pass.view
    BY DEF Moves, WalkPCs
  <2> QED BY <2>1 DEF SlotInv, AllIsBuilt, ViewIsBuilt
<1>3. ViewIsOfIntent'
  BY DEF Moves, WalkPCs, SlotInv, ViewIsOfIntent
<1>4. FlipStands'
  <2> SUFFICES ASSUME pass'.pc = "flipping" PROVE FlipStands'
    BY DEF FlipStands
  <2>1. /\ pass.pc = "flip" /\ LockFlip /\ vec' = vec
        /\ pass'.view = pass.view /\ pass'.at = pass.at /\ pass'.seen = pass.seen
    BY DEF Moves
  <2>2. /\ pass.seen \in UnitStates /\ pass.view \in Views /\ ActiveModel(pass.seen) # None
    BY <2>1, SeenIs DEF WalkPCs
  <2>3. OtherModel(pass.seen) = pass.view.current /\ ActiveModel(pass.seen) = pass.view.previous
    BY <2>1 DEF SlotInv, FlipsToCurrent
  <2>4. Target(pass.seen, pass.view) = OtherModel(pass.seen)
    BY <2>2, <2>3 DEF Target
  <2>5. pass \in Passes
    BY DEF IndInv, TypeOK
  <2>6. FlipAllowed(pass.at, pass.seen, Target(pass.seen, pass.view))
    BY <2>1, <2>5 DEF LockFlip, Passes
  <2>7. pass'.read = RowsOf(pass.at) \cap {r \in Rows : Eligible(r)}
    BY <2>1, <2>5 DEF LockFlip, Passes
  <2>8. \A r \in RowsOf(pass.at) : Eligible(r) => vec[r][Other(pass.seen.slot)] = OtherModel(pass.seen)
    BY <2>4, <2>6 DEF FlipAllowed, PendingRows, Pending
  <2>9. \A r \in pass'.read : kind[r] # "absent"
    BY <2>7 DEF Eligible
  <2>10. intent.gen = pass.view.gen
    BY <2>6 DEF FlipAllowed
  <2> QED BY <2>1, <2>8, <2>9, <2>10 DEF FlipStands, Eligible
<1> QED BY <1>1, <1>2, <1>3, <1>4 DEF SlotInv

\* The moves that touch no vector.
LEMMA MovesKeep ==
    ASSUME IndInv, SlotInv,
           \/ CountUnit \/ ReadPage \/ LoseKey \/ Outage \/ Budget \/ EndPage
           \/ \E r \in Rows : RefuseRow(r) \/ OmitRow(r)
           \/ EndFills \/ LockFlip \/ TimeOutFlip \/ PassGate
    PROVE  SlotInv'
<1>1. Moves
  BY MovesOn
<1>2. UNCHANGED <<store, control, server, inflight>>
  BY DEF CountUnit, ReadPage, LoseKey, Outage, Budget, EndPage, RefuseRow, OmitRow, EndFills,
     LockFlip, TimeOutFlip, PassGate
<1>3. RowsAreBare'
  BY <1>2 DEF SlotInv, RowsAreBare, store, server
<1> QED BY <1>1, <1>2, <1>3, MoveKeeps DEF store, control, server

\* A vector that is stored lands in a row that may have one.
LEMMA StoreKeeps == ASSUME IndInv, SlotInv, NEW r \in Rows, StoreRow(r) PROVE SlotInv'
<1> DEFINE job == Head(pass.jobs)
<1>1. Moves
  BY MovesOn
<1>2. /\ pass.pc = "send" /\ r \in pass.page
      /\ vec' = IF StoreLands(r, job) THEN [vec EXCEPT ![r][job.slot] = job.model] ELSE vec
      /\ UNCHANGED <<kind, state, control, server, inflight>>
  BY DEF StoreRow, SendsNext
<1>3. r \in RowsOf(pass.at) /\ pass.at \in Units /\ state[pass.at] # None
  BY <1>2, SeenIs DEF WalkPCs, SlotInv, PageIsOfUnit
<1>4. StoreLands(r, job) => kind[r] \in {"plain", "private"}
  BY DEF StoreLands, Pending, Eligible
<1>5. vec \in [Rows -> [Slots -> OptModels]]
  BY DEF IndInv, TypeOK
<1>6. \A q \in Rows : vec'[q] # vec[q] => q = r /\ kind[r] \in {"plain", "private"}
  BY <1>2, <1>4, <1>5
<1>7. RowsAreBare'
  BY <1>2, <1>6 DEF SlotInv, RowsAreBare, server
<1>8. pass'.pc # "flipping"
  BY <1>1, <1>2 DEF Moves
<1>9. \A q \in Rows : state[UnitOf[q]] = None => vec'[q] = vec[q]
  BY <1>3, <1>6 DEF RowsOf
<1> QED BY <1>1, <1>2, <1>7, <1>8, <1>9, MoveKeeps DEF control, server

\* A retire batch takes vectors away.
LEMMA RetireKeeps == ASSUME IndInv, SlotInv, RetireRows PROVE SlotInv'
<1>1. Moves
  BY MovesOn
<1>2. PICK batch \in SUBSET Rows :
        vec' = [r \in Rows |-> IF r \in batch
                 THEN [vec[r] EXCEPT ![Other(pass.seen.slot)] = None] ELSE vec[r]]
  BY DEF RetireRows, Lowest, RowsOf
<1>3. pass.pc = "delete" /\ UNCHANGED <<kind, state, control, server, inflight>>
  BY DEF RetireRows
<1>4. vec \in [Rows -> [Slots -> OptModels]]
  BY DEF IndInv, TypeOK
<1>5. \A r \in Rows : \A s \in Slots : vec'[r][s] \in {vec[r][s], None}
  BY <1>2, <1>4
<1>6. vec' \in [Rows -> [Slots -> OptModels]]
  BY <1>2, <1>4 DEF OptModels
<1>7. \A r \in Rows : vec[r] = NoVectors => vec'[r] = NoVectors
  BY <1>4, <1>5, <1>6 DEF NoVectors
<1>8. RowsAreBare'
  BY <1>3, <1>7 DEF SlotInv, RowsAreBare, server
<1>9. pass'.pc # "flipping"
  BY <1>1, <1>3 DEF Moves
<1> QED BY <1>1, <1>3, <1>5, <1>8, <1>9, MoveKeeps DEF control, server

\* The ends of a pass, and the walk of a unit around its statements.
LEMMA EndsKeep ==
    ASSUME IndInv, SlotInv,
           \/ BeginPassWithoutView \/ EndPass \/ StopAtGate \/ StopPass
           \/ Reload \/ ReportUnit \/ \E u \in Units : SkipUnit(u)
    PROVE  SlotInv'
<1>1. UNCHANGED <<store, intent, env, configured, inflight, cmd>>
  BY DEF BeginPassWithoutView, EndPass, StopAtGate, StopPass, Finish, Reload, ReportUnit, SkipUnit,
     control, server
<1>2. pass \in Passes
  BY DEF IndInv, TypeOK
<1>3. /\ pass'.pc \in {"idle", "walk", "count", "report"}
      /\ pass'.pc # "idle" => pass.pc # "idle" /\ pass'.view = pass.view
  <2>1. CASE BeginPassWithoutView \/ EndPass \/ StopAtGate \/ StopPass
    BY <2>1, IdleType DEF BeginPassWithoutView, EndPass, StopAtGate, StopPass, Finish
  <2>2. CASE Reload \/ ReportUnit
    BY <1>2, <2>2, IdleType DEF Reload, ReportUnit, Passes
  <2>3. ASSUME NEW u \in Units, SkipUnit(u)
        PROVE pass'.pc = "walk" /\ pass.pc = "walk" /\ pass'.view = pass.view
    BY <1>2, <2>3 DEF SkipUnit, Passes
  <2> QED BY <2>1, <2>2, <2>3
<1>4. ActiveIsBuilt'
  BY <1>1 DEF SlotInv, ActiveIsBuilt, Seeded, ActiveModel, store
<1> QED BY <1>1, <1>3, <1>4, AsideKeeps DEF store

\* The models of a view are those of the blocks, if the default unit's is.
LEMMA ViewsAreBuilt ==
    ASSUME IndInv, NEW e \in Envs, NEW st,
           st[DefaultUnit] # None => ActiveModel(st[DefaultUnit]) \in Ids(e.blocks),
           NEW v \in ViewsFrom(e, st)
    PROVE  /\ v.current \in Ids(e.blocks) /\ v.previous \in Ids(e.blocks) \cup {None}
           /\ Mode = "command" => /\ v.gen = intent.gen
                                  /\ v.previous # None => intent.retire = None
<1> DEFINE active == IF st[DefaultUnit] = None THEN None ELSE ActiveModel(st[DefaultUnit])
<1>1. e.blocks \in BlockLists /\ intent \in Intents
  BY DEF Envs, IndInv, TypeOK
<1>2. e.blocks[1] \in Ids(e.blocks) /\ (Len(e.blocks) = 2 => e.blocks[2] \in Ids(e.blocks))
  BY <1>1 DEF BlockLists, Ids
<1>3. CASE Mode = "env"
  BY <1>2, <1>3 DEF ViewsFrom, EnvView
<1>4. CASE Mode # "env"
  <2>1. v \in ConfiguredFromIntent(intent, e.blocks, active)
    BY <1>4 DEF ViewsFrom
  <2>2. active \in Ids(e.blocks) \cup {None}
    OBVIOUS
  <2> HIDE DEF active
  <2>3. CASE intent.target = None
    BY <1>2, <2>1, <2>2, <2>3 DEF ConfiguredFromIntent
  <2>4. CASE intent.target # None /\ intent.retire # None
    BY <2>1, <2>4 DEF ConfiguredFromIntent
  <2>5. CASE intent.target # None /\ intent.retire = None
    BY <2>1, <2>5 DEF ConfiguredFromIntent
  <2> QED BY <2>3, <2>4, <2>5
<1> QED BY <1>3, <1>4

\* A pass begins on a view of the blocks.
LEMMA BeginKeeps == ASSUME IndInv, SlotInv, BeginPass PROVE SlotInv'
<1>1. PICK v \in ViewsFrom(env, state) :
        configured' = v /\ pass' = [Idle EXCEPT !.pc = "list", !.view = v]
  BY DEF BeginPass
<1>2. env # None /\ UNCHANGED <<store, control, env, inflight>>
  BY DEF BeginPass
<1>3. env \in Envs /\ state \in [Units -> UnitStates \cup {None}]
  BY <1>2 DEF IndInv, TypeOK
<1>4. state[DefaultUnit] # None => ActiveModel(state[DefaultUnit]) \in Ids(env.blocks)
  BY <1>2, PhaseAssumption DEF SlotInv, ActiveIsBuilt, Seeded
<1>5. /\ ViewIsBuilt(v)
      /\ Mode = "command" => v.gen = intent.gen /\ (v.previous # None => intent.retire = None)
  BY <1>1, <1>3, <1>4, ViewsAreBuilt DEF ViewIsBuilt
<1>6. v \in Views
  BY <1>1, <1>3, ViewsFromType DEF IndInv, StatesLawful, Seeded
<1>7. pass'.pc = "list" /\ pass'.view = v
  BY <1>1, <1>6, IdleType DEF Passes
<1>8. RowsAreBare' /\ PageIsOfUnit' /\ FlipsToCurrent' /\ FlipStands' /\ WindowPassed' /\ ActiveIsBuilt'
  BY <1>2, <1>7 DEF SlotInv, RowsAreBare, PageIsOfUnit, FlipsToCurrent, FlipStands, WindowPassed,
     ActiveIsBuilt, Seeded, ActiveModel, store
<1>9. AllIsBuilt'
  BY <1>1, <1>2, <1>5, <1>7 DEF SlotInv, AllIsBuilt, ViewIsBuilt, store
<1>10. ViewIsOfIntent'
  BY <1>2, <1>5, <1>6, <1>7 DEF SlotInv, ViewIsOfIntent, control, Views
<1> QED BY <1>8, <1>9, <1>10 DEF SlotInv

\* A unit is seeded with a model of the blocks.
LEMMA ListKeeps == ASSUME IndInv, SlotInv, ListUnits PROVE SlotInv'
<1>1. PICK walk : state' = SeedUnits(walk) /\ pass' = [pass EXCEPT !.pc = "walk", !.todo = walk]
  BY DEF ListUnits
<1>2. pass.pc = "list" /\ UNCHANGED <<kind, vec, control, env, configured, inflight>>
  BY DEF ListUnits
<1>3. pass'.pc = "walk" /\ pass'.view = pass.view
  BY <1>1 DEF IndInv, TypeOK, Passes
<1>4. \A u \in Units : \/ state'[u] = state[u]
                       \/ state[u] = None /\ HoldsVectors(u) /\ state'[u] = SeedPlan(u)
  BY <1>1, SeedUnitsIs DEF IndInv
<1>5. ASSUME NEW u \in Units, state'[u] # None, env # None PROVE ActiveModel(state'[u]) \in Ids(env.blocks)
  <2>1. CASE state'[u] = state[u]
    BY <1>5, <2>1 DEF SlotInv, ActiveIsBuilt, Seeded
  <2>2. CASE state[u] = None /\ HoldsVectors(u) /\ state'[u] = SeedPlan(u)
    <3>1. /\ SeedPlan(u) \in UnitStates /\ ActiveModel(SeedPlan(u)) # None
          /\ \A s \in Slots : SeedPlan(u).model[s] # None =>
                 \E r \in RowsOf(u) : vec[r][s] = SeedPlan(u).model[s]
      BY <2>2, SeedPlanIs DEF IndInv, Lawful
    <3>2. PICK r \in RowsOf(u) : vec[r][SeedPlan(u).slot] = ActiveModel(SeedPlan(u))
      BY <3>1 DEF UnitStates, ActiveModel
    <3>3. vec[r][SeedPlan(u).slot] \in Ids(env.blocks) \cup {None}
      BY <1>5, <2>2, <3>1 DEF SlotInv, AllIsBuilt, RowsOf, UnitStates
    <3> QED BY <2>2, <3>1, <3>2, <3>3
  <2> QED BY <1>4, <2>1, <2>2
<1>6. ActiveIsBuilt'
  BY <1>2, <1>5 DEF ActiveIsBuilt, Seeded
<1>7. \A u \in Units : state'[u] = None => state[u] = None
  BY <1>4
<1> QED BY <1>2, <1>3, <1>6, <1>7, AsideKeeps DEF control

\* A name, a flip or a clear of a slot: the model that a flip makes active is
\* the current one, which is built.
LEMMA SlotsKeep ==
    ASSUME IndInv, SlotInv, CommitFlip \/ ClearSlot \/ \E u \in Units : WalkUnit(u)
    PROVE  SlotInv'
<1>1. UNCHANGED <<kind, vec, control, server, inflight>>
  BY DEF CommitFlip, ClearSlot, WalkUnit
<1>2. /\ pass'.pc \in {"named", "count", "changed", "report"} /\ pass'.view = pass.view
      /\ pass.pc # "idle"
  BY WalkState, FlipState, ClearState
<1>3. \A u \in Units : state'[u] = None => state[u] = None
  BY WalkState, FlipState, ClearState
<1>4. ASSUME NEW u \in Units, env # None, state'[u] # None PROVE ActiveModel(state'[u]) \in Ids(env.blocks)
  <2>1. CASE state[u] # None /\ ActiveModel(state'[u]) = ActiveModel(state[u])
    BY <1>4, <2>1 DEF SlotInv, ActiveIsBuilt, Seeded
  <2>2. CASE CommitFlip
    <3>1. /\ pass.pc = "flipping" /\ ActiveModel(state'[pass.at]) = OtherModel(state[pass.at])
          /\ \A v \in Units : v # pass.at => state'[v] = state[v]
      BY <2>2, FlipState
    <3>2. OtherModel(state[pass.at]) = pass.view.current
      BY <3>1, SeenIs DEF WalkPCs, SlotInv, FlipsToCurrent
    <3>3. pass.view.current \in Ids(env.blocks)
      BY <1>4, <3>1 DEF SlotInv, AllIsBuilt, ViewIsBuilt
    <3>4. CASE u = pass.at
      BY <3>1, <3>2, <3>3, <3>4
    <3>5. CASE u # pass.at
      BY <1>4, <2>1, <3>1, <3>5
    <3> QED BY <3>4, <3>5
  <2>3. CASE ClearSlot
    BY <1>4, <2>1, <2>3, ClearState
  <2>4. ASSUME NEW w \in Units, WalkUnit(w)
        PROVE state[u] # None /\ ActiveModel(state'[u]) = ActiveModel(state[u])
    BY <1>4, <2>4, WalkState
  <2> QED BY <2>1, <2>2, <2>3, <2>4
<1>5. ActiveIsBuilt'
  BY <1>1, <1>4 DEF ActiveIsBuilt, Seeded, server
<1> QED BY <1>1, <1>2, <1>3, <1>5, AsideKeeps DEF control, server

\* The end of a rollback window.
LEMMA WindowKeeps == ASSUME IndInv, SlotInv, NEW u \in Units, CloseWindow(u) PROVE SlotInv'
<1>1. UNCHANGED <<kind, vec, control, server, inflight, pass>>
  BY DEF CloseWindow
<1>2. \A v \in Units : /\ state'[v] # None <=> state[v] # None
                       /\ state[v] # None => /\ ActiveModel(state'[v]) = ActiveModel(state[v])
                                             /\ state'[v].window \in {state[v].window, "closed"}
  BY CloseState DEF ActiveModel
<1>3. RowsAreBare' /\ PageIsOfUnit' /\ FlipsToCurrent' /\ FlipStands' /\ ViewIsOfIntent'
  BY <1>1 DEF SlotInv, RowsAreBare, PageIsOfUnit, FlipsToCurrent, FlipStands, ViewIsOfIntent,
     Eligible, control, server
<1>4. ActiveIsBuilt'
  BY <1>1, <1>2 DEF SlotInv, ActiveIsBuilt, Seeded, server
<1>5. AllIsBuilt'
  BY <1>1, <1>2, UnitOfRow DEF SlotInv, AllIsBuilt, ViewIsBuilt, server
<1>6. WindowPassed'
  <2> SUFFICES ASSUME pass.pc \in {"retire", "delete", "clear"} PROVE state'[pass.at].window # "open"
    BY <1>1 DEF WindowPassed
  <2>1. pass.at \in Units /\ state[pass.at] # None
    BY SeenIs DEF WalkPCs
  <2> QED BY <1>2, <2>1 DEF SlotInv, WindowPassed
<1> QED BY <1>3, <1>4, <1>5, <1>6 DEF SlotInv

\* A crash, and the boots.
LEMMA BootsKeep ==
    ASSUME IndInv, SlotInv, Crash \/ \E e \in Configs : Boot(e) \/ RefuseBoot(e)
    PROVE  SlotInv'
<1>1. kind' = kind /\ vec' = vec /\ UNCHANGED control
  BY DEF Crash, Boot, RefuseBoot, store
<1>2. pass'.pc = "idle"
  BY IdleType DEF Crash, Boot, RefuseBoot, IndInv, PassShape
<1>3. PageIsOfUnit' /\ FlipsToCurrent' /\ FlipStands' /\ WindowPassed' /\ ViewIsOfIntent'
  BY <1>1, <1>2 DEF SlotInv, PageIsOfUnit, FlipsToCurrent, FlipStands, WindowPassed, ViewIsOfIntent,
     control
<1>4. CASE Crash
  <2>1. env' = None /\ \A r \in Rows : inflight'[r] = None
    BY <1>4 DEF Crash
  <2> QED BY <1>1, <1>3, <2>1 DEF SlotInv, RowsAreBare, ActiveIsBuilt, AllIsBuilt
<1>5. ASSUME NEW e \in Configs, RefuseBoot(e) PROVE SlotInv'
  BY <1>1, <1>3, <1>5 DEF RefuseBoot, SlotInv, RowsAreBare, ActiveIsBuilt, AllIsBuilt, server
<1>6. ASSUME NEW e \in Configs, Boot(e) PROVE SlotInv'
  <2> DEFINE seeded == SeedUnits(Units)
  <2>1. PICK v \in ViewsFrom(e, seeded) : BootCheck(seeded, v, e.blocks) /\ configured' = v
    BY <1>6 DEF Boot
  <2>2. env = None /\ env' = e /\ state' = seeded /\ inflight' = inflight
    BY <1>6 DEF Boot
  <2>3. e \in Envs
    BY MigrationAssumption
  <2>4. \A u \in Seeded(seeded) : ActiveModel(seeded[u]) \in Ids(e.blocks)
    BY <2>1 DEF BootCheck, Actives
  <2>5. /\ seeded \in [Units -> UnitStates \cup {None}]
        /\ \A u \in Units : seeded[u] # None => Lawful(seeded[u])
    BY SeedUnitsLawful DEF IndInv
  <2>6. \A u \in Units : seeded[u] = None => \A r \in RowsOf(u) : vec[r] = NoVectors
    BY SeedUnitsIs, PhaseAssumption, SeedPlanIs DEF IndInv, HoldsVectors
  <2> HIDE DEF seeded
  <2>7. v.current \in Ids(e.blocks) /\ v.previous \in Ids(e.blocks) \cup {None}
    BY <2>1, <2>3, <2>4, ViewsAreBuilt, PhaseAssumption DEF Seeded
  <2>8. \A r \in Rows : inflight[r] = None
    BY <2>2 DEF SlotInv, RowsAreBare
  <2>9. ActiveIsBuilt' /\ RowsAreBare'
    BY <1>1, <1>6, <2>2, <2>4, <2>8 DEF ActiveIsBuilt, SlotInv, RowsAreBare
  <2>10. AllIsBuilt'
    <3>1. \A r \in Rows : seeded[UnitOf[r]] = None => vec[r] = NoVectors
      BY <2>6, UnitOfRow DEF RowsOf
    <3> QED BY <1>1, <1>2, <2>1, <2>2, <2>7, <2>8, <3>1 DEF AllIsBuilt, ViewIsBuilt, NoVectors
  <2> QED BY <1>3, <2>9, <2>10 DEF SlotInv
<1> QED BY <1>4, <1>5, <1>6

\* A command writes no more than the control row, and none while a flip holds it.
LEMMA CommandKeeps ==
    ASSUME IndInv, SlotInv,
           \/ \E verb \in Verbs, e \in Typed : ReadStatus(verb, e)
           \/ ChangeIntent \/ RefuseCommand
    PROVE  SlotInv'
<1>1. UNCHANGED <<store, published, server, inflight, pass>>
  BY DEF ReadStatus, ChangeIntent, RefuseCommand
<1>2. RowsAreBare' /\ PageIsOfUnit' /\ FlipsToCurrent' /\ AllIsBuilt' /\ ActiveIsBuilt' /\ WindowPassed'
  BY <1>1 DEF SlotInv, RowsAreBare, PageIsOfUnit, FlipsToCurrent, AllIsBuilt, ViewIsBuilt,
     ActiveIsBuilt, Seeded, ActiveModel, WindowPassed, store, server
<1>3. CASE ChangeIntent
  <2>1. cmd # None /\ cmd' = None /\ pass.pc # "flipping"
    BY <1>3 DEF ChangeIntent
  <2>2. intent'.gen = intent.gen + 1 /\ intent.gen \in Nat
    BY <1>3 DEF ChangeIntent, IndInv, TypeOK, Intents
  <2>3. FlipStands'
    BY <1>1, <2>1 DEF FlipStands
  <2>4. Mode # "env"
    BY <2>1 DEF SlotInv, ViewIsOfIntent
  <2>5. pass.pc # "idle" => pass.view.gen \in Nat
    BY DEF IndInv, PassShape, Views
  <2>6. ViewIsOfIntent'
    BY <1>1, <2>2, <2>4, <2>5 DEF SlotInv, ViewIsOfIntent
  <2> QED BY <1>2, <2>3, <2>6 DEF SlotInv
<1>4. CASE RefuseCommand \/ \E verb \in Verbs, e \in Typed : ReadStatus(verb, e)
  <2>1. intent' = intent /\ (cmd' = None \/ Mode = "command")
    BY <1>4 DEF RefuseCommand, ReadStatus
  <2>2. FlipStands' /\ ViewIsOfIntent'
    BY <1>1, <2>1 DEF SlotInv, FlipStands, ViewIsOfIntent, Eligible, store
  <2> QED BY <1>2, <2>2 DEF SlotInv
<1> QED BY <1>3, <1>4

\* A write resolves to models that are built.
LEMMA StartKeeps ==
    ASSUME IndInv, SlotInv, NEW r \in Rows, NEW k \in RowKinds, StartWrite(r, k)
    PROVE  SlotInv'
<1>1. PICK ue \in ForUnit(cache[UnitOf[r]], configured, Ids(env.blocks)) :
        \E second \in {ue.second, None} :
            inflight' = [inflight EXCEPT ![r] =
                  [slot |-> ue.slot, active |-> ue.active, second |-> second, kind |-> k]]
  BY DEF StartWrite
<1>2. env # None /\ kind[r] = "absent" /\ UNCHANGED <<store, control, server, pass>>
  BY DEF StartWrite
<1>3. ue.active \in Ids(env.blocks) /\ ue.second \in Ids(env.blocks) \cup {None}
  BY <1>1 DEF ForUnit
<1>4. /\ \A q \in Rows : q # r => inflight'[q] = inflight[q]
      /\ inflight'[r].active \in Ids(env.blocks) /\ inflight'[r].second \in Ids(env.blocks) \cup {None}
  BY <1>1, <1>3 DEF IndInv, TypeOK
<1>5. RowsAreBare'
  BY <1>2, <1>4 DEF SlotInv, RowsAreBare, store, server
<1>6. AllIsBuilt'
  BY <1>2, <1>4 DEF SlotInv, AllIsBuilt, ViewIsBuilt, store, server
<1>7. PageIsOfUnit' /\ FlipsToCurrent' /\ ActiveIsBuilt' /\ FlipStands' /\ WindowPassed' /\ ViewIsOfIntent'
  BY <1>2 DEF SlotInv, PageIsOfUnit, FlipsToCurrent, ActiveIsBuilt, Seeded, ActiveModel, FlipStands,
     Eligible, WindowPassed, ViewIsOfIntent, store, control, server
<1> QED BY <1>5, <1>6, <1>7 DEF SlotInv

\* A write that commits, or a forget, changes one row, and none that a flip
\* under way has counted but to forget it.
LEMMA RowsKeep ==
    ASSUME IndInv, SlotInv, NEW r \in Rows, CommitWrite(r) \/ Forget(r)
    PROVE  SlotInv'
<1>1. UNCHANGED <<state, control, server, pass>>
  BY DEF CommitWrite, Forget
<1>2. /\ kind \in [Rows -> {"absent", "plain", "private", "gone"}]
      /\ vec \in [Rows -> [Slots -> OptModels]]
      /\ inflight \in [Rows -> Writes \cup {None}]
  BY DEF IndInv, TypeOK
<1>3. \A q \in Rows : q # r => kind'[q] = kind[q] /\ vec'[q] = vec[q] /\ inflight'[q] = inflight[q]
  BY <1>2 DEF CommitWrite, Forget
<1>4. CASE CommitWrite(r)
  <2>1. inflight[r] \in Writes /\ inflight'[r] = None /\ kind[r] = "absent" /\ env # None
    BY <1>2, <1>4 DEF CommitWrite, SlotInv, RowsAreBare
  <2>2. kind'[r] \in {"plain", "private"} /\ vec'[r] = SlotBinds(inflight[r])
    BY <1>2, <1>4, <2>1 DEF CommitWrite, Writes
  <2>3. \A s \in Slots : vec'[r][s] \in Ids(env.blocks) \cup {None}
    <3>1. inflight[r] # None
      BY <1>4 DEF CommitWrite
    <3>2. inflight[r].active \in Ids(env.blocks) /\ inflight[r].second \in Ids(env.blocks) \cup {None}
      BY <2>1, <3>1 DEF SlotInv, AllIsBuilt
    <3> QED BY <2>2, <3>2 DEF SlotBinds
  <2>4. RowsAreBare'
    BY <1>1, <1>3, <2>1, <2>2 DEF SlotInv, RowsAreBare, server
  <2>5. AllIsBuilt'
    BY <1>1, <1>3, <2>1, <2>3 DEF SlotInv, AllIsBuilt, ViewIsBuilt, server
  <2>6. FlipStands'
    BY <1>1, <1>3, <2>1 DEF SlotInv, FlipStands, Eligible, RowsOf, control
  <2> QED BY <1>1, <2>4, <2>5, <2>6 DEF SlotInv, PageIsOfUnit, FlipsToCurrent, ActiveIsBuilt,
             Seeded, ActiveModel, WindowPassed, ViewIsOfIntent, control, server
<1>5. CASE Forget(r)
  <2>1. inflight' = inflight /\ kind[r] \in {"plain", "private"} /\ kind'[r] = "gone" /\ vec'[r] = NoVectors
    BY <1>2, <1>5 DEF Forget
  <2>2. RowsAreBare'
    BY <1>1, <1>3, <2>1 DEF SlotInv, RowsAreBare, server
  <2>3. AllIsBuilt'
    <3>1. \A s \in Slots : vec'[r][s] = None
      BY <2>1 DEF NoVectors
    <3> QED BY <1>1, <1>3, <2>1, <3>1 DEF SlotInv, AllIsBuilt, ViewIsBuilt, server
  <2>4. FlipStands'
    BY <1>1, <1>3, <2>1 DEF SlotInv, FlipStands, Eligible, RowsOf, control
  <2> QED BY <1>1, <2>2, <2>3, <2>4 DEF SlotInv, PageIsOfUnit, FlipsToCurrent, ActiveIsBuilt,
             Seeded, ActiveModel, WindowPassed, ViewIsOfIntent, control, server
<1> QED BY <1>4, <1>5

\* The store of a server that never migrated.
LEMMA InitSlots == Init => SlotInv
<1> SUFFICES ASSUME Init PROVE SlotInv
  OBVIOUS
<1>1. pass.pc = "idle" /\ env = None /\ \A r \in Rows : inflight[r] = None
  BY IdleType DEF Init
<1>2. \A r \in Rows : kind[r] # "gone"
  BY MigrationAssumption DEF Init
<1>3. \A r \in Rows : kind[r] = "absent" => vec[r] = NoVectors
  BY DEF Init, NoVectors
<1>4. RowsAreBare
  BY <1>1, <1>2, <1>3 DEF RowsAreBare
<1>5. \A u \in Units : state[u] = None
  BY DEF Init
<1> QED BY <1>1, <1>4, <1>5 DEF Init, SlotInv, PageIsOfUnit, FlipsToCurrent, AllIsBuilt, ActiveIsBuilt,
           FlipStands, WindowPassed, ViewIsOfIntent

\* Every action keeps SlotInv.
LEMMA NextSlots == IndInv /\ SlotInv /\ [Next]_vars => SlotInv'
<1> SUFFICES ASSUME IndInv, SlotInv, [Next]_vars PROVE SlotInv'
  OBVIOUS
<1>1. CASE Sweep
  BY <1>1, BeginKeeps, EndsKeep, ListKeeps, SlotsKeep, MovesKeep, StoreKeeps, RetireKeeps DEF Sweep
<1>2. CASE Faulty
  BY <1>2, MovesKeep, EndsKeep, BootsKeep DEF Faulty
<1>3. CASE Operator
  BY <1>3, BootsKeep, CommandKeeps, WindowKeeps DEF Operator
<1>4. CASE Writer
  BY <1>4, StartKeeps, RowsKeep DEF Writer
<1>5. CASE UNCHANGED vars
  BY <1>5 DEF vars, SlotInv, RowsAreBare, PageIsOfUnit, FlipsToCurrent, AllIsBuilt, ViewIsBuilt,
     ActiveIsBuilt, Seeded, ActiveModel, FlipStands, Eligible, WindowPassed, ViewIsOfIntent
<1> QED BY <1>1, <1>2, <1>3, <1>4, <1>5 DEF Next

\* SlotInv is inductive beside IndInv.
THEOREM SlotsInductive == Spec => []SlotInv
BY InitSlots, NextSlots, Inductive, PTL DEF Spec

\* No unit ever serves a model that the running server has no embedder for,
\* whatever boots on whatever .env files, flips and seeds made it active.
THEOREM ServedIsBuilt == Spec => []ActiveIsBuilt
<1>1. SlotInv => ActiveIsBuilt
  BY DEF SlotInv
<1> QED BY <1>1, SlotsInductive, PTL

\* The actions that write a vector.
LEMMA VecWriters ==
    ASSUME [Next]_vars, vec' # vec
    PROVE  RetireRows \/ \E r \in Rows : StoreRow(r) \/ CommitWrite(r) \/ Forget(r)
<1>1. CASE Sweep
  BY <1>1 DEF Sweep, BeginPass, BeginPassWithoutView, ListUnits, WalkUnit, SkipUnit, Reload, CountUnit,
     ReadPage, EndPage, EndFills, LockFlip, CommitFlip, PassGate, ClearSlot, ReportUnit, EndPass,
     StopAtGate, store
<1>2. CASE Faulty
  BY <1>2 DEF Faulty, LoseKey, Outage, Budget, TimeOutFlip, StopPass, Crash, RefuseRow, OmitRow,
     store
<1>3. CASE Operator
  BY <1>3 DEF Operator, Boot, RefuseBoot, CloseWindow, ReadStatus, ChangeIntent, RefuseCommand, store
<1>4. CASE Writer
  BY <1>4 DEF Writer, StartWrite, store
<1>5. CASE UNCHANGED vars
  BY <1>5 DEF vars
<1> QED BY <1>1, <1>2, <1>3, <1>4, <1>5 DEF Next

\* The sweep deletes vectors only from an inactive slot whose rollback window is
\* not open: the recount before a retire stands until its last batch.
THEOREM RetireIsLate == Spec => RetireWaits
<1> DEFINE Waits ==
        \A r \in Rows : \A s \in Slots :
          vec[r][s] # None /\ vec'[r][s] = None /\ kind'[r] # "gone" =>
              /\ state[UnitOf[r]].slot # s
              /\ state[UnitOf[r]].window # "open"
<1>1. ASSUME IndInv, SlotInv, [Next]_vars PROVE Waits
  <2> SUFFICES ASSUME NEW r \in Rows, NEW s \in Slots,
                      vec[r][s] # None, vec'[r][s] = None, kind'[r] # "gone"
               PROVE  state[UnitOf[r]].slot # s /\ state[UnitOf[r]].window # "open"
    OBVIOUS
  <2>1. vec \in [Rows -> [Slots -> OptModels]] /\ inflight \in [Rows -> Writes \cup {None}]
        /\ kind \in [Rows -> {"absent", "plain", "private", "gone"}]
    BY <1>1 DEF IndInv, TypeOK
  <2>2. ASSUME NEW q \in Rows, StoreRow(q) PROVE FALSE
    <3>1. Head(pass.jobs).model \in Models
      BY <1>1, <2>2, HeadJob DEF StoreRow, SendsNext, IndInv, PassShape, Jobs
    <3> QED BY <2>1, <2>2, <3>1, PhaseAssumption DEF StoreRow
  <2>3. ASSUME NEW q \in Rows, CommitWrite(q) PROVE FALSE
    <3>1. vec[q] = NoVectors
      BY <1>1, <2>3 DEF CommitWrite, SlotInv, RowsAreBare
    <3>2. CASE q = r
      BY <3>1, <3>2 DEF NoVectors
    <3>3. CASE q # r
      BY <2>1, <2>3, <3>3 DEF CommitWrite
    <3> QED BY <3>2, <3>3
  <2>4. ASSUME NEW q \in Rows, Forget(q) PROVE FALSE
    BY <2>1, <2>4 DEF Forget
  <2>5. CASE RetireRows
    <3> DEFINE slot  == Other(pass.seen.slot)
               found == {q \in RowsOf(pass.at) : vec[q][slot] = pass.view.retire}
               batch == IF state[pass.at].slot # slot THEN Lowest(found, RetireBatch) ELSE {}
    <3>1. /\ pass.pc = "delete"
          /\ vec' = [q \in Rows |-> IF q \in batch THEN [vec[q] EXCEPT ![slot] = None] ELSE vec[q]]
      BY <2>5 DEF RetireRows
    <3>2. batch \subseteq RowsOf(pass.at) /\ (batch # {} => state[pass.at].slot # slot)
      BY DEF Lowest
    <3> HIDE DEF batch, slot
    <3>3. r \in batch /\ s = slot
      BY <2>1, <3>1
    <3>4. UnitOf[r] = pass.at /\ state[pass.at].slot # s
      BY <3>2, <3>3 DEF RowsOf
    <3> QED BY <1>1, <3>1, <3>4 DEF SlotInv, WindowPassed
  <2>6. vec' # vec
    OBVIOUS
  <2> QED BY <1>1, <2>2, <2>3, <2>4, <2>5, <2>6, VecWriters
<1>2. IndInv /\ SlotInv /\ [Next]_vars => [Waits]_vars
  BY <1>1
<1> QED BY <1>2, Inductive, SlotsInductive, PTL DEF Spec, RetireWaits

\* Only the commit of a flip moves the pointer of a unit.
LEMMA SlotMover ==
    ASSUME IndInv, [Next]_vars, NEW u \in Units, state[u] # None,
           state'[u].slot # state[u].slot \/ ActiveModel(state'[u]) # ActiveModel(state[u])
    PROVE  CommitFlip /\ u = pass.at
<1>1. state' # state
  OBVIOUS
<1>2. ~(ListUnits \/ \E e \in Configs : Boot(e) \/ RefuseBoot(e))
  BY SeedUnitsLawful DEF ListUnits, Boot, RefuseBoot, IndInv
<1>3. ~\E v \in Units : WalkUnit(v)
  BY WalkState
<1>4. ~\E v \in Units : CloseWindow(v)
  BY CloseState DEF ActiveModel
<1>5. ~ClearSlot
  BY ClearState
<1> QED BY <1>1, <1>2, <1>3, <1>4, <1>5, StateWriters, FlipState

\* A flip hides no row that was eligible when it counted and still is: its vector
\* is in the slot that becomes active.
THEOREM NothingHidden == Spec => FlipHidesNothing
<1> DEFINE Shown ==
        \A u \in Seeded(state) : state'[u].slot # state[u].slot =>
          \A r \in RowsOf(u) \cap pass.read :
              Eligible(r) => vec[r][state'[u].slot] = ActiveModel(state'[u])
<1>1. ASSUME IndInv, SlotInv, [Next]_vars PROVE Shown
  <2> SUFFICES ASSUME NEW u \in Units, state[u] # None, state'[u].slot # state[u].slot,
                      NEW r \in RowsOf(u) \cap pass.read, Eligible(r)
               PROVE  vec[r][state'[u].slot] = ActiveModel(state'[u])
    BY DEF Seeded
  <2>1. CommitFlip /\ u = pass.at
    BY <1>1, SlotMover
  <2>2. /\ pass.pc = "flipping"
        /\ state'[u].slot = Other(state[u].slot)
        /\ ActiveModel(state'[u]) = OtherModel(state[u])
    BY <1>1, <2>1, FlipState
  <2>3. state[u].slot = pass.seen.slot /\ OtherModel(state[u]) = OtherModel(pass.seen)
    BY <1>1, <2>1, <2>2, SeenIs DEF WalkPCs
  <2>4. vec[r][Other(pass.seen.slot)] = OtherModel(pass.seen)
    BY <1>1, <2>1, <2>2 DEF SlotInv, FlipStands
  <2> QED BY <2>2, <2>3, <2>4
<1>2. IndInv /\ SlotInv /\ [Next]_vars => [Shown]_vars
  BY <1>1
<1> QED BY <1>2, Inductive, SlotsInductive, PTL DEF Spec, FlipHidesNothing

\* A command never asks to retire a model that a unit is active on.
LEMMA RetiresInactive ==
    ASSUME IndInv, ChangeIntent
    PROVE  intent'.retire \in {None, intent.retire} \/ intent'.retire \notin Actives(state)
<1>1. PICK c \in Decide(cmd.verb, intent, cmd.blocks, state, cmd.published) :
          intent' = [gen |-> intent.gen + 1, target |-> c.target, flip |-> c.flip,
                     retire |-> c.retire, verb |-> c.verb]
  BY DEF ChangeIntent
<1>2. cmd.verb \in Verbs
  BY DEF ChangeIntent, IndInv, TypeOK, Commands
<1>3. CASE cmd.verb \in {"start", "flip"}
  BY <1>1, <1>3 DEF Decide, DecideStart, DecideFlip, Change
<1>4. CASE cmd.verb = "rollback"
  <2> DEFINE on == {u \in Seeded(state) : ActiveModel(state[u]) = intent.target}
  <2>1. c \in DecideRollback(intent, cmd.blocks, state)
    BY <1>1, <1>4 DEF Decide
  <2>2. CASE on = {}
    <3>1. c.retire = intent.target
      BY <2>1, <2>2 DEF DecideRollback, Change
    <3>2. intent.target \notin Actives(state)
      BY <2>2 DEF Actives
    <3> QED BY <1>1, <3>1, <3>2
  <2>3. CASE on # {}
    <3>1. PICK m : c = Change(m, TRUE, None, "rollback")
      BY <2>1, <2>3, ZenonT(30) DEF DecideRollback
    <3> QED BY <1>1, <3>1 DEF Change
  <2> QED BY <2>2, <2>3
<1>5. CASE cmd.verb = "retire"
  <2> DEFINE goals == IF intent.target # None THEN {intent.target} ELSE Actives(state)
  <2>1. PICK m \in Held(state, Seeded(state)) :
          /\ Actives(state) = goals
          /\ \E goal \in goals : goals = {goal} /\ m # goal
          /\ c = Change(intent.target, intent.flip, m, "retire")
    BY <1>1, <1>5 DEF Decide, DecideRetire
  <2>2. m \notin Actives(state)
    BY <2>1
  <2> QED BY <1>1, <2>1, <2>2 DEF Change
<1> QED BY <1>2, <1>3, <1>4, <1>5 DEF Verbs

\* No unit comes to serve the model that the control row retires: the cancel of a
\* start cannot overtake a flip onto the same model, nor a flip the cancel.
THEOREM RetiredNeverServed == Spec => RetiredIsNotServed
<1> DEFINE Apart ==
        \A u \in Seeded(state) :
          intent'.retire = ActiveModel(state'[u]) => intent.retire = ActiveModel(state[u])
<1>1. ASSUME IndInv, SlotInv, [Next]_vars PROVE Apart
  <2> SUFFICES ASSUME NEW u \in Units, state[u] # None, intent'.retire = ActiveModel(state'[u])
               PROVE  intent.retire = ActiveModel(state[u])
    BY DEF Seeded
  <2>1. ActiveModel(state[u]) # None
    BY <1>1 DEF IndInv, StatesLawful, Seeded, Lawful
  <2>2. CASE intent' = intent
    <3>1. CASE ActiveModel(state'[u]) = ActiveModel(state[u])
      BY <2>2, <3>1
    <3>2. CASE ActiveModel(state'[u]) # ActiveModel(state[u])
      <4>1. CommitFlip /\ u = pass.at
        BY <1>1, <3>2, SlotMover
      <4>2. pass.pc = "flipping" /\ ActiveModel(state'[u]) = OtherModel(state[u])
        BY <1>1, <4>1, FlipState
      <4>3. /\ OtherModel(state[u]) = OtherModel(pass.seen)
            /\ ActiveModel(pass.seen) # None /\ OtherModel(pass.seen) = pass.view.current
            /\ ActiveModel(pass.seen) = pass.view.previous /\ pass.view \in Views
        BY <1>1, <4>1, <4>2, SeenIs DEF WalkPCs, SlotInv, FlipsToCurrent
      <4>4. intent.retire = None
        BY <1>1, <4>2, <4>3, MigrationAssumption DEF SlotInv, FlipStands, ViewIsOfIntent
      <4>5. pass.view.current # None
        BY <4>3, PhaseAssumption DEF Views
      <4> QED BY <2>2, <4>2, <4>3, <4>4, <4>5
    <3> QED BY <3>1, <3>2
  <2>3. CASE intent' # intent
    <3>1. ChangeIntent
      BY <1>1, <2>3, IntentWriters
    <3>2. state' = state
      BY <3>1 DEF ChangeIntent, store
    <3>3. ActiveModel(state[u]) \in Actives(state)
      BY DEF Actives, Seeded
    <3> QED BY <1>1, <2>1, <3>1, <3>2, <3>3, RetiresInactive
  <2> QED BY <2>2, <2>3
<1>2. IndInv /\ SlotInv /\ [Next]_vars => [Apart]_vars
  BY <1>1
<1> QED BY <1>2, Inductive, SlotsInductive, PTL DEF Spec, RetiredIsNotServed

-----------------------------------------------------------------------------
(* PureInv: where for_unit makes one guess, every vector in an active slot *)
(* comes from the active model.  First who writes what.                    *)

\* An .env has at most two blocks.
LEMMA TwoBlocks ==
    ASSUME NEW b \in BlockLists, NEW x \in Ids(b), NEW y \in Ids(b), NEW z \in Ids(b), x # z, y # z
    PROVE  x = y
<1>1. DOMAIN b \subseteq {1, 2}
  BY DEF BlockLists
<1>2. PICK i \in DOMAIN b, j \in DOMAIN b, k \in DOMAIN b : x = b[i] /\ y = b[j] /\ z = b[k]
  BY DEF Ids
<1> QED BY <1>1, <1>2

\* The actions that write what the request path remembers.
LEMMA MemoryWriters ==
    ASSUME [Next]_vars
    PROVE  /\ inflight' # inflight => \/ Crash
                                      \/ \E r \in Rows : CommitWrite(r) \/ \E k \in RowKinds : StartWrite(r, k)
           /\ env' # env \/ configured' # configured => Crash \/ BeginPass \/ \E e \in Configs : Boot(e)
           /\ cache' # cache => Crash \/ ListUnits \/ Reload \/ \E e \in Configs : Boot(e)
<1>1. CASE Sweep
  BY <1>1 DEF Sweep, BeginPass, BeginPassWithoutView, ListUnits, WalkUnit, SkipUnit, Reload, CountUnit,
     ReadPage, StoreRow, EndPage, EndFills, LockFlip, CommitFlip, PassGate, RetireRows, ClearSlot,
     ReportUnit, EndPass, StopAtGate, server
<1>2. CASE Faulty
  BY <1>2 DEF Faulty, LoseKey, Outage, Budget, TimeOutFlip, StopPass, RefuseRow, OmitRow, server
<1>3. CASE Operator
  <2>1. ASSUME NEW e \in Configs, Boot(e) PROVE inflight' = inflight
    BY <2>1 DEF Boot
  <2>2. ASSUME NEW e \in Configs, RefuseBoot(e) PROVE UNCHANGED <<server, inflight>>
    BY <2>2 DEF RefuseBoot
  <2>3. ASSUME \/ \E verb \in Verbs, e \in Typed : ReadStatus(verb, e)
               \/ ChangeIntent \/ RefuseCommand \/ \E u \in Units : CloseWindow(u)
        PROVE  UNCHANGED <<server, inflight>>
    BY <2>3 DEF CloseWindow, ReadStatus, ChangeIntent, RefuseCommand
  <2> QED BY <1>3, <2>1, <2>2, <2>3 DEF Operator, server
<1>4. CASE Writer
  BY <1>4 DEF Writer, Forget, CommitWrite, StartWrite, server
<1>5. CASE UNCHANGED vars
  BY <1>5 DEF vars
<1> QED BY <1>1, <1>2, <1>3, <1>4, <1>5 DEF Next

\* How a step leaves the pass.
LEMMA PassSteps ==
    ASSUME IndInv, SlotInv, [Next]_vars
    PROVE  \/ pass' = pass
           \/ pass'.pc = "idle"
           \/ BeginPass \/ ListUnits \/ Reload \/ CommitFlip \/ ClearSlot \/ \E u \in Units : WalkUnit(u)
           \/ Moves
           \/ pass.pc \in {"walk", "report"} /\ pass'.pc = "walk" /\ pass'.view = pass.view
<1>1. pass \in Passes
  BY DEF IndInv, TypeOK
<1>2. BeginPassWithoutView \/ EndPass \/ StopAtGate \/ StopPass \/ Crash => pass'.pc = "idle"
  BY IdleType DEF BeginPassWithoutView, EndPass, StopAtGate, StopPass, Finish, Crash
<1>3. ReportUnit => pass.pc = "report" /\ pass'.pc = "walk" /\ pass'.view = pass.view
  BY <1>1, IdleType DEF ReportUnit, Passes
<1>4. ASSUME NEW u \in Units, SkipUnit(u)
      PROVE pass.pc = "walk" /\ pass'.pc = "walk" /\ pass'.view = pass.view
  BY <1>1, <1>4 DEF SkipUnit, Passes
<1>5. CASE Sweep
  BY <1>2, <1>3, <1>4, <1>5, MovesOn DEF Sweep
<1>6. CASE Faulty
  BY <1>2, <1>6, MovesOn DEF Faulty
<1>7. CASE Operator
  BY <1>7 DEF Operator, Boot, RefuseBoot, CloseWindow, ReadStatus, ChangeIntent, RefuseCommand
<1>8. CASE Writer
  BY <1>8 DEF Writer, StartWrite, CommitWrite, Forget
<1>9. CASE UNCHANGED vars
  BY <1>9 DEF vars
<1> QED BY <1>5, <1>6, <1>7, <1>8, <1>9 DEF Next

\* A pass that goes on keeps its view.
LEMMA ViewStays ==
    ASSUME IndInv, SlotInv, [Next]_vars, pass'.pc # "idle", ~BeginPass
    PROVE  pass.pc # "idle" /\ pass'.view = pass.view
<1>1. pass \in Passes
  BY DEF IndInv, TypeOK
<1>2. ListUnits \/ Reload => pass.pc # "idle" /\ pass'.view = pass.view
  BY <1>1 DEF ListUnits, Reload, Passes
<1>3. CommitFlip \/ ClearSlot \/ (\E u \in Units : WalkUnit(u)) => pass.pc # "idle" /\ pass'.view = pass.view
  BY FlipState, ClearState, WalkState
<1>4. Moves => pass.pc # "idle" /\ pass'.view = pass.view
  BY DEF Moves, WalkPCs
<1> QED BY <1>2, <1>3, <1>4, PassSteps

\* A state row is never deleted.
LEMMA SeededStay ==
    ASSUME IndInv, [Next]_vars, NEW u \in Units, state[u] # None
    PROVE  state'[u] # None
<1>1. ListUnits \/ (\E e \in Configs : Boot(e) \/ RefuseBoot(e)) => state'[u] # None
  BY SeedUnitsIs DEF ListUnits, Boot, RefuseBoot, IndInv
<1> QED BY <1>1, StateWriters, WalkState, FlipState, ClearState, CloseState

\* Before the first state row no command writes.
LEMMA NothingDecided ==
    ASSUME IndInv, ChangeIntent, Seeded(state) = {}, intent.target = None
    PROVE  FALSE
<1>1. PICK c : c \in Decide(cmd.verb, intent, cmd.blocks, state, cmd.published)
  BY DEF ChangeIntent
<1>2. cmd.verb \in Verbs /\ None \notin Ids(cmd.blocks)
  BY IdsType, PhaseAssumption DEF ChangeIntent, IndInv, TypeOK, Commands
<1>3. Actives(state) = {} /\ Held(state, Seeded(state)) = {}
  BY DEF Actives, Held
<1>4. cmd.verb # "start"
  BY <1>1, <1>3 DEF Decide, DecideStart
<1>5. cmd.verb # "flip"
  BY <1>1, <1>2 DEF Decide, DecideFlip
<1>6. cmd.verb # "rollback"
  <2>1. DecideRollback(intent, cmd.blocks, state) = {}
    BY DEF DecideRollback
  <2> QED BY <1>1, <2>1 DEF Decide
<1>7. cmd.verb # "retire"
  BY <1>1, <1>3 DEF Decide, DecideRetire
<1> QED BY <1>2, <1>4, <1>5, <1>6, <1>7 DEF Verbs

\* The guess a view makes is that of the .env alone.
LEMMA GuessOf ==
    ASSUME OneGuess, NEW e, NEW st, NEW v \in ViewsFrom(e, st),
           {u \in Units : st[u] # None} # Units,
           {u \in Units : st[u] # None} = {} => intent.target = None
    PROVE  Guess(v) = IF Mode = "env" THEN Guess(EnvView(e)) ELSE e.blocks[1]
<1>1. CASE Mode = "env"
  BY <1>1 DEF ViewsFrom
<1>2. CASE Mode # "env"
  <2>1. st[DefaultUnit] = None /\ intent.target = None
    BY <1>2 DEF OneGuess
  <2>2. v.current = e.blocks[1] /\ v.previous = None
    BY <1>2, <2>1 DEF ViewsFrom, ConfiguredFromIntent
  <2> QED BY <1>2, <2>2 DEF Guess
<1> QED BY <1>1, <1>2

\* The guess holds while the process runs.
LEMMA GuessStep ==
    ASSUME OneGuess, IndInv, SlotInv, GuessHolds, [Next]_vars
    PROVE  GuessHolds'
<1>1. Seeded(state) \subseteq Seeded(state')
  BY SeededStay DEF Seeded
<1>2. Seeded(state') = {} => intent'.target = None
  <2> SUFFICES ASSUME Seeded(state') = {} PROVE intent'.target = None
    OBVIOUS
  <2>1. Seeded(state) = {} /\ intent.target = None
    BY <1>1 DEF GuessHolds
  <2>2. ~ChangeIntent
    BY <2>1, NothingDecided
  <2>3. intent' = intent
    BY <2>2, IntentWriters
  <2> QED BY <2>1, <2>3
<1>3. ASSUME Mode = "env", pass'.pc # "idle" PROVE pass'.view = EnvView(env')
  <2>1. CASE BeginPass
    <3>1. PICK v \in ViewsFrom(env, state) : pass' = [Idle EXCEPT !.pc = "list", !.view = v]
      BY <2>1 DEF BeginPass
    <3>2. v = EnvView(env) /\ env' = env
      BY <1>3, <2>1, <3>1 DEF ViewsFrom, BeginPass
    <3>3. pass'.view = v
      BY <3>1 DEF Idle
    <3> QED BY <3>2, <3>3
  <2>2. CASE ~BeginPass
    <3>1. pass.pc # "idle" /\ pass'.view = pass.view
      BY <1>3, <2>2, ViewStays
    <3>2. ~Crash
      BY <1>3, IdleType DEF Crash
    <3>3. ~\E e \in Configs : Boot(e)
      BY <3>1 DEF Boot, IndInv, PassShape
    <3>4. env' = env
      BY <2>2, <3>2, <3>3, MemoryWriters
    <3> QED BY <1>3, <3>1, <3>4 DEF GuessHolds
  <2> QED BY <2>1, <2>2
<1>4. ASSUME env' # None, Seeded(state') # Units PROVE Guess(configured') = FirstGuess'
  <2>1. CASE BeginPass
    <3>1. PICK v \in ViewsFrom(env, state) : configured' = v
      BY <2>1 DEF BeginPass
    <3>2. env' = env /\ state' = state
      BY <2>1 DEF BeginPass, store
    <3>3. Guess(v) = IF Mode = "env" THEN Guess(EnvView(env)) ELSE env.blocks[1]
      BY <1>4, <3>1, <3>2, GuessOf DEF GuessHolds, Seeded
    <3> QED BY <3>1, <3>2, <3>3 DEF FirstGuess
  <2>2. ASSUME NEW e \in Configs, Boot(e) PROVE Guess(configured') = FirstGuess'
    <3>1. PICK v \in ViewsFrom(e, SeedUnits(Units)) : configured' = v
      BY <2>2 DEF Boot
    <3>2. env' = e /\ state' = SeedUnits(Units) /\ intent' = intent
      BY <2>2 DEF Boot, control
    <3>3. Guess(v) = IF Mode = "env" THEN Guess(EnvView(e)) ELSE e.blocks[1]
      BY <1>2, <1>4, <3>1, <3>2, GuessOf DEF Seeded
    <3> QED BY <3>1, <3>2, <3>3 DEF FirstGuess
  <2>3. CASE Crash
    BY <1>4, <2>3 DEF Crash
  <2>4. CASE env' = env /\ configured' = configured
    <3>1. Seeded(state) # Units
      BY <1>1, <1>4 DEF Seeded
    <3>2. Guess(configured) = FirstGuess
      BY <1>4, <2>4, <3>1 DEF GuessHolds
    <3> QED BY <2>4, <3>2 DEF FirstGuess
  <2> QED BY <2>1, <2>2, <2>3, <2>4, MemoryWriters
<1> QED BY <1>2, <1>3, <1>4 DEF GuessHolds

\* Whether a unit has a state row changes with a seed only.
LEMMA SeedersOnly ==
    ASSUME IndInv, [Next]_vars, ~ListUnits, ~\E e \in Configs : Boot(e) \/ RefuseBoot(e)
    PROVE  Seeded(state') = Seeded(state)
<1> SUFFICES ASSUME NEW u \in Units PROVE state'[u] = None <=> state[u] = None
  BY DEF Seeded
<1> QED BY StateWriters, WalkState, FlipState, ClearState, CloseState

\* The caches know which units have a state row.
LEMMA WholeStep ==
    ASSUME IndInv, CacheIsWhole, [Next]_vars
    PROVE  CacheIsWhole'
<1>1. CASE ListUnits
  <2>1. cache' = state' /\ env' = env
    BY <1>1 DEF ListUnits
  <2>2. env # None
    BY <1>1 DEF ListUnits, IndInv, PassShape
  <2> QED BY <2>1, <2>2 DEF CacheIsWhole, Seeded
<1>2. ASSUME NEW e \in Configs, Boot(e) PROVE CacheIsWhole'
  <2>1. cache' = state' /\ env' = e
    BY <1>2 DEF Boot
  <2>2. ~(e = None)
    BY MigrationAssumption
  <2> QED BY <2>1, <2>2 DEF CacheIsWhole, Seeded
<1>3. CASE Crash
  BY <1>3 DEF Crash, CacheIsWhole, Seeded
<1>4. ASSUME NEW e \in Configs, RefuseBoot(e) PROVE CacheIsWhole'
  BY <1>4 DEF RefuseBoot, server, CacheIsWhole, Seeded
<1>5. CASE ~(ListUnits \/ Crash \/ \E e \in Configs : Boot(e) \/ RefuseBoot(e))
  <2>1. Seeded(state') = Seeded(state)
    BY <1>5, SeedersOnly
  <2>2. env' = env
    BY <1>5, MemoryWriters DEF BeginPass
  <2>3. Seeded(cache') = Seeded(cache)
    <3>1. CASE cache' = cache
      BY <3>1
    <3>2. CASE Reload
      <4>1. cache' = [cache EXCEPT ![pass.at] = state[pass.at]] /\ env # None
            /\ pass.at \in Units /\ state[pass.at] # None
        BY <3>2 DEF Reload, IndInv, PassShape
      <4>2. pass.at \in Seeded(cache)
        BY <4>1 DEF CacheIsWhole, Seeded
      <4>3. cache \in [Units -> UnitStates \cup {None}]
        BY DEF IndInv, TypeOK
      <4> QED BY <4>1, <4>2, <4>3 DEF Seeded
    <3> QED BY <1>5, <3>1, <3>2, MemoryWriters
  <2> QED BY <2>1, <2>2, <2>3 DEF CacheIsWhole
<1> QED BY <1>1, <1>2, <1>3, <1>4, <1>5

\* A state row and its cached copy while the pass is past its listing.
LEMMA CacheBeside ==
    ASSUME IndInv, CacheIsNamed, NEW u \in Units, cache[u] # None,
           pass.pc \notin {"idle", "list", "named", "changed"}
    PROVE  /\ cache[u].slot = state[u].slot /\ cache[u].model = state[u].model
           /\ state[u] # None /\ cache[u] \in UnitStates /\ state[u] \in UnitStates
           /\ OtherModel(cache[u]) = OtherModel(state[u])
<1>1. cache[u].slot = state[u].slot
  BY DEF IndInv, CacheIsCurrent, Seeded
<1>2. cache[u].model = state[u].model
  BY DEF CacheIsNamed, Seeded
<1>3. cache[u] \in UnitStates /\ state[u] # None /\ state[u] \in UnitStates
  BY DEF IndInv, TypeOK, StaleCacheSafe, Seeded
<1> QED BY <1>1, <1>2, <1>3 DEF OtherModel

\* The cached states name the models of the slots up to the next reload.
LEMMA CacheStep ==
    ASSUME IndInv, SlotInv, CacheIsWhole, CacheIsNamed, SpareIsKnown, [Next]_vars
    PROVE  CacheIsNamed' /\ SpareIsKnown'
<1>1. CASE ListUnits \/ \E e \in Configs : Boot(e)
  <2>1. cache' = state'
    BY <1>1 DEF ListUnits, Boot
  <2> QED BY <2>1 DEF CacheIsNamed, SpareIsKnown, OtherModel
<1>2. CASE Crash \/ \E e \in Configs : RefuseBoot(e)
  <2>1. Seeded(cache') = {}
    BY <1>2 DEF Crash, RefuseBoot, server, CacheIsWhole, Seeded
  <2> QED BY <2>1 DEF CacheIsNamed, SpareIsKnown
<1>3. CASE Reload
  <2>1. /\ pass.pc \in {"named", "changed"} /\ pass.at \in Units /\ env' = env /\ state' = state
        /\ cache' = [cache EXCEPT ![pass.at] = state[pass.at]]
        /\ cache \in [Units -> UnitStates \cup {None}]
    BY <1>3 DEF Reload, IndInv, PassShape, TypeOK, store
  <2>2. cache'[pass.at] = state'[pass.at] /\ \A u \in Units : u # pass.at => cache'[u] = cache[u]
    BY <2>1
  <2> QED BY <2>1, <2>2 DEF CacheIsNamed, SpareIsKnown, Seeded, OtherModel
<1>4. ASSUME UNCHANGED <<cache, env>>,
             \A u \in Units : cache[u] # None => state'[u].model = state[u].model,
             \/ pass' = pass \/ pass'.pc \in {"idle", "list"}
             \/ pass.pc \notin {"idle", "list", "named", "changed"}
      PROVE  CacheIsNamed' /\ SpareIsKnown'
  BY <1>4 DEF CacheIsNamed, SpareIsKnown, Seeded
<1>5. ASSUME NEW w \in Units, WalkUnit(w) PROVE CacheIsNamed' /\ SpareIsKnown'
  <2>1. pass.pc = "walk" /\ cache' = cache /\ env' = env /\ env # None
    BY <1>5 DEF WalkUnit, server, IndInv, PassShape
  <2>2. CASE state' = state
    BY <1>4, <2>1, <2>2
  <2>3. CASE state' # state
    <3>1. /\ pass'.pc = "named" /\ pass'.at = w
          /\ state'[w].slot = state[w].slot /\ \A v \in Units : v # w => state'[v] = state[v]
          /\ OtherModel(state[w]) = None
          /\ OtherModel(state'[w]) = Target(state[w], pass.view)
          /\ OtherModel(state'[w]) # None
      BY <1>5, <2>3, WalkState
    <3>2. CacheIsNamed'
      BY <2>1, <3>1 DEF CacheIsNamed, Seeded
    <3>3. OtherModel(state'[w]) \in Ids(env.blocks)
      <4>1. ViewIsBuilt(pass.view)
        BY <2>1 DEF SlotInv, AllIsBuilt
      <4> QED BY <3>1, <4>1 DEF Target, ViewIsBuilt
    <3>4. cache[w] # None => /\ state'[w].model[Other(cache[w].slot)] = OtherModel(state'[w])
                             /\ OtherModel(cache[w]) = None
      BY <2>1, <3>1, CacheBeside DEF OtherModel
    <3>5. ASSUME NEW u \in Seeded(cache)
          PROVE  LET m == state'[u].model[Other(cache[u].slot)]
                 IN \/ m \in {None, OtherModel(cache[u])}
                    \/ OtherModel(cache[u]) = None /\ m \in Ids(env.blocks)
      <4>1. CASE u = w
        BY <3>3, <3>4, <4>1 DEF Seeded
      <4>2. CASE u # w
        BY <3>1, <4>2 DEF SpareIsKnown, Seeded
      <4> QED BY <4>1, <4>2
    <3> QED BY <2>1, <3>2, <3>5 DEF SpareIsKnown
  <2> QED BY <2>2, <2>3
<1>6. CASE CommitFlip
  <2>1. pass.pc = "flipping" /\ UNCHANGED <<cache, env>> /\ \A u \in Units : state'[u].model = state[u].model
    BY <1>6, FlipState DEF CommitFlip, server
  <2> QED BY <1>4, <2>1
<1>7. CASE ClearSlot
  <2>1. /\ pass.pc = "clear" /\ cache' = cache /\ env' = env /\ pass.at \in Units
        /\ pass'.at = pass.at /\ \A v \in Units : v # pass.at => state'[v] = state[v]
    BY <1>7, ClearState DEF ClearSlot, server
  <2>2. CASE state' = state
    BY <1>4, <2>1, <2>2
  <2>3. CASE state' # state
    <3>1. pass'.pc = "changed" /\ OtherModel(state'[pass.at]) = None
          /\ state'[pass.at].slot = state[pass.at].slot
      BY <1>7, <2>3, ClearState
    <3>2. CacheIsNamed'
      BY <2>1, <3>1 DEF CacheIsNamed, Seeded
    <3>3. cache[pass.at] # None => state'[pass.at].model[Other(cache[pass.at].slot)] = None
      BY <2>1, <3>1, CacheBeside DEF OtherModel
    <3>4. SpareIsKnown'
      BY <2>1, <3>3 DEF SpareIsKnown, Seeded
    <3> QED BY <3>2, <3>4
  <2> QED BY <2>2, <2>3
<1>8. ASSUME NEW u \in Units, CloseWindow(u) PROVE CacheIsNamed' /\ SpareIsKnown'
  <2>1. UNCHANGED <<cache, env, pass>>
    BY <1>8 DEF CloseWindow, server
  <2>2. \A v \in Units : cache[v] # None => state'[v].model = state[v].model
    BY <1>8, CloseState DEF IndInv, StaleCacheSafe, Seeded
  <2> QED BY <1>4, <2>1, <2>2
<1>9. CASE /\ ~(ListUnits \/ Crash \/ Reload \/ CommitFlip \/ ClearSlot)
           /\ ~\E e \in Configs : Boot(e) \/ RefuseBoot(e)
           /\ ~\E u \in Units : WalkUnit(u) \/ CloseWindow(u)
  <2>1. state' = state
    BY <1>9, StateWriters
  <2>2. UNCHANGED <<cache, env>>
    BY <1>9, MemoryWriters DEF BeginPass
  <2>3. BeginPass => pass'.pc = "list"
    BY IdleType DEF BeginPass, Passes
  <2>4. \/ pass' = pass \/ pass'.pc \in {"idle", "list"}
        \/ pass.pc \notin {"idle", "list", "named", "changed"}
    BY <1>9, <2>3, PassSteps DEF Moves, WalkPCs
  <2> QED BY <1>4, <2>1, <2>2, <2>4
<1> QED BY <1>1, <1>2, <1>3, <1>5, <1>6, <1>7, <1>8, <1>9

\* What a write in flight has resolved: models of the blocks.
LEMMA InFlight ==
    ASSUME IndInv, SlotInv, NEW r \in Rows, inflight[r] # None
    PROVE  /\ env # None /\ env.blocks \in BlockLists /\ inflight[r] \in Writes /\ kind[r] = "absent"
           /\ inflight[r].active \in Ids(env.blocks) /\ inflight[r].active # None
           /\ inflight[r].second \in Ids(env.blocks) \cup {None}
<1>1. env # None /\ kind[r] = "absent"
  BY DEF SlotInv, RowsAreBare
<1>2. env.blocks \in BlockLists /\ inflight[r] \in Writes
  BY <1>1 DEF IndInv, TypeOK, Envs
<1>3. inflight[r].active # None
  BY <1>2, PhaseAssumption DEF Writes
<1> QED BY <1>1, <1>2, <1>3 DEF SlotInv, AllIsBuilt

\* The slots of a lawful state row, from either side.
LEMMA BothSlots ==
    ASSUME NEW st \in UnitStates, Lawful(st), NEW s \in Slots
    PROVE  /\ st.model[s] # st.model[Other(s)]
           /\ s # st.slot => s = Other(st.slot) /\ Other(s) = st.slot
BY DEF Lawful, ActiveModel, OtherModel, UnitStates, Slots, Other

\* A write that starts fits, however stale the cached state it reads: at most two
\* models are built, so that a slot named since is named after its other model.
LEMMA FitsAtStart ==
    ASSUME OneGuess, IndInv, SlotInv, GuessHolds, CacheIsWhole, SpareIsKnown,
           NEW r \in Rows, NEW k \in RowKinds, StartWrite(r, k)
    PROVE  WriteFits(inflight'[r], state[UnitOf[r]])
<1> DEFINE u == UnitOf[r]
           st == cache[u]
           w == inflight'[r]
<1>1. PICK ue \in ForUnit(st, configured, Ids(env.blocks)) :
        \E second \in {ue.second, None} :
            inflight' = [inflight EXCEPT ![r] =
                  [slot |-> ue.slot, active |-> ue.active, second |-> second, kind |-> k]]
  BY DEF StartWrite
<1>2. env # None /\ env.blocks \in BlockLists /\ u \in Units
  BY UnitOfRow DEF StartWrite, IndInv, TypeOK, Envs
<1>3. w.slot = ue.slot /\ w.active = ue.active /\ w.second \in {ue.second, None}
  BY <1>1 DEF IndInv, TypeOK
<1>4. /\ ue.active \in Ids(env.blocks) /\ ue.active # None
      /\ ue.second \in Ids(env.blocks) \cup {None} /\ ue.second # ue.active
  <2>1. ue.active \in Ids(env.blocks) /\ None \notin Ids(env.blocks)
    BY <1>1, <1>2, IdsType, PhaseAssumption DEF ForUnit
  <2> QED BY <1>1, <2>1 DEF ForUnit
<1>5. w.second # w.active
  BY <1>3, <1>4
<1>6. CASE st = None
  <2>1. ue.slot = "a" /\ ue.active = Guess(configured)
    BY <1>1, <1>6 DEF ForUnit, Guess
  <2>2. state[u] = None
    BY <1>2, <1>6 DEF CacheIsWhole, Seeded
  <2>3. Guess(configured) = FirstGuess
    BY <1>2, <2>2 DEF GuessHolds, Seeded
  <2> QED BY <1>3, <1>5, <2>1, <2>2, <2>3 DEF WriteFits
<1>7. CASE st # None
  <2> DEFINE m == state[u].model[Other(st.slot)]
  <2>1. /\ ue.slot = st.slot /\ ue.active = ActiveModel(st)
        /\ ue.second # None => OtherModel(st) \in {None, ue.second}
    BY <1>1, <1>7 DEF ForUnit
  <2>2. /\ state[u] # None /\ state[u].model[st.slot] = ActiveModel(st)
        /\ state[u] \in UnitStates /\ Lawful(state[u]) /\ st \in UnitStates
    BY <1>2, <1>7 DEF IndInv, StaleCacheSafe, StatesLawful, Seeded, TypeOK
  <2>3. m # w.active
    BY <1>3, <2>1, <2>2, BothSlots DEF UnitStates
  <2>4. \/ m \in {None, OtherModel(st)}
        \/ OtherModel(st) = None /\ m \in Ids(env.blocks)
    BY <1>2, <1>7 DEF SpareIsKnown, Seeded
  <2>5. w.second # None => m \in {None, w.second}
    <3> SUFFICES ASSUME w.second # None, m # None PROVE m = w.second
      OBVIOUS
    <3>1. CASE m = OtherModel(st)
      BY <1>3, <2>1, <3>1
    <3>2. CASE m \in Ids(env.blocks)
      BY <1>2, <1>3, <1>4, <2>3, <3>2, TwoBlocks
    <3> QED BY <2>4, <3>1, <3>2
  <2> QED BY <1>3, <1>5, <2>1, <2>2, <2>3, <2>5 DEF WriteFits
<1> QED BY <1>6, <1>7

\* The seed of a unit takes slot a and the model of its vectors there.
LEMMA PureSeed ==
    ASSUME IndInv, SeedIsPure, NEW u \in Units, state[u] = None, HoldsVectors(u)
    PROVE  /\ SeedPlan(u).slot = "a" /\ SeedPlan(u) \in UnitStates /\ Lawful(SeedPlan(u))
           /\ \A r \in RowsOf(u) : vec[r]["a"] \in {None, SeedPlan(u).model["a"]}
           /\ env # None => SeedPlan(u).model["a"] = FirstGuess
           /\ \A s \in Slots : SeedPlan(u).model[s] # None =>
                 \E r \in RowsOf(u) : vec[r][s] = SeedPlan(u).model[s]
<1>1. PICK r \in RowsOf(u) : vec[r]["a"] # None
  BY DEF HoldsVectors, SeedIsPure, Seeded
<1>2. /\ SeedPlan(u).slot = "a" /\ SeedPlan(u) \in UnitStates /\ Lawful(SeedPlan(u))
      /\ \A s \in Slots : SeedPlan(u).model[s] # None =>
            \E q \in RowsOf(u) : vec[q][s] = SeedPlan(u).model[s]
  BY <1>1, SeedPlanIs DEF IndInv
<1>3. SeedPlan(u).model["a"] # None
  BY <1>2 DEF Lawful, ActiveModel
<1>4. PICK q \in RowsOf(u) : vec[q]["a"] = SeedPlan(u).model["a"]
  BY <1>2, <1>3 DEF Slots
<1>5. \A p \in RowsOf(u) : vec[p]["a"] \in {None, SeedPlan(u).model["a"]}
  BY <1>3, <1>4 DEF SeedIsPure, Seeded
<1>6. env # None => SeedPlan(u).model["a"] = FirstGuess
  BY <1>3, <1>4 DEF SeedIsPure, Seeded
<1> QED BY <1>2, <1>5, <1>6

\* A write in flight fits the state row its unit is seeded with.
LEMMA FitsSeed ==
    ASSUME IndInv, SlotInv, SeedIsPure, NEW r \in Rows, inflight[r] # None,
           NEW u \in Units, u = UnitOf[r], state[u] = None, HoldsVectors(u), WriteFits(inflight[r], None)
    PROVE  WriteFits(inflight[r], SeedPlan(u))
<1> DEFINE w == inflight[r]
           st == SeedPlan(u)
           m == st.model["b"]
<1>1. /\ env # None /\ env.blocks \in BlockLists /\ w.active \in Ids(env.blocks) /\ w.active # None
      /\ w.second \in Ids(env.blocks) \cup {None}
  BY InFlight
<1>2. w.slot = "a" /\ w.active = FirstGuess /\ w.second # w.active
  BY DEF WriteFits
<1>3. /\ st \in UnitStates /\ Lawful(st) /\ st.slot = "a" /\ st.model["a"] = w.active
      /\ m # None => \E q \in RowsOf(u) : vec[q]["b"] = m
  BY <1>1, <1>2, PureSeed DEF Slots
<1>4. m # w.active /\ Other("a") = "b"
  BY <1>3 DEF Lawful, ActiveModel, OtherModel, Other
<1>5. m \in Ids(env.blocks) \cup {None}
  BY <1>1, <1>3 DEF SlotInv, AllIsBuilt, RowsOf, Slots
<1>6. w.second # None => m \in {None, w.second}
  BY <1>1, <1>2, <1>4, <1>5, TwoBlocks
<1>7. st # None
  BY <1>3, PhaseAssumption
<1> QED BY <1>2, <1>3, <1>4, <1>6, <1>7 DEF WriteFits

\* A write in flight fits the name that a walk gives the empty slot.
LEMMA FitsName ==
    ASSUME IndInv, SlotInv, NEW r \in Rows, inflight[r] # None,
           NEW u \in Units, u = UnitOf[r], WalkUnit(u), WriteFits(inflight[r], state[u])
    PROVE  WriteFits(inflight[r], state'[u])
<1> DEFINE w == inflight[r]
           st == state[u]
           goal == OtherModel(state'[u])
<1>1. /\ env # None /\ env.blocks \in BlockLists /\ w.active \in Ids(env.blocks) /\ w.active # None
      /\ w.second \in Ids(env.blocks) \cup {None} /\ w.slot \in Slots
  BY InFlight DEF Writes
<1>2. /\ st # None /\ state'[u] # None /\ state'[u].slot = st.slot
      /\ ActiveModel(state'[u]) = ActiveModel(st)
      /\ \/ state' = state
         \/ /\ OtherModel(st) = None
            /\ goal = Target(st, pass.view)
            /\ goal \notin {None, ActiveModel(st)}
  BY WalkState
<1>3. st \in UnitStates /\ Lawful(st) /\ st.slot \in Slots
  BY <1>2 DEF IndInv, TypeOK, StatesLawful, Seeded, UnitStates
<1>4. CASE state' = state
  BY <1>4
<1>5. CASE state' # state
  <2>1. goal \in Ids(env.blocks)
    <3>1. ViewIsBuilt(pass.view)
      BY <1>1 DEF WalkUnit, SlotInv, AllIsBuilt
    <3> QED BY <1>2, <1>5, <3>1 DEF Target, ViewIsBuilt
  <2>2. /\ w.second # w.active /\ st.model[w.slot] \in {None, w.active}
        /\ st.model[Other(w.slot)] # w.active
        /\ w.second # None => st.model[Other(w.slot)] \in {None, w.second}
    BY <1>2 DEF WriteFits
  <2>3. CASE w.slot = st.slot
    <3>1. w.active = ActiveModel(st)
      BY <1>3, <2>2, <2>3 DEF ActiveModel, Lawful
    <3>2. state'[u].model[w.slot] = w.active /\ state'[u].model[Other(w.slot)] = goal
      BY <1>2, <2>3, <3>1 DEF ActiveModel, OtherModel
    <3>3. w.second # None => goal = w.second
      BY <1>1, <1>2, <1>5, <2>1, <2>2, <3>1, TwoBlocks
    <3> QED BY <1>2, <1>5, <2>2, <3>1, <3>2, <3>3 DEF WriteFits
  <2>4. CASE w.slot # st.slot
    <3>1. w.slot = Other(st.slot) /\ Other(w.slot) = st.slot
      BY <1>1, <1>3, <2>4, BothSlots
    <3>2. state'[u].model[w.slot] = goal /\ state'[u].model[Other(w.slot)] = ActiveModel(st)
      BY <1>2, <3>1 DEF ActiveModel, OtherModel
    <3>3. ActiveModel(st) # w.active /\ (w.second # None => ActiveModel(st) = w.second)
      BY <1>3, <2>2, <3>1 DEF ActiveModel, Lawful
    <3>4. ActiveModel(st) \in Ids(env.blocks)
      BY <1>1, <1>2 DEF SlotInv, ActiveIsBuilt, Seeded
    <3>5. goal = w.active
      BY <1>1, <1>2, <1>5, <2>1, <3>3, <3>4, TwoBlocks
    <3> QED BY <1>2, <2>2, <3>2, <3>3, <3>5 DEF WriteFits
  <2> QED BY <2>3, <2>4
<1> QED BY <1>4, <1>5

\* Every write in flight fits after any step.
LEMMA FitsStep ==
    ASSUME OneGuess, IndInv, SlotInv, GuessHolds, CacheIsWhole, SpareIsKnown, WritesFit, SeedIsPure,
           [Next]_vars
    PROVE  WritesFit'
<1>1. CASE Crash
  BY <1>1 DEF Crash, WritesFit
<1>2. ASSUME NEW e \in Configs, Boot(e) \/ RefuseBoot(e) PROVE WritesFit'
  <2>1. inflight' = inflight /\ env = None
    BY <1>2 DEF Boot, RefuseBoot
  <2> QED BY <2>1 DEF WritesFit, SlotInv, RowsAreBare
<1>3. CASE ~Crash /\ ~\E e \in Configs : Boot(e) \/ RefuseBoot(e)
  <2>1. env' = env
    BY <1>3, MemoryWriters DEF BeginPass
  <2>2. ASSUME NEW r \in Rows, inflight'[r] # None, NEW u \in Units, u = UnitOf[r]
        PROVE  WriteFits(inflight'[r], state'[u])
    <3>1. CASE inflight'[r] = inflight[r]
      <4>1. inflight[r] # None /\ WriteFits(inflight[r], state[u])
        BY <2>2, <3>1 DEF WritesFit
      <4>2. CASE ListUnits
        <5>1. \/ state'[u] = state[u]
              \/ state[u] = None /\ HoldsVectors(u) /\ state'[u] = SeedPlan(u)
          BY <4>2, SeedUnitsIs DEF ListUnits, IndInv
        <5> QED BY <2>2, <3>1, <4>1, <5>1, FitsSeed
      <4>3. ASSUME NEW v \in Units, WalkUnit(v) PROVE WriteFits(inflight[r], state'[u])
        <5>1. CASE u = v
          BY <2>2, <4>1, <4>3, <5>1, FitsName
        <5>2. CASE u # v
          BY <4>1, <4>3, <5>2, WalkState
        <5> QED BY <5>1, <5>2
      <4>4. ASSUME state[u] # None, state'[u] # None,
                   \A s \in Slots : state'[u].model[s] \in {None, state[u].model[s]}
            PROVE  WriteFits(inflight[r], state'[u])
        <5>1. inflight[r].slot \in Slots /\ inflight[r].active # None
          BY <4>1, InFlight DEF Writes
        <5>2. Other(inflight[r].slot) \in Slots
          BY <5>1, OtherSlot
        <5> QED BY <4>1, <4>4, <5>1, <5>2 DEF WriteFits
      <4>5. CASE CommitFlip
        BY <3>1, <4>1, <4>4, <4>5, FlipState
      <4>6. CASE ClearSlot
        <5>1. CASE u = pass.at /\ state' # state
          <6>1. /\ state[u] # None /\ state'[u] # None /\ state'[u].slot = state[u].slot
                /\ ActiveModel(state'[u]) = ActiveModel(state[u]) /\ OtherModel(state'[u]) = None
            BY <4>6, <5>1, ClearState
          <6>2. state[u] \in UnitStates
            BY <6>1 DEF IndInv, TypeOK
          <6>3. \A s \in Slots : s = state[u].slot \/ s = Other(state[u].slot)
            BY <6>2 DEF UnitStates, Slots, Other
          <6>4. \A s \in Slots : state'[u].model[s] \in {None, state[u].model[s]}
            BY <6>1, <6>3 DEF ActiveModel, OtherModel
          <6> QED BY <3>1, <4>4, <6>1, <6>4
        <5>2. CASE u # pass.at \/ state' = state
          BY <3>1, <4>1, <4>6, <5>2, ClearState
        <5> QED BY <5>1, <5>2
      <4>7. ASSUME NEW v \in Units, CloseWindow(v) PROVE WriteFits(inflight[r], state'[u])
        <5>1. CASE state[u] = None
          BY <4>1, <4>7, <5>1, CloseState
        <5>2. CASE state[u] # None
          BY <4>4, <4>7, <5>2, CloseState
        <5> QED BY <5>1, <5>2
      <4>8. CASE state' = state
        BY <3>1, <4>1, <4>8
      <4> QED BY <1>3, <3>1, <4>2, <4>3, <4>5, <4>6, <4>7, <4>8, StateWriters
    <3>2. CASE inflight'[r] # inflight[r]
      <4>1. \/ \E q \in Rows : CommitWrite(q)
            \/ \E q \in Rows, k \in RowKinds : StartWrite(q, k)
        BY <1>3, <3>2, MemoryWriters
      <4>2. ASSUME NEW q \in Rows, CommitWrite(q) PROVE FALSE
        BY <2>2, <3>2, <4>2 DEF CommitWrite, IndInv, TypeOK
      <4>3. ASSUME NEW q \in Rows, NEW k \in RowKinds, StartWrite(q, k)
            PROVE  WriteFits(inflight'[r], state'[u])
        <5>1. q = r /\ state' = state
          BY <3>2, <4>3 DEF StartWrite, store, IndInv, TypeOK
        <5> QED BY <2>2, <4>3, <5>1, FitsAtStart
      <4> QED BY <4>1, <4>2, <4>3
    <3> QED BY <3>1, <3>2
  <2> QED BY <2>1, <2>2, UnitOfRow DEF WritesFit, WriteFits, FirstGuess
<1> QED BY <1>1, <1>2, <1>3

\* The vectors of a unit without a state row come from one model.
LEMMA SeedStep ==
    ASSUME IndInv, SlotInv, WritesFit, SeedIsPure, [Next]_vars
    PROVE  SeedIsPure'
<1>0. vec \in [Rows -> [Slots -> OptModels]]
  BY DEF IndInv, TypeOK
<1>1. Seeded(state) \subseteq Seeded(state')
  BY SeededStay DEF Seeded
<1>2. CASE \E e \in Configs : Boot(e) \/ RefuseBoot(e)
  <2>1. vec' = vec /\ \A u \in Units : state'[u] = None => ~HoldsVectors(u)
    BY <1>2, SeedUnitsIs, SeedPlanIs DEF Boot, RefuseBoot, IndInv
  <2>2. \A u \in Units \ Seeded(state') : \A r \in RowsOf(u) : vec'[r] = NoVectors
    BY <2>1 DEF HoldsVectors, Seeded
  <2>3. NoVectors["a"] = None
    BY DEF NoVectors, Slots
  <2> QED BY <2>2, <2>3 DEF SeedIsPure
<1>3. CASE vec' = vec /\ (env' = env \/ env' = None)
  BY <1>1, <1>3 DEF SeedIsPure, FirstGuess
<1>4. ASSUME env' = env,
             \A r \in Rows : \/ vec'[r] = vec[r] \/ vec'[r] = NoVectors
                             \/ state[UnitOf[r]] # None
                             \/ env # None /\ vec'[r]["a"] = FirstGuess /\ FirstGuess # None
      PROVE  SeedIsPure'
  <2>1. NoVectors["a"] = None
    BY DEF NoVectors, Slots
  <2>2. ASSUME NEW u \in Units, state[u] = None, NEW r \in RowsOf(u)
        PROVE  /\ vec'[r]["a"] = None => vec'[r] = NoVectors
               /\ env # None => vec'[r]["a"] \in {None, FirstGuess}
               /\ vec'[r]["a"] # None /\ env = None => vec'[r]["a"] = vec[r]["a"]
    BY <1>4, <2>1, <2>2 DEF SeedIsPure, Seeded, RowsOf
  <2>3. ASSUME NEW u \in Units, state[u] = None, NEW r \in RowsOf(u), NEW q \in RowsOf(u),
               vec'[r]["a"] # None, vec'[q]["a"] # None
        PROVE  vec'[r]["a"] = vec'[q]["a"]
    <3>1. CASE env # None
      BY <2>2, <2>3, <3>1
    <3>2. CASE env = None
      BY <2>2, <2>3, <3>2 DEF SeedIsPure, Seeded
    <3> QED BY <3>1, <3>2
  <2> QED BY <1>1, <1>4, <2>2, <2>3 DEF SeedIsPure, FirstGuess, Seeded
<1>5. CASE vec' # vec
  <2>1. UNCHANGED env
    BY <1>5, VecWriters DEF RetireRows, StoreRow, CommitWrite, Forget, server
  <2>2. CASE RetireRows
    <3>1. pass.at \in Units /\ state[pass.at] # None
      BY <2>2 DEF RetireRows, IndInv, PassShape
    <3>2. \A r \in Rows : vec'[r] = vec[r] \/ r \in RowsOf(pass.at)
      BY <2>2 DEF RetireRows, Lowest
    <3> QED BY <1>4, <2>1, <3>1, <3>2 DEF RowsOf
  <2>3. ASSUME NEW q \in Rows, StoreRow(q) PROVE SeedIsPure'
    <3>1. q \in RowsOf(pass.at) /\ pass.at \in Units /\ state[pass.at] # None
      BY <2>3, SeenIs DEF StoreRow, SendsNext, WalkPCs, SlotInv, PageIsOfUnit
    <3>2. \A r \in Rows : vec'[r] = vec[r] \/ r = q
      BY <1>0, <2>3 DEF StoreRow
    <3> QED BY <1>4, <2>1, <3>1, <3>2 DEF RowsOf
  <2>4. ASSUME NEW q \in Rows, CommitWrite(q) PROVE SeedIsPure'
    <3>1. \A r \in Rows : r # q => vec'[r] = vec[r]
      BY <1>0, <2>4 DEF CommitWrite
    <3>2. inflight[q] # None /\ vec'[q] = SlotBinds(inflight[q])
      BY <1>0, <2>4 DEF CommitWrite
    <3>3. state[UnitOf[q]] = None => /\ env # None /\ inflight[q].slot = "a"
                                     /\ inflight[q].active = FirstGuess /\ FirstGuess # None
      BY <3>2, InFlight DEF WritesFit, WriteFits
    <3>4. state[UnitOf[q]] = None => env # None /\ vec'[q]["a"] = FirstGuess /\ FirstGuess # None
      BY <3>2, <3>3 DEF SlotBinds, Slots
    <3> QED BY <1>4, <2>1, <3>1, <3>4
  <2>5. ASSUME NEW q \in Rows, Forget(q) PROVE SeedIsPure'
    <3>1. \A r \in Rows : vec'[r] \in {vec[r], NoVectors}
      BY <1>0, <2>5 DEF Forget
    <3> QED BY <1>4, <2>1, <3>1
  <2> QED BY <1>5, <2>2, <2>3, <2>4, <2>5, VecWriters
<1>6. CASE ~\E e \in Configs : Boot(e) \/ RefuseBoot(e)
  <2>1. env' = env \/ env' = None
    BY <1>6, MemoryWriters DEF BeginPass, Crash
  <2> QED BY <1>3, <1>5, <2>1
<1> QED BY <1>2, <1>6

\* A write that commits into a unit with a state row brings each slot the vector
\* of its model, or none.
LEMMA CommitFits ==
    ASSUME IndInv, SlotInv, WritesFit, NEW r \in Rows, CommitWrite(r),
           NEW u \in Units, u = UnitOf[r], state[u] # None, NEW s \in Slots, state[u].model[s] # None
    PROVE  vec'[r][s] \in {None, state[u].model[s]}
<1> DEFINE w == inflight[r]
<1>1. /\ w \in Writes /\ w.active # None /\ vec'[r] = SlotBinds(w)
      /\ WriteFits(w, state[u])
  <2>1. w # None
    BY DEF CommitWrite
  <2> QED BY <2>1, InFlight DEF CommitWrite, WritesFit, IndInv, TypeOK
<1>2. CASE s = w.slot
  BY <1>1, <1>2 DEF WriteFits, SlotBinds, Writes
<1>3. CASE s # w.slot
  <2>1. s = Other(w.slot) /\ vec'[r][s] = w.second
    BY <1>1, <1>3 DEF SlotBinds, Writes, Slots, Other
  <2> QED BY <1>1, <2>1 DEF WriteFits
<1> QED BY <1>2, <1>3

\* An active slot stays pure.
LEMMA ActiveStep ==
    ASSUME IndInv, SlotInv, WritesFit, SeedIsPure, FlipIsPure, ActiveSlotPure, [Next]_vars
    PROVE  ActiveSlotPure'
<1>0. vec \in [Rows -> [Slots -> OptModels]]
  BY DEF IndInv, TypeOK
<1> SUFFICES ASSUME NEW u \in Units, state'[u] # None, NEW r \in RowsOf(u)
             PROVE  vec'[r][state'[u].slot] \in {None, ActiveModel(state'[u])}
  BY DEF ActiveSlotPure, Seeded, RowsOf
<1>1. r \in Rows /\ UnitOf[r] = u
  BY DEF RowsOf
<1>2. ASSUME state[u] # None, state'[u].slot = state[u].slot,
             ActiveModel(state'[u]) = ActiveModel(state[u]),
             vec'[r][state[u].slot] \in {None, vec[r][state[u].slot]}
      PROVE  vec'[r][state'[u].slot] \in {None, ActiveModel(state'[u])}
  BY <1>2 DEF ActiveSlotPure, Seeded
<1>3. CASE vec' # vec
  <2>1. state' = state
    BY <1>3, VecWriters DEF RetireRows, StoreRow, CommitWrite, Forget
  <2>2. state[u] \in UnitStates /\ state[u].slot \in Slots /\ ActiveModel(state[u]) # None
    BY <2>1 DEF IndInv, TypeOK, UnitStates, StatesLawful, Seeded, Lawful
  <2>3. CASE RetireRows
    <3>1. \A s \in Slots : vec'[r][s] \in {None, vec[r][s]}
      <4>1. PICK batch : vec' = [q \in Rows |-> IF q \in batch
                THEN [vec[q] EXCEPT ![Other(pass.seen.slot)] = None] ELSE vec[q]]
        BY <2>3 DEF RetireRows
      <4> QED BY <1>0, <1>1, <4>1
    <3> QED BY <1>2, <2>1, <2>2, <3>1
  <2>4. ASSUME NEW q \in Rows, StoreRow(q)
        PROVE  vec'[r][state'[u].slot] \in {None, ActiveModel(state'[u])}
    <3> DEFINE job == Head(pass.jobs)
    <3>1. /\ q \in RowsOf(pass.at)
          /\ vec' = IF StoreLands(q, job) THEN [vec EXCEPT ![q][job.slot] = job.model] ELSE vec
      BY <2>4 DEF StoreRow, SendsNext, SlotInv, PageIsOfUnit
    <3>2. StoreLands(q, job) => state[pass.at].model[job.slot] = job.model
      BY DEF StoreLands
    <3> HIDE DEF job
    <3>3. CASE vec'[r][state[u].slot] = vec[r][state[u].slot]
      BY <1>2, <2>1, <2>2, <3>3
    <3>4. CASE vec'[r][state[u].slot] # vec[r][state[u].slot]
      <4>1. q = r /\ StoreLands(q, job) /\ job.slot = state[u].slot /\ vec'[r][state[u].slot] = job.model
        BY <1>0, <1>1, <2>2, <3>1, <3>4
      <4>2. pass.at = u
        BY <1>1, <3>1, <4>1 DEF RowsOf
      <4> QED BY <2>1, <3>2, <4>1, <4>2 DEF ActiveModel
    <3> QED BY <3>3, <3>4
  <2>5. ASSUME NEW q \in Rows, CommitWrite(q)
        PROVE  vec'[r][state'[u].slot] \in {None, ActiveModel(state'[u])}
    <3>1. CASE q = r
      BY <1>1, <2>1, <2>2, <2>5, <3>1, CommitFits DEF ActiveModel
    <3>2. CASE q # r
      BY <1>0, <1>1, <1>2, <2>1, <2>5, <3>2 DEF CommitWrite
    <3> QED BY <3>1, <3>2
  <2>6. ASSUME NEW q \in Rows, Forget(q)
        PROVE  vec'[r][state'[u].slot] \in {None, ActiveModel(state'[u])}
    <3>1. vec'[r] \in {vec[r], NoVectors}
      BY <1>0, <1>1, <2>6 DEF Forget
    <3>2. NoVectors[state[u].slot] = None
      BY <2>2 DEF NoVectors
    <3> QED BY <1>2, <2>1, <3>1, <3>2
  <2> QED BY <1>3, <2>3, <2>4, <2>5, <2>6, VecWriters
<1>4. CASE vec' = vec
  <2>1. CASE state' = state
    BY <1>2, <1>4, <2>1
  <2>2. CASE ListUnits \/ \E e \in Configs : Boot(e) \/ RefuseBoot(e)
    <3>1. \/ state'[u] = state[u]
          \/ state[u] = None /\ HoldsVectors(u) /\ state'[u] = SeedPlan(u)
      BY <2>2, SeedUnitsIs DEF ListUnits, Boot, RefuseBoot, IndInv
    <3>2. CASE state'[u] = state[u]
      BY <1>2, <1>4, <3>2
    <3>3. CASE state[u] = None /\ HoldsVectors(u) /\ state'[u] = SeedPlan(u)
      <4>1. SeedPlan(u).slot = "a" /\ vec[r]["a"] \in {None, SeedPlan(u).model["a"]}
        BY <3>3, PureSeed
      <4> QED BY <1>4, <3>3, <4>1 DEF ActiveModel
    <3> QED BY <3>1, <3>2, <3>3
  <2>3. ASSUME NEW v \in Units, WalkUnit(v) \/ CloseWindow(v)
        PROVE  /\ state[u] # None /\ state'[u].slot = state[u].slot
               /\ ActiveModel(state'[u]) = ActiveModel(state[u])
    <3>1. CASE WalkUnit(v)
      BY <3>1, WalkState
    <3>2. CASE CloseWindow(v)
      BY <3>2, CloseState DEF ActiveModel
    <3> QED BY <2>3, <3>1, <3>2
  <2>4. CASE ClearSlot
    BY <1>2, <1>4, <2>4, ClearState
  <2>5. CASE CommitFlip
    <3>1. CASE u # pass.at
      BY <1>2, <1>4, <2>5, <3>1, FlipState
    <3>2. CASE u = pass.at
      <4>1. /\ pass.pc = "flipping" /\ state'[u].slot = Other(state[u].slot)
            /\ ActiveModel(state'[u]) = OtherModel(state[u])
        BY <2>5, <3>2, FlipState
      <4>2. state[u].slot = pass.seen.slot /\ OtherModel(state[u]) = OtherModel(pass.seen)
        BY <3>2, <4>1, SeenIs DEF WalkPCs
      <4> QED BY <1>4, <3>2, <4>1, <4>2 DEF FlipIsPure
    <3> QED BY <3>1, <3>2
  <2> QED BY <1>2, <1>4, <2>1, <2>2, <2>3, <2>4, <2>5, StateWriters
<1> QED BY <1>3, <1>4

\* The slot a flip goes to stays pure while the flip commits.
LEMMA FlipStep ==
    ASSUME IndInv, SlotInv, WritesFit, FlipIsPure, [Next]_vars
    PROVE  FlipIsPure'
<1>0. vec \in [Rows -> [Slots -> OptModels]] /\ pass \in Passes
  BY DEF IndInv, TypeOK
<1> SUFFICES ASSUME pass'.pc = "flipping", NEW r \in RowsOf(pass'.at)
             PROVE  vec'[r][Other(pass'.seen.slot)] \in {None, OtherModel(pass'.seen)}
  BY DEF FlipIsPure, RowsOf, OtherModel
<1>1. CASE pass' = pass
  <2>1. /\ pass.pc = "flipping" /\ pass.at \in Units /\ state[pass.at] # None /\ pass.seen.slot \in Slots
        /\ OtherModel(state[pass.at]) = OtherModel(pass.seen) /\ state[pass.at].slot = pass.seen.slot
    BY <1>1, SeenIs DEF WalkPCs, UnitStates
  <2>2. r \in Rows /\ UnitOf[r] = pass.at /\ Other(pass.seen.slot) \in Slots
    BY <1>1, <2>1, OtherSlot DEF RowsOf
  <2>3. vec[r][Other(pass.seen.slot)] \in {None, OtherModel(pass.seen)}
    BY <1>1, <2>1 DEF FlipIsPure
  <2>4. CASE vec' = vec
    BY <1>1, <2>3, <2>4
  <2>5. CASE RetireRows \/ \E q \in Rows : StoreRow(q)
    BY <2>1, <2>5 DEF RetireRows, StoreRow, SendsNext
  <2>6. ASSUME NEW q \in Rows, Forget(q)
        PROVE  vec'[r][Other(pass.seen.slot)] \in {None, OtherModel(pass.seen)}
    <3>1. vec'[r] \in {vec[r], NoVectors}
      BY <1>0, <2>2, <2>6 DEF Forget
    <3>2. NoVectors[Other(pass.seen.slot)] = None
      BY <2>2 DEF NoVectors
    <3> QED BY <2>3, <3>1, <3>2
  <2>7. ASSUME NEW q \in Rows, CommitWrite(q)
        PROVE  vec'[r][Other(pass.seen.slot)] \in {None, OtherModel(pass.seen)}
    <3>1. CASE q = r
      <4>1. state[pass.at].model[Other(pass.seen.slot)] = OtherModel(pass.seen) /\ OtherModel(pass.seen) # None
        BY <2>1 DEF OtherModel, IndInv, ReadyIsNamed
      <4> QED BY <2>1, <2>2, <2>7, <3>1, <4>1, CommitFits
    <3>2. CASE q # r
      BY <1>0, <2>2, <2>3, <2>7, <3>2 DEF CommitWrite
    <3> QED BY <3>1, <3>2
  <2> QED BY <1>1, <2>4, <2>5, <2>6, <2>7, VecWriters
<1>2. CASE Moves
  <2>1. /\ pass.pc = "flip" /\ LockFlip
        /\ pass'.view = pass.view /\ pass'.at = pass.at /\ pass'.seen = pass.seen
    BY <1>2 DEF Moves
  <2>2. /\ pass.seen \in UnitStates /\ pass.view \in Views /\ ActiveModel(pass.seen) # None
        /\ pass.seen.slot \in Slots /\ Other(pass.seen.slot) \in Slots
    BY <2>1, SeenIs, OtherSlot DEF WalkPCs, UnitStates
  <2>3. OtherModel(pass.seen) = pass.view.current /\ ActiveModel(pass.seen) = pass.view.previous
    BY <2>1 DEF SlotInv, FlipsToCurrent
  <2>4. Target(pass.seen, pass.view) = OtherModel(pass.seen)
    BY <2>2, <2>3 DEF Target
  <2>5. FlipAllowed(pass.at, pass.seen, Target(pass.seen, pass.view))
    BY <1>0, <2>1 DEF LockFlip, Passes
  <2>6. r \in RowsOf(pass.at) /\ r \in Rows
    BY <2>1 DEF RowsOf
  <2>7. Eligible(r) => vec[r][Other(pass.seen.slot)] = OtherModel(pass.seen)
    BY <2>4, <2>5, <2>6 DEF FlipAllowed, PendingRows, Pending
  <2>8. ~Eligible(r) => vec[r] = NoVectors
    BY <2>6 DEF Eligible, IndInv, TypeOK, SlotInv, RowsAreBare
  <2>9. vec' = vec
    BY <2>1 DEF LockFlip, store
  <2> QED BY <2>1, <2>2, <2>7, <2>8, <2>9 DEF NoVectors
<1>3. ~(BeginPass \/ ListUnits \/ Reload \/ CommitFlip \/ ClearSlot \/ \E u \in Units : WalkUnit(u))
  <2>1. BeginPass \/ ListUnits \/ Reload => pass'.pc \in {"list", "walk", "count", "report"}
    BY <1>0, IdleType DEF BeginPass, ListUnits, Reload, Passes
  <2> QED BY <2>1, FlipState, ClearState, WalkState
<1> QED BY <1>1, <1>2, <1>3, PassSteps

\* The store of a server that never migrated.
LEMMA InitPure == Init => PureInv
<1> SUFFICES ASSUME Init PROVE PureInv
  OBVIOUS
<1>1. /\ pass.pc = "idle" /\ env = None /\ Seeded(state) = {} /\ Seeded(cache) = {}
      /\ \A r \in Rows : inflight[r] = None
  BY IdleType DEF Init, Seeded
<1>2. GuessHolds
  BY <1>1 DEF Init, GuessHolds
<1>3. SeedIsPure
  <2>1. \A r \in Rows : vec[r]["a"] \in {None, FirstModel} /\ (vec[r]["a"] = None => vec[r] = NoVectors)
    BY MigrationAssumption, PhaseAssumption DEF Init, NoVectors, Slots
  <2> QED BY <1>1, <2>1 DEF SeedIsPure, RowsOf
<1> QED BY <1>1, <1>2, <1>3 DEF PureInv, CacheIsWhole, CacheIsNamed, SpareIsKnown, WritesFit, FlipIsPure,
           ActiveSlotPure

\* Every action keeps PureInv.
LEMMA NextPure == OneGuess /\ IndInv /\ SlotInv /\ PureInv /\ [Next]_vars => PureInv'
BY GuessStep, WholeStep, CacheStep, FitsStep, SeedStep, FlipStep, ActiveStep DEF PureInv

\* Where for_unit makes one guess, every vector a search compares in a unit's
\* active slot comes from the active model, whatever late writes and half-done
\* migrations left behind.
THEOREM ActiveVectors ==
    ASSUME OneGuess
    PROVE  Spec => []ActiveSlotPure
<1>1. OneGuess /\ IndInv /\ SlotInv /\ PureInv /\ [Next]_vars => PureInv'
  BY NextPure
<1>2. IndInv /\ SlotInv /\ PureInv /\ [Next]_vars => PureInv'
  BY <1>1
<1>3. PureInv => ActiveSlotPure
  BY DEF PureInv
<1> QED BY <1>2, <1>3, InitPure, Inductive, SlotsInductive, PTL DEF Spec

=============================================================================
