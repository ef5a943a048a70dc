------------------------- MODULE EmbeddingMigration -------------------------
(***************************************************************************)
(* The sweep that moves each unit of the store from one embedding model to *)
(* another while live writes go on, the `embeddings` command that steers   *)
(* it, and the boots and crashes in between.  One server process runs per  *)
(* database; inside it the sweep and the writers are concurrent tasks, and *)
(* the command is a process of its own.                                    *)
(*                                                                         *)
(* A statement of the store is one step.  Between two statements of a pass *)
(* any other task may run.  What each process remembers (the cached states *)
(* and view, a write's resolved slots, the pass's own reads) is state of   *)
(* its own and may be stale when it is used.                               *)
(*                                                                         *)
(* Data: a vector is the model it came from (None: NULL).  A row's kind    *)
(* says what its text column holds: "plain" (content), "private" (content  *)
(* is NULL, ciphertext beside it), "gone" (sealed, revoked or deleted: no  *)
(* vector may ever land on it), "absent" (not written yet).                *)
(***************************************************************************)
EXTENDS EmbeddingPhase, FiniteSets

CONSTANTS
    Rows,        \* row ids, numbers because the fill pages by id
    UnitOf,      \* the unit of each row
    Mode,        \* "command" or "env": EMBED_MIGRATION_CONTROL
    Configs,     \* the .env files a boot may find
    Typed,       \* the .env files a command may be typed beside
    FirstModel,  \* the model of the store the migration starts from
    RowKinds,    \* the kinds of rows written: "plain", "private" or both
    KekVerified, \* whether boot verified the key of the private rows
    Page,        \* PAGE, rows a fill reads at a time
    RetireBatch, \* RETIRE_BATCH, rows one retire statement clears
    FailLimit,   \* FAILURES_TO_FAIL
    MaxGen,      \* bound on the control row's generation
    MaxFaults    \* bound on refusals, outages, errors, timeouts and crashes

\* An .env: the blocks in order and, for env mode, EMBED_RETIRE and EMBED_FLIP.
Envs == [blocks : BlockLists, retire : OptModels, flip : SUBSET Units]

ASSUME MigrationAssumption ==
    /\ Rows \subseteq Nat
    /\ IsFiniteSet(Rows)
    /\ UnitOf \in [Rows -> Units]
    /\ Mode \in {"command", "env"}
    /\ Configs \subseteq Envs /\ Typed \subseteq Envs /\ None \notin Envs
    /\ FirstModel \in Models
    /\ RowKinds \subseteq {"plain", "private"}
    /\ KekVerified \in BOOLEAN
    /\ Page \in Nat \ {0}
    /\ RetireBatch \in Nat \ {0}
    /\ FailLimit \in Nat \ {0}
    /\ MaxGen \in Nat
    /\ MaxFaults \in Nat

VARIABLES
    kind,       \* per row: what the text columns hold
    vec,        \* per row and slot: the model of the vector, None for NULL
    state,      \* per unit: its embedding_state row, None without one
    intent,     \* embedding_control: the operator's half
    published,  \* embedding_control: failed-row flag per unit, None unpublished
    env,        \* the running server's .env, None while it is down
    configured, \* EmbedderSet.configured
    cache,      \* EmbedderSet.states
    inflight,   \* per row: the write that has resolved its slots, or None
    failures,   \* Book.failures: refusals per row and slot
    kekSkipped, \* Book.kek_skipped
    status,     \* SweepStatus.units: failed-row flag per unit
    pass,       \* the pass's program counter and local variables
    cmd,        \* the command between its reads and its decision, or None
    faults      \* faults injected so far

store   == <<kind, vec, state>>
control == <<intent, published, cmd>>
book    == <<failures, kekSkipped, status>>
server  == <<env, configured, cache>>
vars    == <<kind, vec, state, intent, published, env, configured, cache,
             inflight, failures, kekSkipped, status, pass, cmd, faults>>

-----------------------------------------------------------------------------
(* The store's predicates.                                                 *)

RowsOf(u) == {r \in Rows : UnitOf[r] = u}

NoVectors == [s \in Slots |-> None]

\* Not sealed, and with text or a vector.
Eligible(r) == \/ kind[r] = "plain"
               \/ kind[r] = "private" /\ vec[r] # NoVectors

Pending(r, slot, model) == Eligible(r) /\ vec[r][slot] # model

Hole(r, slot) == Eligible(r) /\ vec[r][slot] = None

PendingRows(u, slot, model) == {r \in RowsOf(u) : Pending(r, slot, model)}

Holes(u, slot) == {r \in RowsOf(u) : Hole(r, slot)}

ForeignRows(u, st) == {r \in RowsOf(u) : vec[r][st.slot] \notin {None, ActiveModel(st)}}

OtherPending(u, st, goal) ==
    goal # None /\ PendingRows(u, Other(st.slot), goal) # {}

\* The majority model of a slot; a tie goes to the lower id, which here may
\* be any of the tied ones.
Majority(u, slot) ==
    LET Count(m) == Cardinality({r \in RowsOf(u) : vec[r][slot] = m})
        best == {m \in Models : Count(m) > 0 /\ \A n \in Models : Count(n) <= Count(m)}
    IN IF best = {} THEN None ELSE CHOOSE m \in best : TRUE

\* One state row from the vectors a unit holds.
SeedPlan(u) ==
    LET a == Majority(u, "a")
        b == Majority(u, "b")
    IN [slot   |-> IF a # None THEN "a" ELSE "b",
        model  |-> [s \in Slots |-> IF s = "a" THEN a
                                    ELSE IF b = a THEN None ELSE b],
        window |-> "never"]

HoldsVectors(u) == \E r \in RowsOf(u) : vec[r] # NoVectors

\* Seeding never overwrites a state row.
SeedUnits(units) ==
    [u \in Units |-> IF u \in units /\ state[u] = None /\ HoldsVectors(u)
                     THEN SeedPlan(u) ELSE state[u]]

-----------------------------------------------------------------------------
(* The pass's local state.  pc names the statement it executes next.       *)

PCs == {"idle", "list", "walk", "named", "count", "fill", "send", "flip",
        "flipping", "retire", "delete", "clear", "changed", "report"}

Jobs == [slot : Slots, model : Models, holes : BOOLEAN]

Passes == [pc : PCs,
           view : Views \cup {None},       \* the view this pass derived
           todo : SUBSET Units,            \* units not walked yet
           at : Units \cup {None},         \* the unit being walked
           seen : UnitStates \cup {None},  \* its state as the pass read it
           beneath : Phases \cup {None},   \* its phase as the pass counted it
           blocked : BOOLEAN,              \* a service reason held at the count
           jobs : Seq(Jobs),               \* fills still to run
           read : SUBSET Rows,             \* rows read: the cursor is past them
           page : SUBSET Rows,             \* rows read and not sent yet
           tally : {"none", "dropped", "landed"}, \* what the page's stores did
           done : BOOLEAN,                 \* every fill so far ended Done
           skipped : BOOLEAN,              \* a private row was skipped
           up : SUBSET Models,             \* models that answered this pass
           down : SUBSET Models]           \* models whose probe failed

Idle == [pc |-> "idle", view |-> None, todo |-> {}, at |-> None, seen |-> None,
         beneath |-> None, blocked |-> FALSE, jobs |-> <<>>, read |-> {},
         page |-> {}, tally |-> "none", done |-> TRUE,
         skipped |-> FALSE, up |-> {}, down |-> {}]

Writes == [slot : Slots, active : Models, second : OptModels,
           kind : {"plain", "private"}]

Commands == [verb : Verbs, blocks : BlockLists,
             published : [Units -> BOOLEAN \cup {None}]]

TypeOK ==
    /\ kind \in [Rows -> {"absent", "plain", "private", "gone"}]
    /\ vec \in [Rows -> [Slots -> OptModels]]
    /\ state \in [Units -> UnitStates \cup {None}]
    /\ intent \in Intents
    /\ published \in [Units -> BOOLEAN \cup {None}]
    /\ env \in Envs \cup {None}
    /\ configured \in Views \cup {None}
    /\ cache \in [Units -> UnitStates \cup {None}]
    /\ inflight \in [Rows -> Writes \cup {None}]
    /\ failures \in [Rows -> [Slots -> 0 .. FailLimit]]
    /\ kekSkipped \subseteq Units
    /\ status \in [Units -> BOOLEAN \cup {None}]
    /\ pass \in Passes
    /\ cmd \in Commands \cup {None}
    /\ faults \in 0 .. MaxFaults

\* The store of a server that never migrated, before the first boot on this
\* schema: vectors in slot a under one model, and no state row.
Init ==
    /\ kind \in [Rows -> {"absent"} \cup RowKinds]
    /\ vec = [r \in Rows |-> [s \in Slots |->
                IF s = "a" /\ kind[r] # "absent" THEN FirstModel ELSE None]]
    /\ state = [u \in Units |-> None]
    /\ intent = [gen |-> 0, target |-> None, flip |-> FALSE, retire |-> None,
                 verb |-> None]
    /\ published = [u \in Units |-> None]
    /\ env = None
    /\ configured = None
    /\ cache = [u \in Units |-> None]
    /\ inflight = [r \in Rows |-> None]
    /\ failures = [r \in Rows |-> [s \in Slots |-> 0]]
    /\ kekSkipped = {}
    /\ status = [u \in Units |-> None]
    /\ pass = Idle
    /\ cmd = None
    /\ faults = 0

Fault == faults < MaxFaults /\ faults' = faults + 1

-----------------------------------------------------------------------------
(* Boot and crash.                                                         *)

EnvView(e) ==
    [current |-> e.blocks[1],
     previous |-> IF Len(e.blocks) = 2 THEN e.blocks[2] ELSE None,
     retire |-> e.retire, flip |-> e.flip, gen |-> 0]

\* The views a process with .env e may run on, given the unit states.
ViewsFrom(e, st) ==
    IF Mode = "env" THEN {EnvView(e)}
    ELSE ConfiguredFromIntent(intent, e.blocks,
            IF st[DefaultUnit] = None THEN None ELSE ActiveModel(st[DefaultUnit]))

\* Seeds the whole store, checks, then loads the caches.
Boot(e) ==
    /\ env = None
    /\ state' = SeedUnits(Units)
    /\ \E v \in ViewsFrom(e, SeedUnits(Units)) :
          /\ BootCheck(SeedUnits(Units), v, e.blocks)
          /\ configured' = v
    /\ env' = e
    /\ cache' = SeedUnits(Units)
    /\ UNCHANGED <<kind, vec, control, inflight, book, pass, faults>>

\* A boot the checks refuse has seeded the store all the same.
RefuseBoot(e) ==
    /\ env = None
    /\ \A v \in ViewsFrom(e, SeedUnits(Units)) :
          ~BootCheck(SeedUnits(Units), v, e.blocks)
    /\ state' = SeedUnits(Units)
    /\ UNCHANGED <<kind, vec, control, server, inflight, book, pass, faults>>

\* A crash or a restart: everything in memory is gone, writes in flight too.
Crash ==
    /\ env # None
    /\ Fault
    /\ env' = None
    /\ configured' = None
    /\ cache' = [u \in Units |-> None]
    /\ inflight' = [r \in Rows |-> None]
    /\ failures' = [r \in Rows |-> [s \in Slots |-> 0]]
    /\ kekSkipped' = {}
    /\ status' = [u \in Units |-> None]
    /\ pass' = Idle
    /\ UNCHANGED <<store, control>>

-----------------------------------------------------------------------------
(* Live writes and forgets.                                                *)

\* A write resolves its slots and models from the caches, then embeds.  The
\* active vector is required; the second may time out.
StartWrite(r, k) ==
    /\ env # None
    /\ kind[r] = "absent"
    /\ inflight[r] = None
    /\ \E ue \in ForUnit(cache[UnitOf[r]], configured, Ids(env.blocks)) :
          \E second \in {ue.second, None} :
              inflight' = [inflight EXCEPT ![r] =
                  [slot |-> ue.slot, active |-> ue.active, second |-> second,
                   kind |-> k]]
    /\ UNCHANGED <<store, control, server, book, pass, faults>>

\* Mutant: binds that take the active vector for slot a's.
BindsInOrder(w) ==
    [s \in Slots |-> IF s = "a" THEN w.active ELSE w.second]

\* slot_binds: each vector in the slot the write resolved it for.
SlotBinds(w) ==
    [s \in Slots |-> IF s = w.slot THEN w.active ELSE w.second]

\* The insert consults no state row.
CommitWrite(r) ==
    /\ inflight[r] # None
    /\ kind' = [kind EXCEPT ![r] = inflight[r].kind]
    /\ vec' = [vec EXCEPT ![r] = SlotBinds(inflight[r])]
    /\ inflight' = [inflight EXCEPT ![r] = None]
    /\ UNCHANGED <<state, control, server, book, pass, faults>>

\* A revocation or a delete: the text and both vectors go.
Forget(r) ==
    /\ kind[r] \in {"plain", "private"}
    /\ env # None
    /\ kind' = [kind EXCEPT ![r] = "gone"]
    /\ vec' = [vec EXCEPT ![r] = NoVectors]
    /\ UNCHANGED <<state, control, server, inflight, book, pass, faults>>

\* flipped_at + EMBED_ROLLBACK_DAYS passes.
CloseWindow(u) ==
    /\ state[u] # None
    /\ state[u].window = "open"
    /\ state' = [state EXCEPT ![u].window = "closed"]
    /\ UNCHANGED <<kind, vec, control, server, inflight, book, pass, faults>>

-----------------------------------------------------------------------------
(* The command.                                                            *)

\* The command reads the published status, then waits for the control row.
ReadStatus(verb, e) ==
    /\ Mode = "command"
    /\ cmd = None
    /\ intent.gen < MaxGen
    /\ cmd' = [verb |-> verb, blocks |-> e.blocks, published |-> published]
    /\ UNCHANGED <<store, intent, published, server, inflight, book, pass, faults>>

\* Under the control row's lock, which a flip's transaction shares until it
\* ends.  Intent and states are read again; the published status is not.
ChangeIntent ==
    /\ cmd # None
    /\ pass.pc # "flipping"
    /\ \E c \in Decide(cmd.verb, intent, cmd.blocks, state, cmd.published) :
          intent' = [gen |-> intent.gen + 1, target |-> c.target, flip |-> c.flip,
                     retire |-> c.retire, verb |-> c.verb]
    /\ cmd' = None
    /\ UNCHANGED <<store, published, server, inflight, book, pass, faults>>

\* NoOp, or refused: by the verb's rules, the disk floor or the probe.
RefuseCommand ==
    /\ cmd # None
    /\ cmd' = None
    /\ UNCHANGED <<store, intent, published, server, inflight, book, pass, faults>>

-----------------------------------------------------------------------------
(* The pass.  It ends through finish, which publishes in command mode; the *)
(* server is up whenever pass.pc is not "idle".                            *)

Finish ==
    /\ published' = IF Mode = "command" THEN status ELSE published
    /\ pass' = Idle

\* Step 0: the view.  An Err view is published and ends the pass at once.
BeginPass ==
    /\ env # None
    /\ pass.pc = "idle"
    /\ \E v \in ViewsFrom(env, state) :
          /\ configured' = v
          /\ pass' = [Idle EXCEPT !.pc = "list", !.view = v]
    /\ UNCHANGED <<store, control, env, cache, inflight, book, faults>>

BeginPassWithoutView ==
    /\ env # None
    /\ pass.pc = "idle"
    /\ ViewsFrom(env, state) = {}
    /\ Finish
    /\ UNCHANGED <<store, intent, cmd, server, inflight, book, faults>>

\* Mutant: the request path's states reloaded only at boot.
ListUnitsCached ==
    /\ pass.pc = "list"
    /\ LET walk == {DefaultUnit} \cup Seeded(state)
       IN /\ state' = SeedUnits(walk)
          /\ pass' = [pass EXCEPT !.pc = "walk", !.todo = walk]
    /\ UNCHANGED <<kind, vec, control, server, inflight, book, faults>>

\* Step 2: the listed unit and every unit with a state row, the first seeded
\* when it holds vectors and has none.
ListUnits ==
    /\ pass.pc = "list"
    /\ LET walk == {DefaultUnit} \cup Seeded(state)
       IN /\ state' = SeedUnits(walk)
          /\ cache' = SeedUnits(walk)
          /\ pass' = [pass EXCEPT !.pc = "walk", !.todo = walk]
    /\ UNCHANGED <<kind, vec, control, env, configured, inflight, book, faults>>

\* name_slot: only while the slot is inactive and empty and the other slot
\* names another model.  The row as it is after the statement.
Named(st, slot, model) ==
    IF /\ st.slot # slot
       /\ st.model[slot] = None
       /\ st.model[Other(slot)] # model
    THEN [st EXCEPT !.model[slot] = model] ELSE st

\* walk_unit up to the reload.  Listed units go first.  Only the sweep writes
\* a state row while the server runs, so its read and its name are one step.
WalkUnit(u) ==
    /\ pass.pc = "walk"
    /\ u \in pass.todo
    /\ DefaultUnit \in pass.todo => u = DefaultUnit
    /\ state[u] # None
    /\ LET goal  == Target(state[u], pass.view)
           named == Named(state[u], Other(state[u].slot), goal)
           name  == goal # None /\ OtherModel(state[u]) = None
       IN /\ state' = IF name THEN [state EXCEPT ![u] = named] ELSE state
          /\ pass' = [pass EXCEPT !.at = u, !.seen = state[u],
                        !.pc = IF name /\ named # state[u] THEN "named" ELSE "count"]
    /\ UNCHANGED <<kind, vec, control, server, inflight, book, faults>>

\* A unit with no state row holds nothing to move.
SkipUnit(u) ==
    /\ pass.pc = "walk"
    /\ u \in pass.todo
    /\ DefaultUnit \in pass.todo => u = DefaultUnit
    /\ state[u] = None
    /\ pass' = [pass EXCEPT !.todo = @ \ {u}]
    /\ UNCHANGED <<store, control, server, inflight, book, faults>>

\* reload: after a slot was named, flipped or cleared.
Reload ==
    /\ pass.pc \in {"named", "changed"}
    /\ cache' = [cache EXCEPT ![pass.at] = state[pass.at]]
    /\ pass' = [pass EXCEPT !.seen = state[pass.at],
                  !.pc = IF @ = "named" THEN "count" ELSE "report"]
    /\ UNCHANGED <<store, control, env, configured, inflight, book, faults>>

\* Rows that have been refused often enough to block their unit.
FailedRows(u) ==
    {r \in RowsOf(u) : \E s \in Slots : failures[r][s] >= FailLimit}

\* Mutant: failures are forgotten by a restart only.
ForgetNothing(u, slots, kept) == failures

\* forget_unseen: the failures of a unit's slot, except those of `kept`.
ForgetUnseen(u, slots, kept) ==
    [r \in Rows |-> [s \in Slots |->
        IF r \in RowsOf(u) \ kept /\ s \in slots THEN 0 ELSE failures[r][s]]]

\* Counts, the phase beneath, the fills it asks for and the service reason.
CountUnit ==
    /\ pass.pc = "count"
    /\ LET u        == pass.at
           st       == pass.seen
           goal     == Target(st, pass.view)
           pending  == OtherPending(u, st, goal)
           beneath  == Phase(u, st, pass.view, pending)
           holes    == beneath = "steady"
           missing  == \/ Holes(u, st.slot) # {}
                       \/ ~holes /\ ForeignRows(u, st) # {}
           cleared  == (IF pending THEN {} ELSE {Other(st.slot)})
                         \cup (IF missing THEN {} ELSE {st.slot})
           kept     == ForgetUnseen(u, cleared, {})
           blocked  == \/ u \in kekSkipped
                       \/ \E r \in RowsOf(u), s \in Slots : kept[r][s] >= FailLimit
           active   == [slot |-> st.slot, model |-> ActiveModel(st), holes |-> holes]
           other    == [slot |-> Other(st.slot), model |-> goal, holes |-> FALSE]
           fillA    == missing /\ beneath \in {"steady", "flipped", "retiring"}
           fillB    == /\ pending
                       /\ \/ beneath \in {"filling", "held", "flipped", "guessed"}
                          \/ beneath = "ready" /\ blocked
       IN /\ failures' = kept
          /\ pass' = [pass EXCEPT !.pc = "fill", !.beneath = beneath,
                        !.blocked = blocked, !.done = TRUE, !.skipped = FALSE,
                        !.read = {},
                        !.jobs = (IF fillA THEN <<active>> ELSE <<>>)
                                   \o (IF fillB THEN <<other>> ELSE <<>>)]
    /\ UNCHANGED <<store, control, server, inflight, kekSkipped, status, faults>>

\* Mutant: off by one.
LowestButOne(rows, n) == {r \in rows : Cardinality({q \in rows : q < r}) + 1 < n}

\* The n lowest ids of a set of rows.
Lowest(rows, n) == {r \in rows : Cardinality({q \in rows : q < r}) < n}

\* Ends the fill at hand; the next one starts from the lowest id.
EndFill(p, done) ==
    [p EXCEPT !.pc = "fill", !.jobs = Tail(@), !.read = {},
              !.page = {}, !.tally = "none", !.done = @ /\ done]

\* gate: a command that moved the control row ends the pass.
GateOpen == intent.gen = pass.view.gen

\* The next page of the fill at hand: next_batch or next_holes past the cursor.
NextPage ==
    LET job == Head(pass.jobs)
    IN Lowest({r \in IF job.holes THEN Holes(pass.at, job.slot)
                     ELSE PendingRows(pass.at, job.slot, job.model) :
                 \A q \in pass.read : r > q}, Page)

\* The pass once it has read `rows` and opened those of `open`.
TakePage(rows, open, skipped) ==
    [pass EXCEPT !.pc = "send", !.page = open, !.tally = "none",
                 !.read = @ \cup rows,
                 !.skipped = @ \/ skipped]

PlainRows(rows) == {r \in rows : kind[r] = "plain"}

\* A model this process has no embedder for, or one that is down, ends its
\* fill; so does a page with no rows, which settles the failures not seen.
\* Without a verified key the private rows of a page are left out.
ReadPage ==
    /\ pass.pc = "fill"
    /\ pass.jobs # <<>>
    /\ LET job    == Head(pass.jobs)
           rows   == NextPage
           open   == IF KekVerified THEN rows ELSE PlainRows(rows)
           usable == job.model \in Ids(env.blocks) \ pass.down
       IN \/ /\ ~usable
             /\ pass' = EndFill(pass, FALSE)
             /\ UNCHANGED failures
          \/ /\ usable /\ GateOpen /\ rows = {}
             /\ failures' = ForgetUnseen(pass.at, {job.slot}, pass.read)
             /\ pass' = EndFill(pass, TRUE)
          \/ /\ usable /\ GateOpen /\ rows # {}
             /\ pass' = TakePage(rows, open, open # rows)
             /\ UNCHANGED failures
    /\ UNCHANGED <<store, control, server, inflight, kekSkipped, status, faults>>

\* The opener fails for the whole page: its private rows are left out and
\* nothing marks the unit.
LoseKey ==
    /\ pass.pc = "fill"
    /\ pass.jobs # <<>>
    /\ KekVerified
    /\ Head(pass.jobs).model \in Ids(env.blocks) \ pass.down
    /\ GateOpen
    /\ NextPage # PlainRows(NextPage)
    /\ Fault
    /\ pass' = TakePage(NextPage, PlainRows(NextPage), FALSE)
    /\ UNCHANGED <<store, control, server, inflight, book>>

\* r is the row the page sends next.
SendsNext(r) ==
    /\ pass.pc = "send"
    /\ r \in pass.page
    /\ \A q \in pass.page : r <= q

\* STORE's guard: still eligible, still pending, and the state row still
\* names the model in the slot.
StoreLands(r, job) ==
    /\ Pending(r, job.slot, job.model)
    /\ state[pass.at] # None
    /\ state[pass.at].model[job.slot] = job.model

\* The embedder answers for the row and its vector is stored, or dropped by
\* the guard.  Either way the row leaves the failed set.
StoreRow(r) ==
    /\ SendsNext(r)
    /\ LET job   == Head(pass.jobs)
           lands == StoreLands(r, job)
       IN /\ vec' = IF lands THEN [vec EXCEPT ![r][job.slot] = job.model] ELSE vec
          /\ failures' = [failures EXCEPT ![r][job.slot] = 0]
          /\ pass' = [pass EXCEPT !.page = @ \ {r}, !.up = @ \cup {job.model},
                        !.tally = IF lands THEN "landed"
                                  ELSE IF @ = "none" THEN "dropped" ELSE @]
    /\ UNCHANGED <<kind, state, control, server, inflight, kekSkipped, status, faults>>

\* One failure more against a row; the count stops at the limit, past which it
\* makes no difference.
CountFailure(r, slot) ==
    [failures EXCEPT ![r][slot] = IF @ < FailLimit THEN @ + 1 ELSE @]

\* The embedder refuses the row alone but answers another request or the
\* probe.  A row sent alone from the start counts as landed, one refused after
\* its page was does not.
RefuseRow(r) ==
    /\ SendsNext(r)
    /\ Fault
    /\ LET job == Head(pass.jobs)
       IN /\ failures' = CountFailure(r, job.slot)
          /\ \E tally \in {pass.tally, "landed"} :
                pass' = [pass EXCEPT !.page = @ \ {r}, !.tally = tally,
                                     !.up = @ \cup {job.model}]
    /\ UNCHANGED <<store, control, server, inflight, kekSkipped, status>>

\* The opener leaves a private row out of its answer.
OmitRow(r) ==
    /\ pass.pc = "send"
    /\ r \in pass.page
    /\ kind[r] = "private"
    /\ Fault
    /\ failures' = CountFailure(r, Head(pass.jobs).slot)
    /\ pass' = [pass EXCEPT !.page = @ \ {r}]
    /\ UNCHANGED <<store, control, server, inflight, kekSkipped, status>>

\* A model that has answered nothing this pass refuses a row and its probe: it
\* counts against no row, and the model is down for the rest of the pass.
Outage ==
    /\ pass.pc = "send"
    /\ pass.page # {}
    /\ Head(pass.jobs).model \notin pass.up
    /\ Fault
    /\ pass' = [EndFill(pass, FALSE) EXCEPT !.down = @ \cup {Head(pass.jobs).model}]
    /\ UNCHANGED <<store, control, server, inflight, book>>

\* FILL_BUDGET runs out: this fill ends and the next one does not start.
Budget ==
    /\ pass.pc \in {"fill", "send"}
    /\ pass.jobs # <<>>
    /\ Fault
    /\ pass' = [EndFill(pass, FALSE) EXCEPT !.jobs = <<>>]
    /\ UNCHANGED <<store, control, server, inflight, book>>

\* A page sent: a page of which nothing landed ends the fill.
EndPage ==
    /\ pass.pc = "send"
    /\ pass.page = {}
    /\ pass' = IF pass.tally = "dropped" THEN EndFill(pass, FALSE)
               ELSE [pass EXCEPT !.pc = "fill", !.tally = "none"]
    /\ UNCHANGED <<store, control, server, inflight, book, faults>>

\* Mutant: a retire that leaves the rollback window to the command.
MayRetireAtOnce(u, st) == Holes(u, st.slot) = {}

\* The recount before a retire: no active hole, and the window has passed.
MayRetire(u, st) == Holes(u, st.slot) = {} /\ state[u].window # "open"

\* note_kek, then what the phase calls for once the fills have ended.
EndFills ==
    /\ pass.pc = "fill"
    /\ pass.jobs = <<>>
    /\ kekSkipped' = IF pass.skipped THEN kekSkipped \cup {pass.at}
                     ELSE IF pass.done THEN kekSkipped \ {pass.at} ELSE kekSkipped
    /\ pass' = [pass EXCEPT !.pc =
          IF pass.beneath = "ready" /\ ~pass.blocked THEN "flip"
          ELSE IF /\ pass.beneath = "retiring" /\ pass.done
                  /\ MayRetire(pass.at, pass.seen) THEN "retire"
          ELSE "report"]
    /\ UNCHANGED <<store, control, server, inflight, failures, status, faults>>

-----------------------------------------------------------------------------
(* Flip and retire.                                                        *)

\* Mutant: a flip that trusts the phase the pass derived before its fills.
FlipAllowedUncounted(u, st, goal) == intent.gen = pass.view.gen

\* Mutant: a flip that does not look at the control row again.
FlipAllowedAnyGeneration(u, st, goal) == PendingRows(u, Other(st.slot), goal) = {}

\* flip_tx under its locks: the state row as the pass read it, the generation
\* unmoved, nothing pending in the target slot.
FlipAllowed(u, st, goal) ==
    /\ [state[u] EXCEPT !.window = st.window] = st
    /\ intent.gen = pass.view.gen
    /\ PendingRows(u, Other(st.slot), goal) = {}

LockFlip ==
    /\ pass.pc = "flip"
    /\ pass' = [pass EXCEPT !.pc =
          IF FlipAllowed(pass.at, pass.seen, Target(pass.seen, pass.view))
          THEN "flipping" ELSE "report",
          !.read = RowsOf(pass.at) \cap {r \in Rows : Eligible(r)}]
    /\ UNCHANGED <<store, control, server, inflight, book, faults>>

\* The pointer moves, and commits with the conflict pairs' deletion.
CommitFlip ==
    /\ pass.pc = "flipping"
    /\ state' = [state EXCEPT ![pass.at].slot = Other(@), ![pass.at].window = "open"]
    /\ pass' = [pass EXCEPT !.pc = "changed"]
    /\ UNCHANGED <<kind, vec, control, server, inflight, book, faults>>

\* lock_timeout while the flip waits for the conflict key: nothing written.
TimeOutFlip ==
    /\ pass.pc \in {"flip", "flipping"}
    /\ Fault
    /\ pass' = [pass EXCEPT !.pc = "report"]
    /\ UNCHANGED <<store, control, server, inflight, book>>

\* The gate before a batch is a statement of its own: a command may commit
\* between it and the batch.
PassGate ==
    /\ pass.pc = "retire"
    /\ GateOpen
    /\ pass' = [pass EXCEPT !.pc = "delete"]
    /\ UNCHANGED <<store, control, server, inflight, book, faults>>

\* One retire_batch.  The statement touches the slot only while it is
\* inactive; a batch that finds nothing leads to clear_slot.
RetireRows ==
    /\ pass.pc = "delete"
    /\ LET slot  == Other(pass.seen.slot)
           found == {r \in RowsOf(pass.at) : vec[r][slot] = pass.view.retire}
           batch == IF state[pass.at].slot # slot THEN Lowest(found, RetireBatch) ELSE {}
       IN /\ vec' = [r \in Rows |-> IF r \in batch
                                    THEN [vec[r] EXCEPT ![slot] = None] ELSE vec[r]]
          /\ pass' = [pass EXCEPT !.pc = IF batch = {} THEN "clear" ELSE "retire"]
    /\ UNCHANGED <<kind, state, control, server, inflight, book, faults>>

\* Mutant: CLEAR_SLOT without its NOT EXISTS on the rows.
ClearableAnyway(u, slot, model) ==
    state[u].model[slot] = model /\ state[u].slot # slot

\* clear_slot's guard: named, inactive, and no row carries the model.
Clearable(u, slot, model) ==
    /\ state[u].model[slot] = model
    /\ state[u].slot # slot
    /\ \A r \in RowsOf(u) : vec[r][slot] # model

Cleared(st, slot) == [st EXCEPT !.model[slot] = None]

ClearSlot ==
    /\ pass.pc = "clear"
    /\ LET u     == pass.at
           slot  == Other(pass.seen.slot)
           clear == Clearable(u, slot, pass.view.retire)
       IN /\ state' = IF clear THEN [state EXCEPT ![u] = Cleared(@, slot)] ELSE state
          /\ pass' = [pass EXCEPT !.pc = IF clear THEN "changed" ELSE "report"]
    /\ UNCHANGED <<kind, vec, control, server, inflight, book, faults>>

-----------------------------------------------------------------------------
(* The ends of a walk and of a pass.                                       *)

ReportUnit ==
    /\ pass.pc = "report"
    /\ status' = [status EXCEPT ![pass.at] = FailedRows(pass.at) # {}]
    /\ pass' = [Idle EXCEPT !.pc = "walk", !.view = pass.view,
                            !.todo = pass.todo \ {pass.at},
                            !.up = pass.up, !.down = pass.down]
    /\ UNCHANGED <<store, control, server, inflight, failures, kekSkipped, faults>>

EndPass ==
    /\ pass.pc = "walk"
    /\ pass.todo = {}
    /\ Finish
    /\ UNCHANGED <<store, intent, cmd, server, inflight, book, faults>>

\* The gate before a page or a retire batch finds the generation moved.
StopAtGate ==
    /\ \/ pass.pc = "fill" /\ pass.jobs # <<>>
       \/ pass.pc = "retire"
    /\ ~GateOpen
    /\ Finish
    /\ UNCHANGED <<store, intent, cmd, server, inflight, book, faults>>

\* A store error at any statement, or the disk floor at a gate.  Publishing may
\* fail as well.
StopPass ==
    /\ pass.pc # "idle"
    /\ Fault
    /\ Finish \/ (pass' = Idle /\ UNCHANGED published)
    /\ UNCHANGED <<store, intent, cmd, server, inflight, book>>

Sweep ==
    \/ BeginPass \/ BeginPassWithoutView \/ ListUnits
    \/ \E u \in Units : WalkUnit(u) \/ SkipUnit(u)
    \/ Reload \/ CountUnit \/ ReadPage \/ EndPage
    \/ \E r \in Rows : StoreRow(r)
    \/ EndFills \/ LockFlip \/ CommitFlip \/ PassGate \/ RetireRows \/ ClearSlot
    \/ ReportUnit \/ EndPass \/ StopAtGate

Faulty ==
    \/ LoseKey \/ Outage \/ Budget \/ TimeOutFlip \/ StopPass \/ Crash
    \/ \E r \in Rows : RefuseRow(r) \/ OmitRow(r)

Operator ==
    \/ \E e \in Configs : Boot(e) \/ RefuseBoot(e)
    \/ \E verb \in Verbs, e \in Typed : ReadStatus(verb, e)
    \/ ChangeIntent \/ RefuseCommand
    \/ \E u \in Units : CloseWindow(u)

Writer ==
    \E r \in Rows : \/ \E k \in RowKinds : StartWrite(r, k)
                    \/ CommitWrite(r)
                    \/ Forget(r)

Next == Sweep \/ Faulty \/ Operator \/ Writer

Spec == Init /\ [][Next]_vars

-----------------------------------------------------------------------------
(* Safety.                                                                 *)

\* The state rows satisfy the schema's CHECK constraints after any sequence of
\* seeds, names, flips and clears: a constraint that fired would end a pass.
StatesLawful == \A u \in Seeded(state) : Lawful(state[u])

\* No unit ever serves a model the running server has no embedder for, which
\* for_unit would answer with an error on every request.
ActiveIsBuilt ==
    env # None => \A u \in Seeded(state) : ActiveModel(state[u]) \in Ids(env.blocks)

\* embedders.rs: "A stale entry is safe: the slot it names still holds its
\* model."  Search reads that slot with that model's query vector.
StaleCacheSafe ==
    \A u \in Seeded(cache) :
        /\ state[u] # None
        /\ state[u].model[cache[u].slot] = ActiveModel(cache[u])

\* Every vector search compares in a unit's active slot comes from the active
\* model, whatever late writes and half-done migrations left behind.
ActiveSlotPure ==
    \A u \in Seeded(state) : \A r \in RowsOf(u) :
        vec[r][state[u].slot] \in {None, ActiveModel(state[u])}

\* No step makes a unit serve the model the control row retires: the cancel of
\* a start cannot overtake a flip onto the same model, nor a flip the cancel.
RetiredIsNotServed ==
    [][\A u \in Seeded(state) :
          intent'.retire = ActiveModel(state'[u]) => intent.retire = ActiveModel(state[u])]_vars

\* A flip hides no row: every row that was eligible when the flip counted, and
\* still is, has its vector in the slot that becomes active.
FlipHidesNothing ==
    [][\A u \in Seeded(state) : state'[u].slot # state[u].slot =>
          \A r \in RowsOf(u) \cap pass.read :
              Eligible(r) => vec[r][state'[u].slot] = ActiveModel(state'[u])]_vars

\* The sweep deletes vectors only from an inactive slot whose rollback window
\* is not open.
RetireWaits ==
    [][\A r \in Rows : \A s \in Slots :
          vec[r][s] # None /\ vec'[r][s] = None /\ kind'[r] # "gone" =>
              /\ state[UnitOf[r]].slot # s
              /\ state[UnitOf[r]].window # "open"]_vars

\* A rollback no pass has applied yet is not turned into a cancel that would
\* delete the very vectors it restores.
RollbackIsKept ==
    [][intent.verb = "rollback" /\ intent.flip /\ intent.target \notin Actives(state)
          => intent'.retire # intent.target]_vars

\* decisions/0027: "A slot keeps its model from the moment the sweep names it
\* until retire clears it."
SlotKeepsModel ==
    [][\A u \in Seeded(state) : \A s \in Slots :
          state[u].model[s] # None /\ state'[u].model[s] # state[u].model[s] =>
              /\ state'[u].model[s] = None
              /\ state[u].model[s] = pass.view.retire
              /\ \A r \in RowsOf(u) : vec[r][s] # state[u].model[s]]_vars

-----------------------------------------------------------------------------
(* What the proofs add to make the invariants above inductive.             *)

\* A server that is up has a view, and a pass under way has what its statement
\* needs: a view, a unit with a state row, a fill.
PassShape ==
    /\ env # None => configured \in Views
    /\ pass.pc # "idle" => env # None /\ pass.view \in Views
    /\ pass.pc \notin {"idle", "list", "walk"} =>
          /\ pass.at \in Units
          /\ pass.seen \in UnitStates
          /\ state[pass.at] # None
    /\ pass.pc = "send" => pass.jobs # <<>>

\* Only the sweep changes the slots of a state row, so what a walk has read
\* stays true until the walk itself changes it.
SeenIsCurrent ==
    pass.pc \in {"count", "fill", "send", "flip", "flipping", "retire", "delete",
                 "clear", "report"} =>
        /\ state[pass.at].slot = pass.seen.slot
        /\ state[pass.at].model = pass.seen.model

\* A pass that may flip has a named slot to flip to.
ReadyIsNamed ==
    /\ pass.pc \in {"fill", "send"} /\ pass.beneath = "ready" => OtherModel(pass.seen) # None
    /\ pass.pc \in {"flip", "flipping"} => OtherModel(pass.seen) # None

\* Once a pass has reloaded the request path's states they name the active
\* slot, except for a unit that has flipped and not been reloaded yet.
CacheIsCurrent ==
    pass.pc \notin {"idle", "list"} =>
        \A u \in Seeded(cache) :
            \/ cache[u].slot = state[u].slot
            \/ pass.pc = "changed" /\ u = pass.at

\* The CHECK constraint of embedding_control, and that a rollback which restores
\* a model names it.
ControlLawful ==
    /\ intent.retire # None => intent.retire # intent.target
    /\ intent.verb = "rollback" /\ intent.flip => intent.target # None

IndInv ==
    /\ TypeOK
    /\ PassShape
    /\ SeenIsCurrent
    /\ ReadyIsNamed
    /\ CacheIsCurrent
    /\ StatesLawful
    /\ StaleCacheSafe

-----------------------------------------------------------------------------
(* Liveness.  The sweep runs pass after pass in a loop of its own, so some *)
(* step of it is always taken eventually while the server is up; a write   *)
(* in flight ends; time passes.  Faults are finite; nothing makes the      *)
(* operator act.                                                           *)

Fairness ==
    /\ WF_vars(Sweep)
    /\ \A r \in Rows : WF_vars(CommitWrite(r))
    /\ \A u \in Units : WF_vars(CloseWindow(u))

LiveSpec == Spec /\ Fairness

\* The server is up, and its .env has the block of the target.
Viewed == env # None /\ ViewsFrom(env, state) # {}

\* A flip the operator asked for happens: once the target stands, every unit
\* reaches it, unless a row failed in the slot the unit is leaving (nothing
\* retries it there) or a third model is in the way.
FlipCompletes ==
    \A m \in Models :
        <>[](Viewed /\ intent.target = m /\ intent.flip /\ intent.retire = None)
        => <>[](\A u \in Seeded(state) :
                  \/ ActiveModel(state[u]) = m
                  \/ OtherModel(state[u]) \notin {None, m}
                  \/ \E r \in RowsOf(u) : failures[r][state[u].slot] >= FailLimit)

\* A retire the operator asked for ends: the slot is cleared in every unit.
RetireCompletes ==
    \A m \in Models :
        <>[](Viewed /\ intent.retire = m)
        => <>[](\A u \in Seeded(state) : OtherModel(state[u]) # m)

=============================================================================
