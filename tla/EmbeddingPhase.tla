--------------------------- MODULE EmbeddingPhase ---------------------------
(***************************************************************************)
(* The pure rules of an embedding-model migration: which model a slot      *)
(* should hold, which phase a unit is in, what a request uses, and what    *)
(* the `embeddings` command decides.                                       *)
(*                                                                         *)
(* A unit (tenant) keeps up to two vectors per row, one per slot.  Its     *)
(* state row names the model of each slot and the active slot.  The data   *)
(* are abstracted: a model id is an element of Models, a list of units is  *)
(* a set, and the rollback window is what is left of two timestamps:       *)
(* "never" (flipped_at is NULL), "open" or "closed".                       *)
(***************************************************************************)
EXTENDS Naturals, Sequences

CONSTANTS
    Units,      \* tenants
    DefaultUnit, \* cfg.tenant_id, the one unit the engine lists
    Models,     \* embedding model ids
    None,       \* SQL NULL, Option::None
    Guessed     \* models with an acting threshold that is only guessed

Slots == {"a", "b"}

Other(slot) == IF slot = "a" THEN "b" ELSE "a"

OptModels == Models \cup {None}

\* One row of embedding_state.
UnitStates == [slot : Slots,
               model : [Slots -> OptModels],
               window : {"never", "open", "closed"}]

\* NULL is neither a model nor a row.
ASSUME PhaseAssumption ==
    /\ DefaultUnit \in Units
    /\ None \notin Models
    /\ None \notin UnitStates
    /\ Guessed \subseteq Models

ActiveModel(st) == st.model[st.slot]

OtherModel(st) == st.model[Other(st.slot)]

\* What the schema's CHECK constraints on embedding_state ask of a row: the
\* active slot is named and the two slots do not name the same model.
Lawful(st) == /\ ActiveModel(st) # None
              /\ OtherModel(st) # ActiveModel(st)

\* The configured view a pass runs on.
Views == [current : Models, previous : OptModels, retire : OptModels,
          flip : SUBSET Units, gen : Nat]

Verbs == {"start", "flip", "rollback", "retire"}

\* The control row.
Intents == [gen : Nat, target : OptModels, flip : BOOLEAN,
            retire : OptModels, verb : Verbs \cup {None}]

\* Ids of the configured blocks: EMBED_* first, then EMBED_PREVIOUS_*.
BlockLists == [1 .. 1 -> Models] \cup [1 .. 2 -> Models]

Ids(blocks) == {blocks[i] : i \in DOMAIN blocks}

-----------------------------------------------------------------------------
(* Phase rules.                                                            *)

\* The model the inactive slot should hold.
Target(st, view) ==
    IF view.previous = None THEN None
    ELSE IF view.previous = ActiveModel(st) THEN view.current
    ELSE IF view.current = ActiveModel(st) THEN view.previous
    ELSE None

\* The phase beneath any service reason, `pending` being other_pending > 0.
\* "third", "guessed" and "foreign" are the three ways to be Blocked here.
Phase(unit, st, view, pending) ==
    LET active == ActiveModel(st)
        other  == OtherModel(st)
    IN IF other \notin {None, view.current, view.previous, view.retire} THEN "third"
       ELSE IF other # None /\ other = view.retire THEN "retiring"
       ELSE IF active = view.current
            THEN IF view.previous # None THEN "flipped" ELSE "steady"
       ELSE IF active # view.previous THEN "foreign"
       ELSE IF other # view.current \/ pending THEN "filling"
       ELSE IF unit \notin view.flip THEN "held"
       ELSE IF view.current \in Guessed THEN "guessed"
       ELSE "ready"

Phases == {"third", "retiring", "flipped", "steady", "filling", "held",
           "guessed", "ready", "foreign"}

-----------------------------------------------------------------------------
(* What a request uses for a unit.                                         *)

\* EmbedderSet::for_unit from the cached state (None: no state row) and the
\* configured view.  `built` are the models this process has an embedder for.
\* A unit active on a model that is not built is an error: the empty set.
ForUnit(st, view, built) ==
    LET slot   == IF st = None THEN "a" ELSE st.slot
        active == IF st # None THEN ActiveModel(st)
                  ELSE IF view.previous # None THEN view.previous
                  ELSE view.current
        second == IF view.previous # None /\ st # None /\ active = view.current
                  THEN view.previous
                  ELSE IF view.previous # None THEN view.current ELSE None
        \* A third model in the inactive slot is never overwritten.
        free   == st = None \/ OtherModel(st) \in {None, second}
    IN IF active \notin built THEN {}
       ELSE {[slot |-> slot, active |-> active,
              second |-> IF free /\ second # active /\ second \in built
                         THEN second ELSE None]}

-----------------------------------------------------------------------------
(* The control row as a view, and the boot checks.                         *)

\* configured_from_intent: the set holds the view, or nothing on Err.
ConfiguredFromIntent(intent, blocks, defaultActive) ==
    LET t == intent.target
        View(current, previous, flip) ==
            [current |-> current, previous |-> previous, retire |-> intent.retire,
             flip |-> flip, gen |-> intent.gen]
    IN IF t = None
       THEN {View(IF defaultActive # None THEN defaultActive ELSE blocks[1], None, {})}
       ELSE IF t \notin Ids(blocks) THEN {}
       ELSE IF intent.retire # None THEN {View(t, None, Units)}
       ELSE {View(t, p, IF intent.flip THEN Units ELSE {}) :
               p \in IF Ids(blocks) = {t} THEN {None} ELSE Ids(blocks) \ {t}}

Seeded(state) == {u \in Units : state[u] # None}

Actives(state) == {ActiveModel(state[u]) : u \in Seeded(state)}

\* Mutant: the boot that looks at the blocks and not at what the units serve.
BootCheckBlocksOnly(state, view, blocks) == view.previous # view.current

\* embedding_boot_check: command_mode_refusals, then boot_check.  In env mode
\* the view names exactly the blocks, so the first test repeats the second.
BootCheck(state, view, blocks) ==
    /\ Len(blocks) = 2 => blocks[1] # blocks[2]
    /\ Actives(state) \subseteq Ids(blocks)
    /\ view.previous # view.current
    /\ Actives(state) \subseteq {view.current, view.previous}
    /\ view.retire # None => /\ view.retire \notin {view.current, view.previous}
                             /\ view.retire \notin Actives(state)
    /\ view.previous # None => /\ view.previous \notin Guessed
                               /\ view.flip # {} => view.current \notin Guessed

-----------------------------------------------------------------------------
(* The verbs.  Each is the set of changes it writes: one, or none when the *)
(* command answers NoOp or Refuse.  `published` is the failed-row flag of  *)
(* each unit in the server's last published status, None without one.      *)

Change(target, flip, retire, verb) ==
    [target |-> target, flip |-> flip, retire |-> retire, verb |-> verb]

\* The models the inactive slots of a set of units hold.
Held(state, units) == {OtherModel(state[u]) : u \in units} \ {None}

DecideStart(intent, blocks, state) ==
    {Change(t, FALSE, None, "start") : t \in
        {t \in Ids(blocks) :
            /\ Len(blocks) = 2
            /\ \E a \in Ids(blocks) \ {t} :
                  /\ Actives(state) = {a}
                  /\ a \notin Guessed
            /\ ~(intent.target = t /\ intent.retire = None)
            /\ Held(state, Seeded(state)) \subseteq {t}}}

DecideFlip(intent, blocks, state) ==
    {Change(t, TRUE, intent.retire, "flip") : t \in
        {t \in Ids(blocks) \ Guessed :
            /\ t = intent.target
            /\ \E u \in Seeded(state) : ActiveModel(state[u]) # t
            /\ ~intent.flip}}

DecideRollback(intent, blocks, state) ==
    LET target   == intent.target
        onTarget == {u \in Seeded(state) : ActiveModel(state[u]) = target}
        held     == Held(state, onTarget)
        cancel   == ~(intent.verb = "rollback" /\ intent.flip)
        \* With nothing held, the first block that is not the target.
        first    == IF blocks[1] # target THEN {blocks[1]} ELSE Ids(blocks) \ {target}
        olds     == IF held = {} THEN first ELSE held
    IN IF target = None THEN {}
       ELSE IF onTarget = {}
       THEN IF cancel THEN {Change(None, FALSE, target, "rollback")} ELSE {}
       ELSE {Change(m, TRUE, None, "rollback") :
               m \in {x \in olds \cap Ids(blocks) : olds = {x}}}

DecideRetire(intent, state, published) ==
    LET goals == IF intent.target # None THEN {intent.target} ELSE Actives(state)
    IN {Change(intent.target, intent.flip, m, "retire") : m \in
          {m \in Held(state, Seeded(state)) :
              /\ Actives(state) = goals
              /\ \E goal \in goals : goals = {goal} /\ m # goal
              /\ Held(state, Seeded(state)) = {m}
              /\ intent.retire # m
              /\ \A u \in Seeded(state) : /\ published[u] # None
                                          /\ ~published[u]
                                          /\ state[u].window # "open"}}

Decide(verb, intent, blocks, state, published) ==
    IF verb = "start" THEN DecideStart(intent, blocks, state)
    ELSE IF verb = "flip" THEN DecideFlip(intent, blocks, state)
    ELSE IF verb = "rollback" THEN DecideRollback(intent, blocks, state)
    ELSE DecideRetire(intent, state, published)

=============================================================================
