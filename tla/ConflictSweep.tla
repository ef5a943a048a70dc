---------------------------- MODULE ConflictSweep ----------------------------
(***************************************************************************)
(* Conflict pairs: the tables memory_conflict (pairs) and                  *)
(* memory_conflict_scan (marks), the triggers on memory that invalidate    *)
(* them, the sweeper that fills them, the notification that wakes it and   *)
(* the flip of the embedding slot underneath.                              *)
(*                                                                         *)
(* Transactions are READ COMMITTED.  A scan is memory_conflict_record: it  *)
(* holds the tenant's advisory key shared from its read to its commit.  A  *)
(* statement that invalidates takes the key exclusive and holds it to its  *)
(* commit, so it becomes visible in one step that no scan overlaps.        *)
(*                                                                         *)
(* One server process serves the database, as in EmbeddingMigration, so    *)
(* its embedding sweep stores, retires and flips one after the other.      *)
(*                                                                         *)
(* One tenant, one namespace (a row that moves takes the trigger of a row  *)
(* whose vector changed).  Rows are numbered by (created_at, id).  A       *)
(* vector is a point; the similarity of two is a number, and each slot's   *)
(* model has its own conflict floor.                                       *)
(***************************************************************************)
EXTENDS Naturals, FiniteSets, FiniteSetsExt

CONSTANTS
    N,          \* bound on the rows
    Points,     \* vectors
    Sim,        \* Sim[v][w]: their similarity
    Floor,      \* Floor[slot]: the conflict threshold of the slot's model
    Batch,      \* SWEEP_BATCH
    MaxWrites,  \* bound on the updates of rows
    MaxFaults,  \* bound on the scans that fail
    Null        \* SQL NULL

ASSUME SweepAssumption ==
    /\ N \in Nat /\ Batch \in Nat \ {0} /\ MaxWrites \in Nat /\ MaxFaults \in Nat
    /\ Null \notin Points
    /\ Sim \in [Points -> [Points -> Nat \ {0}]]
    /\ \A v, w \in Points : Sim[v][w] = Sim[w][v]
    /\ Floor \in [{"a", "b"} -> Nat \ {0}]

VARIABLES
    row,      \* memory: liveness and the two vectors
    active,   \* embedding_state.active_slot
    pairs,    \* memory_conflict: the similarity stored for a pair, 0 for none
    marks,    \* memory_conflict_scan: the floor a row was scanned at, 0 for none
    tx,       \* the store of a vector under way: Null when there is none
    flip,     \* the flip under way found nothing pending
    cached,   \* the slot the process's EmbedderSet believes active
    wake,     \* the permit of Wakes, for this tenant
    sw,       \* the sweeper
    writes, faults

vars == <<row, active, pairs, marks, tx, flip, cached, wake, sw, writes, faults>>

Rows == 1 .. N
Slots == {"a", "b"}
Other(s) == IF s = "a" THEN "b" ELSE "a"
Pairs == {p \in Rows \X Rows : p[1] < p[2]}
Idle == [pc |-> "idle", floor |-> 0, todo |-> {}, found |-> {}, id |-> 0, scanned |-> FALSE]

TypeOK ==
    /\ row \in [Rows -> [state : {"none", "live", "retired", "gone"},
                         vec : [Slots -> Points \cup {Null}]]]
    /\ active \in Slots /\ cached \in Slots
    /\ pairs \in [Pairs -> Nat]
    /\ marks \in [Rows -> {0} \cup Range(Floor)]
    /\ tx = Null \/ tx \in [id : Rows, slot : Slots, v : Points \cup {Null}, clears : BOOLEAN]
    /\ flip \in BOOLEAN /\ wake \in BOOLEAN
    /\ sw \in [pc : {"idle", "next", "batch", "scan"}, floor : {0} \cup Range(Floor),
               todo : SUBSET Rows, found : SUBSET (Pairs \X Nat), id : {0} \cup Rows, scanned : BOOLEAN]
    /\ writes \in 0 .. MaxWrites /\ faults \in 0 .. MaxFaults

Init ==
    /\ row = [m \in Rows |-> [state |-> "none", vec |-> [s \in Slots |-> Null]]]
    /\ active = "a" /\ cached = "a"
    /\ pairs = [p \in Pairs |-> 0]
    /\ marks = [m \in Rows |-> 0]
    /\ tx = Null
    /\ flip = FALSE
    /\ wake = FALSE
    /\ sw = Idle
    /\ writes = 0
    /\ faults = 0

-----------------------------------------------------------------------------
Live(m) == row[m].state = "live"
Vec(m, s) == row[m].vec[s]
SimOf(m, n) == IF Vec(m, active) = Null \/ Vec(n, active) = Null THEN 0
               ELSE Sim[Vec(m, active)][Vec(n, active)]
Ordered(m, n) == IF m < n THEN <<m, n>> ELSE <<n, m>>

\* Mutant: any mark will do.
Unscanned(floor) == {m \in Rows : Live(m) /\ marks[m] = 0}

\* A live row with no mark at or below the floor.
Pending(floor) == {m \in Rows : Live(m) /\ (marks[m] = 0 \/ marks[m] > floor)}

\* The advisory key: an exclusive taker waits for the scan in flight.
KeyFree == sw.pc # "scan"

\* pg_notify at commit reaches the listener and leaves a permit, or is lost.
pg_notify == wake' \in {TRUE, wake}

\* DELETE of the pairs and the marks of the rows in R.
Clear(R) ==
    /\ pairs' = [p \in Pairs |-> IF p[1] \in R \/ p[2] \in R THEN 0 ELSE pairs[p]]
    /\ marks' = [m \in Rows |-> IF m \in R THEN 0 ELSE marks[m]]

-----------------------------------------------------------------------------
(* Writers.                                                                *)

\* The active vector is required; the other one may have been missed.
insert(m, v, w) ==
    /\ row[m].state = "none"
    /\ \A n \in 1 .. m - 1 : row[n].state # "none"
    /\ row' = [row EXCEPT ![m] = [state |-> "live", vec |-> [s \in Slots |->
                                    IF s = active THEN v ELSE w]]]
    /\ pg_notify
    /\ UNCHANGED <<active, pairs, marks, tx, flip, cached, sw, writes, faults>>

\* The row lock of the store under way.
Unlocked(m) == m \notin (IF tx = Null THEN {} ELSE {tx.id})

Write == writes < MaxWrites /\ writes' = writes + 1

\* Superseded, or past its end: nothing here is written.
retire(m) ==
    /\ Live(m) /\ Write
    /\ Unlocked(m)
    /\ row' = [row EXCEPT ![m].state = "retired"]
    /\ UNCHANGED <<active, pairs, marks, tx, flip, cached, wake, sw, faults>>

\* Mutant: no trigger, the revived row keeps its mark.
revive_marked(m) ==
    /\ row[m].state = "retired" /\ Write
    /\ Unlocked(m)
    /\ row' = [row EXCEPT ![m].state = "live"]
    /\ UNCHANGED <<active, pairs, marks, tx, flip, cached, wake, sw, faults>>

\* The trigger memory_conflict_revived: the mark goes, under the key.
memory_conflict_rescan_row(m) ==
    /\ row[m].state = "retired" /\ Write
    /\ Unlocked(m)
    /\ KeyFree
    /\ row' = [row EXCEPT ![m].state = "live"]
    /\ marks' = [marks EXCEPT ![m] = 0]
    /\ pg_notify
    /\ UNCHANGED <<active, pairs, tx, flip, cached, sw, faults>>

\* ON DELETE CASCADE.
forget(m) ==
    /\ row[m].state \in {"live", "retired"} /\ Write
    /\ Unlocked(m)
    /\ row' = [row EXCEPT ![m] = [state |-> "gone", vec |-> [s \in Slots |-> Null]]]
    /\ Clear({m})
    /\ UNCHANGED <<active, tx, flip, cached, wake, sw, faults>>

\* The embedding sweep fills a hole of either slot, or retires the slot that is
\* not read.  The trigger reads the active slot inside the statement.
store(m, s, v) ==
    /\ tx = Null /\ ~flip
    /\ row[m].state \in {"live", "retired"} /\ Write
    /\ IF v = Null THEN s # active ELSE Vec(m, s) = Null
    /\ tx' = [id |-> m, slot |-> s, v |-> v, clears |-> s = active]
    /\ UNCHANGED <<row, active, pairs, marks, flip, cached, wake, sw, faults>>

\* It commits.  memory_conflict_forget_slot: when the slot was the active one,
\* the row's pairs and mark go, under the key.
memory_conflict_forget_slot ==
    /\ tx # Null
    /\ row' = [row EXCEPT ![tx.id].vec[tx.slot] = tx.v]
    /\ \/ tx.clears /\ KeyFree /\ Clear({tx.id}) /\ pg_notify
       \/ ~tx.clears /\ UNCHANGED <<pairs, marks, wake>>
    /\ tx' = Null
    /\ UNCHANGED <<active, flip, cached, sw, writes, faults>>

\* flip_tx: no row lacks a vector of the target slot; then the state row, the
\* key, the clear and the notification, and commit.
FlipPending == \E m \in Rows : row[m].state \in {"live", "retired"} /\ Vec(m, Other(active)) = Null

flip_begin ==
    /\ tx = Null /\ ~flip /\ Write
    /\ ~FlipPending
    /\ flip' = TRUE
    /\ UNCHANGED <<row, active, pairs, marks, tx, cached, wake, sw, faults>>

\* Mutant: without FLIP_CONFLICT_KEY.
flip_commit_unlocked ==
    /\ flip
    /\ active' = Other(active)
    /\ Clear(Rows)
    /\ pg_notify
    /\ flip' = FALSE
    /\ UNCHANGED <<row, tx, cached, sw, writes, faults>>

flip_commit ==
    /\ flip /\ KeyFree
    /\ active' = Other(active)
    /\ Clear(Rows)
    /\ pg_notify
    /\ flip' = FALSE
    /\ UNCHANGED <<row, tx, cached, sw, writes, faults>>

-----------------------------------------------------------------------------
(* The sweeper.                                                            *)

\* EmbedderSet reloads the state rows.
refresh ==
    /\ cached # active
    /\ cached' = active
    /\ UNCHANGED <<row, active, pairs, marks, tx, flip, wake, sw, writes, faults>>

\* A tick or a wake starts a pass, which reads the floor of the unit's model.
Pass == sw' = [Idle EXCEPT !.pc = "next", !.floor = Floor[cached]]

tick ==
    /\ sw.pc = "idle"
    /\ Pass
    /\ UNCHANGED <<row, active, pairs, marks, tx, flip, cached, wake, writes, faults>>

wait ==
    /\ sw.pc = "idle" /\ wake
    /\ wake' = FALSE
    /\ Pass
    /\ UNCHANGED <<row, active, pairs, marks, tx, flip, cached, writes, faults>>

\* memory_conflict_next: the oldest pending rows, up to the batch.
memory_conflict_next ==
    LET ids == Pending(sw.floor)
        first == {m \in ids : Cardinality({n \in ids : n < m}) < Batch}
    IN
    /\ sw.pc = "next"
    /\ sw' = [sw EXCEPT !.pc = "batch", !.todo = first, !.scanned = FALSE]
    /\ UNCHANGED <<row, active, pairs, marks, tx, flip, cached, wake, writes, faults>>

\* The scan of the next id takes the key shared and reads the committed rows:
\* every live neighbour of a live anchor at or above the floor.
memory_conflict_record ==
    LET m == Min(sw.todo)
        near == IF Live(m) THEN {n \in Rows \ {m} : Live(n) /\ SimOf(m, n) >= sw.floor} ELSE {}
    IN
    /\ sw.pc = "batch" /\ sw.todo # {}
    /\ sw' = [sw EXCEPT !.pc = "scan", !.todo = @ \ {m}, !.id = m,
                        !.found = {<<Ordered(m, n), SimOf(m, n)>> : n \in near}]
    /\ UNCHANGED <<row, active, pairs, marks, tx, flip, cached, wake, writes, faults>>

\* The pairs and the mark commit together.  A row forgotten meanwhile breaks
\* the foreign key of its pair, and takes no mark itself.
record_commit ==
    LET Named == {sw.id} \cup UNION {{f[1][1], f[1][2]} : f \in sw.found} IN
    /\ sw.pc = "scan"
    /\ \/ /\ sw.found = {} \/ \A m \in Named : row[m].state # "gone"
          /\ pairs' = [p \in Pairs |-> IF \E f \in sw.found : f[1] = p
                                       THEN (CHOOSE f \in sw.found : f[1] = p)[2] ELSE pairs[p]]
          /\ marks' = IF row[sw.id].state = "gone" THEN marks
                      ELSE [marks EXCEPT ![sw.id] = sw.floor]
          /\ sw' = [sw EXCEPT !.pc = "batch", !.scanned = TRUE, !.found = {}, !.id = 0]
       \/ /\ sw.found # {} /\ \E m \in Named : row[m].state = "gone"
          /\ UNCHANGED <<pairs, marks>>
          /\ sw' = [sw EXCEPT !.pc = "batch", !.found = {}, !.id = 0]
    /\ UNCHANGED <<row, active, tx, flip, cached, wake, writes, faults>>

\* lock_timeout, or any error: the row keeps no mark and the batch goes on.
record_fails ==
    /\ sw.pc = "scan" /\ faults < MaxFaults
    /\ faults' = faults + 1
    /\ sw' = [sw EXCEPT !.pc = "batch", !.found = {}, !.id = 0]
    /\ UNCHANGED <<row, active, pairs, marks, tx, flip, cached, wake, writes>>

\* The batch is over: the sweep ends when nothing is pending, when no scan
\* committed, or when the budget has passed.
sweep ==
    /\ sw.pc = "batch" /\ sw.todo = {}
    /\ \/ sw' = Idle
       \/ /\ Pending(sw.floor) # {} /\ sw.scanned
          /\ sw' = [sw EXCEPT !.pc = "next"]
    /\ UNCHANGED <<row, active, pairs, marks, tx, flip, cached, wake, writes, faults>>

-----------------------------------------------------------------------------
Writer ==
    \/ \E m \in Rows : \E v \in Points : \E w \in Points \cup {Null} : insert(m, v, w)
    \/ \E m \in Rows : retire(m) \/ memory_conflict_rescan_row(m) \/ forget(m)
    \/ \E m \in Rows : \E s \in Slots : \E v \in Points \cup {Null} : store(m, s, v)
    \/ flip_begin
Committing == memory_conflict_forget_slot \/ flip_commit
Sweeping == tick \/ memory_conflict_next \/ memory_conflict_record \/ record_commit \/ sweep

Next == Writer \/ Committing \/ refresh \/ wait \/ Sweeping \/ record_fails

\* The timer ticks, the sweeper's statements and the writers' transactions end,
\* and the process reloads the state rows.  No wake is assumed to arrive.
Fairness == WF_vars(Sweeping) /\ WF_vars(Committing) /\ WF_vars(refresh)

Spec == Init /\ [][Next]_vars /\ Fairness

-----------------------------------------------------------------------------
(* Properties.                                                             *)

Marked(m) == marks[m] # 0 /\ marks[m] <= Floor[active]
Conflict(p) == Live(p[1]) /\ Live(p[2]) /\ SimOf(p[1], p[2]) >= Floor[active]

\* A mark says "this row's pairs are on record": two live rows that are both
\* marked and close have their pair stored at its present similarity, whatever
\* inserts, retirements, revivals, stores and flips ran between their scans.
MarksAreTrue ==
    \A p \in Pairs : Conflict(p) /\ Marked(p[1]) /\ Marked(p[2]) => pairs[p] = SimOf(p[1], p[2])

\* No stored pair was computed on a vector its row no longer has.
PairsAreTrue == \A p \in Pairs : pairs[p] # 0 => pairs[p] = SimOf(p[1], p[2])

\* "delays a pair by one interval and no longer" (services/conflicts.rs:12): with
\* every notification lost, a conflict is listed or stops being one.
PairIsListed ==
    \A p \in Pairs : Conflict(p) ~> (~Conflict(p) \/ pairs[p] >= Floor[active])

-----------------------------------------------------------------------------
(* What makes the two invariants inductive.                                *)

\* The store under way clears the row exactly when its slot is the one read:
\* no flip runs beside it.
StoreKnowsSlot == tx # Null => ~flip /\ (tx.clears <=> tx.slot = active)

\* A row that does not exist yet is in no table and in no batch.
UnbornIsBare ==
    \A m \in Rows : row[m].state = "none" =>
        /\ marks[m] = 0
        /\ \A p \in Pairs : m \in {p[1], p[2]} => pairs[p] = 0
        /\ m \notin sw.todo /\ m # sw.id
        /\ \A f \in sw.found : m \notin {f[1][1], f[1][2]}

\* A sweep has a floor, a scan its row, and what it found are pairs of it.
ScanIsOfRow ==
    /\ sw.pc # "idle" => sw.floor # 0
    /\ sw.pc = "scan" => sw.id \in Rows
    /\ \A f \in sw.found : sw.pc = "scan" /\ sw.id \in {f[1][1], f[1][2]}

\* What a scan found is true until it commits, unless a row of it is forgotten:
\* nothing that changes a vector it read commits while it has the key.
FoundIsTrue ==
    \A f \in sw.found :
        f[2] = SimOf(f[1][1], f[1][2]) \/ \E m \in {f[1][1], f[1][2]} : row[m].state = "gone"

\* And it is whole: a live row that is marked was live when the scan read.
FoundIsWhole ==
    sw.pc = "scan" /\ Live(sw.id) =>
        \A p \in Pairs : \A m \in Rows :
            /\ {p[1], p[2]} = {m, sw.id}
            /\ Live(m) /\ marks[m] # 0 /\ SimOf(p[1], p[2]) >= sw.floor
            => \E f \in sw.found : f[1] = p

\* MarksAreTrue at the floors the rows were scanned at.
MarksCover ==
    \A p \in Pairs :
        /\ Live(p[1]) /\ Live(p[2]) /\ marks[p[1]] # 0 /\ marks[p[2]] # 0
        /\ SimOf(p[1], p[2]) >= marks[p[1]] /\ SimOf(p[1], p[2]) >= marks[p[2]]
        => pairs[p] = SimOf(p[1], p[2])

SweepInv ==
    /\ TypeOK /\ StoreKnowsSlot /\ UnbornIsBare /\ ScanIsOfRow
    /\ FoundIsTrue /\ FoundIsWhole /\ MarksCover /\ PairsAreTrue
=============================================================================
