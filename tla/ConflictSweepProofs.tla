-------------------------- MODULE ConflictSweepProofs --------------------------
(***************************************************************************)
(* Stored pairs and marks are true for any number of rows, any vectors and *)
(* floors, any batch and any number of writes and failed scans.            *)
(*                                                                         *)
(* A scan is followed from its read to its commit: what it found stays     *)
(* true because whatever changes a vector of the slot that is read waits   *)
(* for the key, and stays whole because a row that comes to life meanwhile *)
(* has no mark.                                                            *)
(***************************************************************************)
EXTENDS ConflictSweep, WellFoundedInduction, TLAPS

USE DEF Live, Vec, Slots

LEMMA FloorIs == \A x \in {0} \cup Range(Floor) : x \in Nat /\ (x \in Range(Floor) => x # 0)
    BY SweepAssumption DEF Range

LEMMA RowsAreNat == Rows \subseteq Nat /\ 0 \notin Rows
    BY SweepAssumption DEF Rows

LEMMA PairIs == \A p \in Pairs : /\ p[1] \in Rows /\ p[2] \in Rows /\ p[1] # p[2] /\ p = <<p[1], p[2]>>
                                 /\ p[1] < p[2]
<1> SUFFICES ASSUME NEW p \in Rows \X Rows, p[1] < p[2]
             PROVE  p[1] \in Rows /\ p[2] \in Rows /\ p[1] # p[2] /\ p = <<p[1], p[2]>>
    BY DEF Pairs
<1>1. p[1] \in Rows /\ p[2] \in Rows /\ p = <<p[1], p[2]>>
    OBVIOUS
<1>2. p[1] \in Nat /\ p[2] \in Nat
    BY <1>1, RowsAreNat
<1>3. p[1] # p[2]
    BY <1>2
<1> QED BY <1>1, <1>3

LEMMA OrderedIs ==
    ASSUME NEW m \in Rows, NEW n \in Rows, m # n
    PROVE  Ordered(m, n) \in Pairs /\ {Ordered(m, n)[1], Ordered(m, n)[2]} = {m, n}
    BY RowsAreNat DEF Ordered, Pairs

\* One pair per two rows.
LEMMA OrderedOnly ==
    ASSUME NEW p \in Pairs, NEW m \in Rows, NEW n \in Rows, {p[1], p[2]} = {m, n}
    PROVE  p = Ordered(m, n)
<1>1. m # n /\ ((p[1] = m /\ p[2] = n) \/ (p[1] = n /\ p[2] = m))
    BY PairIs
<1> QED BY <1>1, PairIs, RowsAreNat DEF Ordered

LEMMA SimIs ==
    ASSUME TypeOK, NEW m \in Rows, NEW n \in Rows
    PROVE  SimOf(m, n) \in Nat /\ SimOf(m, n) = SimOf(n, m)
<1>1. Vec(m, active) \in Points \cup {Null} /\ Vec(n, active) \in Points \cup {Null}
    BY DEF TypeOK
<1> QED BY <1>1, SweepAssumption DEF SimOf

LEMMA LeastIs == ASSUME NEW T \in SUBSET Rows, T # {} PROVE Min(T) \in T
<1>1. T \subseteq Nat
    BY RowsAreNat
<1>2. PICK x \in T : \A y \in T : ~(<<y, x>> \in OpToRel(<, Nat))
    BY <1>1, NatLessThanWellFounded, WFMin
<1>3. \A y \in T : ~(y < x)
    BY <1>1, <1>2 DEF OpToRel
<1>4. \A y \in T : x <= y
    BY <1>1, <1>3
<1> QED BY <1>4 DEF Min

SweepType == [pc : {"idle", "next", "batch", "scan"}, floor : {0} \cup Range(Floor),
              todo : SUBSET Rows, found : SUBSET (Pairs \X Nat), id : {0} \cup Rows, scanned : BOOLEAN]

LEMMA WriteIs == ASSUME TypeOK, writes' = writes \/ Write PROVE writes' \in 0 .. MaxWrites
    BY SweepAssumption DEF TypeOK, Write

LEMMA SweepInitInv == Init => SweepInv
<1> SUFFICES ASSUME Init PROVE SweepInv
    OBVIOUS
<1>1. TypeOK
    <2>1. sw \in SweepType
        BY DEF Init, Idle, SweepType
    <2>2. row \in [Rows -> [state : {"none", "live", "retired", "gone"}, vec : [Slots -> Points \cup {Null}]]]
        BY DEF Init
    <2>3. writes \in 0 .. MaxWrites /\ faults \in 0 .. MaxFaults
        BY SweepAssumption DEF Init
    <2> QED BY <2>1, <2>2, <2>3 DEF Init, TypeOK, SweepType
<1>2. \A m, n \in Rows : ~Live(m) /\ SimOf(m, n) = 0
    BY DEF Init, SimOf
<1>3. sw.pc = "idle" /\ sw.found = {} /\ sw.todo = {} /\ sw.id = 0
    BY DEF Init, Idle
<1>4. StoreKnowsSlot /\ UnbornIsBare /\ ScanIsOfRow /\ FoundIsTrue /\ FoundIsWhole
    BY <1>3, RowsAreNat DEF Init, StoreKnowsSlot, UnbornIsBare, ScanIsOfRow, FoundIsTrue, FoundIsWhole
<1>5. MarksCover /\ PairsAreTrue
    BY <1>2, PairIs DEF Init, MarksCover, PairsAreTrue
<1> QED BY <1>1, <1>4, <1>5 DEF SweepInv

-----------------------------------------------------------------------------
(* Steps that leave the rows, the slot and the two tables.                 *)

\* A store or a flip begins, or the process reloads the state rows.
LEMMA BeginInv ==
    ASSUME SweepInv,
           \/ \E m \in Rows, s \in Slots, v \in Points \cup {Null} : store(m, s, v)
           \/ flip_begin \/ refresh
    PROVE  SweepInv'
<1>1. UNCHANGED <<row, active, pairs, marks, sw>>
    BY DEF store, flip_begin, refresh
<1>2. TypeOK'
    <2>1. tx' = Null \/ tx' \in [id : Rows, slot : Slots, v : Points \cup {Null}, clears : BOOLEAN]
        <3>1. ASSUME NEW m \in Rows, NEW s \in Slots, NEW v \in Points \cup {Null}, store(m, s, v)
              PROVE  tx' \in [id : Rows, slot : Slots, v : Points \cup {Null}, clears : BOOLEAN]
            <4> DEFINE b == s = active
            <4>1. b \in BOOLEAN
                OBVIOUS
            <4>2. tx' = [id |-> m, slot |-> s, v |-> v, clears |-> b]
                BY <3>1 DEF store
            <4> HIDE DEF b
            <4> QED BY <4>1, <4>2
        <3>2. CASE flip_begin \/ refresh
            BY <3>2 DEF SweepInv, TypeOK, flip_begin, refresh
        <3> QED BY <3>1, <3>2
    <2>2. writes' \in 0 .. MaxWrites
        <3>1. writes' = writes \/ Write
            BY DEF store, flip_begin, refresh
        <3> QED BY <3>1, WriteIs DEF SweepInv
    <2>3. cached' \in Slots /\ flip' \in BOOLEAN /\ UNCHANGED <<wake, faults>>
        BY DEF SweepInv, TypeOK, store, flip_begin, refresh
    <2> QED BY <1>1, <2>1, <2>2, <2>3 DEF SweepInv, TypeOK
<1>3. StoreKnowsSlot'
    <2>1. ASSUME NEW m \in Rows, NEW s \in Slots, NEW v \in Points \cup {Null}, store(m, s, v) PROVE StoreKnowsSlot'
        <3>1. tx' = [id |-> m, slot |-> s, v |-> v, clears |-> s = active] /\ ~flip /\ flip' = flip /\ active' = active
            BY <2>1 DEF store
        <3> QED BY <3>1 DEF StoreKnowsSlot
    <2>2. CASE flip_begin \/ refresh
        BY <2>2 DEF SweepInv, StoreKnowsSlot, flip_begin, refresh
    <2> QED BY <2>1, <2>2
<1>4. \A m, n \in Rows : SimOf(m, n)' = SimOf(m, n)
    BY <1>1 DEF SimOf
<1>5. UnbornIsBare' /\ ScanIsOfRow'
    BY <1>1 DEF SweepInv, UnbornIsBare, ScanIsOfRow
<1>6. FoundIsTrue' /\ FoundIsWhole' /\ MarksCover' /\ PairsAreTrue'
    BY <1>1 DEF SweepInv, FoundIsTrue, FoundIsWhole, MarksCover, PairsAreTrue, SimOf
<1> QED BY <1>2, <1>3, <1>5, <1>6 DEF SweepInv

\* The sweeper between two scans.
LEMMA BetweenInv ==
    ASSUME SweepInv, tick \/ wait \/ memory_conflict_next \/ sweep
    PROVE  SweepInv'
<1>1. UNCHANGED <<row, active, pairs, marks, tx, flip, cached, writes, faults>>
    BY DEF tick, wait, memory_conflict_next, sweep
<1>2. sw.pc # "scan" /\ sw.found = {} /\ sw \in SweepType
    BY DEF SweepInv, ScanIsOfRow, TypeOK, SweepType, tick, wait, memory_conflict_next, sweep
<1>3. /\ sw' \in SweepType /\ sw'.pc # "scan" /\ sw'.found = {}
      /\ \A m \in sw'.todo : row[m].state # "none"
      /\ sw'.id \in {0, sw.id} /\ (sw'.pc # "idle" => sw'.floor # 0)
    <2>1. CASE tick \/ wait
        <3>1. sw' = [Idle EXCEPT !.pc = "next", !.floor = Floor[cached]] /\ cached \in Slots
            BY <2>1 DEF tick, wait, Pass, SweepInv, TypeOK
        <3>2. Floor[cached] \in Range(Floor) /\ Floor[cached] # 0
            BY <3>1, SweepAssumption DEF Range
        <3> QED BY <3>1, <3>2 DEF Idle, SweepType
    <2>2. CASE memory_conflict_next
        <3> DEFINE ids == Pending(sw.floor)
                   first == {m \in ids : Cardinality({n \in ids : n < m}) < Batch}
        <3>1. sw' = [sw EXCEPT !.pc = "batch", !.todo = first, !.scanned = FALSE] /\ sw.pc = "next"
            BY <2>2 DEF memory_conflict_next
        <3>2. first \subseteq Rows /\ \A m \in first : row[m].state # "none"
            BY DEF Pending
        <3> HIDE DEF first
        <3> QED BY <1>2, <3>1, <3>2 DEF SweepType, SweepInv, ScanIsOfRow
    <2>3. CASE sweep
        <3>1. sw.todo = {} /\ sw.pc = "batch" /\ (sw' = Idle \/ sw' = [sw EXCEPT !.pc = "next"])
            BY <2>3 DEF sweep
        <3>2. CASE sw' = Idle
            BY <3>2 DEF SweepType, Idle
        <3>3. CASE sw' = [sw EXCEPT !.pc = "next"]
            BY <1>2, <3>1, <3>3 DEF SweepType, SweepInv, ScanIsOfRow
        <3> QED BY <3>1, <3>2, <3>3
    <2> QED BY <2>1, <2>2, <2>3
<1>4. TypeOK'
    <2>1. wake' \in BOOLEAN
        BY DEF SweepInv, TypeOK, tick, wait, memory_conflict_next, sweep
    <2> QED BY <1>1, <1>3, <2>1 DEF SweepInv, TypeOK, SweepType
<1>5. StoreKnowsSlot' /\ MarksCover' /\ PairsAreTrue'
    BY <1>1 DEF SweepInv, StoreKnowsSlot, MarksCover, PairsAreTrue, SimOf
<1>6. UnbornIsBare'
    BY <1>1, <1>3, RowsAreNat DEF SweepInv, UnbornIsBare
<1>7. ScanIsOfRow' /\ FoundIsTrue' /\ FoundIsWhole'
    BY <1>3 DEF ScanIsOfRow, FoundIsTrue, FoundIsWhole
<1> QED BY <1>4, <1>5, <1>6, <1>7 DEF SweepInv

-----------------------------------------------------------------------------
(* Steps of the writers.                                                   *)

RowType == [state : {"none", "live", "retired", "gone"}, vec : [Slots -> Points \cup {Null}]]

\* A new row has no mark, no pair, and no scan has seen it.
LEMMA InsertInv ==
    ASSUME SweepInv, NEW m \in Rows, NEW v \in Points, NEW w \in Points \cup {Null}, insert(m, v, w)
    PROVE  SweepInv'
<1>1. /\ row[m].state = "none" /\ UNCHANGED <<active, pairs, marks, tx, flip, cached, sw, writes, faults>>
      /\ wake' \in BOOLEAN /\ row \in [Rows -> RowType]
    BY DEF insert, pg_notify, SweepInv, TypeOK, RowType
<1>2. row' \in [Rows -> RowType] /\ row'[m].state = "live" /\ \A n \in Rows : n # m => row'[n] = row[n]
    <2> DEFINE x == [state |-> "live", vec |-> [s \in Slots |-> IF s = active THEN v ELSE w]]
    <2>1. x \in RowType /\ x.state = "live"
        BY DEF RowType
    <2>2. row' = [row EXCEPT ![m] = x]
        BY DEF insert
    <2> QED BY <1>1, <2>1, <2>2
<1>3. TypeOK'
    BY <1>1, <1>2 DEF SweepInv, TypeOK, RowType
<1>4. \A n, o \in Rows : n # m /\ o # m => SimOf(n, o)' = SimOf(n, o)
    BY <1>1, <1>2 DEF SimOf
<1>5. /\ marks[m] = 0 /\ \A p \in Pairs : m \in {p[1], p[2]} => pairs[p] = 0
      /\ m # sw.id /\ \A f \in sw.found : m \notin {f[1][1], f[1][2]}
    BY <1>1 DEF SweepInv, UnbornIsBare
<1>6. StoreKnowsSlot' /\ ScanIsOfRow'
    BY <1>1 DEF SweepInv, StoreKnowsSlot, ScanIsOfRow
<1>7. UnbornIsBare'
    BY <1>1, <1>2 DEF SweepInv, UnbornIsBare
<1>8. \A f \in sw.found : f[1] \in Pairs
    BY DEF SweepInv, TypeOK
<1>9. FoundIsTrue'
    BY <1>1, <1>2, <1>4, <1>5, <1>8, PairIs DEF SweepInv, FoundIsTrue
<1>10. FoundIsWhole'
    <2> SUFFICES ASSUME sw.pc = "scan", Live(sw.id)', NEW p \in Pairs, NEW o \in Rows,
                        {p[1], p[2]} = {o, sw.id}, Live(o)', marks[o] # 0, SimOf(p[1], p[2])' >= sw.floor
                 PROVE  \E f \in sw.found : f[1] = p
        BY <1>1 DEF FoundIsWhole
    <2>1. o # m /\ sw.id # m /\ sw.id \in Rows /\ Live(o) /\ Live(sw.id)
        <3>1. ScanIsOfRow
            BY DEF SweepInv
        <3>2. o # m /\ sw.id # m /\ sw.id \in Rows
            BY <1>5, <3>1 DEF ScanIsOfRow
        <3> QED BY <1>1, <1>2, <3>2 DEF Live
    <2>2. p[1] \in Rows /\ p[2] \in Rows /\ p[1] # m /\ p[2] # m
        BY <2>1, PairIs
    <2>3. SimOf(p[1], p[2])' = SimOf(p[1], p[2])
        BY <1>4, <2>2
    <2>4. FoundIsWhole
        BY DEF SweepInv
    <2> QED BY <2>1, <2>3, <2>4 DEF FoundIsWhole
<1>11. MarksCover'
    <2> SUFFICES ASSUME NEW p \in Pairs, Live(p[1])', Live(p[2])', marks[p[1]] # 0, marks[p[2]] # 0,
                        SimOf(p[1], p[2])' >= marks[p[1]], SimOf(p[1], p[2])' >= marks[p[2]]
                 PROVE  pairs[p] = SimOf(p[1], p[2])'
        BY <1>1 DEF MarksCover
    <2>1. p[1] # m /\ p[2] # m /\ p[1] \in Rows /\ p[2] \in Rows
        BY <1>5, PairIs
    <2>2. SimOf(p[1], p[2])' = SimOf(p[1], p[2]) /\ Live(p[1]) /\ Live(p[2])
        BY <1>2, <1>4, <2>1
    <2> QED BY <2>2 DEF SweepInv, MarksCover
<1>12. PairsAreTrue'
    BY <1>1, <1>2, <1>4, <1>5, PairIs DEF SweepInv, PairsAreTrue
<1> QED BY <1>3, <1>6, <1>7, <1>9, <1>10, <1>11, <1>12 DEF SweepInv

\* Row m changes and no other: either the vector that is read stays, and the row
\* does not come to life with a mark, nor while a scan runs; or its pairs and its
\* mark are cleared, under the key or with the row.
RowStep(m) ==
    /\ \A n \in Rows : n # m => row'[n] = row[n] /\ marks'[n] = marks[n]
    /\ \A p \in Pairs : m \notin {p[1], p[2]} => pairs'[p] = pairs[p]
    /\ row[m].state = "none" <=> row'[m].state = "none"
    /\ row[m].state = "gone" => row'[m].state = "gone"
    /\ \/ /\ row'[m].vec[active] = row[m].vec[active]
          /\ \A p \in Pairs : pairs'[p] = pairs[p]
          /\ \/ marks'[m] = marks[m] /\ (row'[m].state = "live" => row[m].state = "live")
             \/ marks'[m] = 0 /\ KeyFree
       \/ /\ marks'[m] = 0
          /\ \A p \in Pairs : m \in {p[1], p[2]} => pairs'[p] = 0
          /\ row'[m].state = "gone" \/ KeyFree

LEMMA RowStepInv ==
    ASSUME SweepInv, NEW m \in Rows, RowStep(m), UNCHANGED <<active, sw>>, TypeOK', StoreKnowsSlot'
    PROVE  SweepInv'
<1>1. \A n, o \in Rows : n # m /\ o # m => SimOf(n, o)' = SimOf(n, o)
    BY DEF SimOf, RowStep
<1>2. ScanIsOfRow'
    BY DEF SweepInv, ScanIsOfRow
<1>3. UnbornIsBare'
    <2>1. \A n \in Rows : row'[n].state = "none" =>
              row[n].state = "none" /\ marks'[n] \in {0, marks[n]}
        BY DEF RowStep
    <2>2. \A p \in Pairs : pairs'[p] \in {0, pairs[p]}
        BY DEF RowStep
    <2> QED BY <2>1, <2>2 DEF SweepInv, UnbornIsBare
<1>4. \A f \in sw.found : f[1] \in Pairs /\ ~KeyFree
    BY DEF SweepInv, TypeOK, ScanIsOfRow, KeyFree
<1>5. CASE row'[m].vec[active] = row[m].vec[active] /\ \A p \in Pairs : pairs'[p] = pairs[p]
    <2>1. \A n, o \in Rows : SimOf(n, o)' = SimOf(n, o)
        BY <1>5 DEF SimOf, RowStep
    <2>2. FoundIsTrue'
        <3>1. \A n \in Rows : row[n].state = "gone" => row'[n].state = "gone"
            BY DEF RowStep
        <3> QED BY <1>4, <2>1, <3>1, PairIs DEF SweepInv, FoundIsTrue
    <2>3. PairsAreTrue'
        BY <1>5, <2>1, PairIs DEF SweepInv, PairsAreTrue
    <2>4. \A n \in Rows : marks'[n] # 0 /\ row'[n].state = "live" => marks'[n] = marks[n] /\ row[n].state = "live"
        BY DEF RowStep
    <2>5. MarksCover'
        BY <1>5, <2>1, <2>4, PairIs DEF SweepInv, MarksCover
    <2>6. FoundIsWhole'
        <3>1. ~KeyFree => \A n \in Rows : row'[n].state = "live" => row[n].state = "live"
            BY DEF RowStep
        <3> QED BY <2>1, <2>4, <3>1, PairIs DEF SweepInv, FoundIsWhole, ScanIsOfRow, KeyFree
    <2> QED BY <1>2, <1>3, <2>2, <2>3, <2>5, <2>6 DEF SweepInv
<1>6. CASE /\ marks'[m] = 0
           /\ \A p \in Pairs : m \in {p[1], p[2]} => pairs'[p] = 0
           /\ row'[m].state = "gone" \/ KeyFree
    <2>1. \A p \in Pairs : m \notin {p[1], p[2]} => SimOf(p[1], p[2])' = SimOf(p[1], p[2])
        BY <1>1, PairIs
    <2>2. FoundIsTrue'
        BY <1>4, <1>6, <2>1, PairIs DEF SweepInv, FoundIsTrue, RowStep
    <2>3. PairsAreTrue'
        BY <1>6, <2>1, PairIs DEF SweepInv, PairsAreTrue, RowStep
    <2>4. MarksCover'
        BY <1>6, <2>1, PairIs DEF SweepInv, MarksCover, RowStep
    <2>5. FoundIsWhole'
        BY <1>6, <2>1, PairIs DEF SweepInv, FoundIsWhole, ScanIsOfRow, RowStep, KeyFree
    <2> QED BY <1>2, <1>3, <2>2, <2>3, <2>4, <2>5 DEF SweepInv
<1> QED BY <1>5, <1>6 DEF RowStep

LEMMA RowSets == ASSUME SweepInv PROVE row \in [Rows -> RowType]
    BY DEF SweepInv, TypeOK, RowType

LEMMA ClearIs ==
    ASSUME SweepInv, NEW R \in SUBSET Rows, Clear(R)
    PROVE  /\ pairs' \in [Pairs -> Nat] /\ marks' \in [Rows -> {0} \cup Range(Floor)]
           /\ \A n \in Rows : marks'[n] = IF n \in R THEN 0 ELSE marks[n]
           /\ \A p \in Pairs : pairs'[p] = IF p[1] \in R \/ p[2] \in R THEN 0 ELSE pairs[p]
<1>1. pairs' = [p \in Pairs |-> IF p[1] \in R \/ p[2] \in R THEN 0 ELSE pairs[p]]
    BY DEF Clear
<1>2. marks' = [n \in Rows |-> IF n \in R THEN 0 ELSE marks[n]]
    BY DEF Clear
<1>3. pairs \in [Pairs -> Nat] /\ marks \in [Rows -> {0} \cup Range(Floor)]
    BY DEF SweepInv, TypeOK
<1>4. pairs' \in [Pairs -> Nat] /\ \A p \in Pairs : pairs'[p] = IF p[1] \in R \/ p[2] \in R THEN 0 ELSE pairs[p]
    BY <1>1, <1>3
<1>5. marks' \in [Rows -> {0} \cup Range(Floor)] /\ \A n \in Rows : marks'[n] = IF n \in R THEN 0 ELSE marks[n]
    BY <1>2, <1>3
<1> QED BY <1>4, <1>5

\* Only the state of a row changes: it is retired, or revived under the key.
LEMMA StateInv ==
    ASSUME SweepInv, NEW m \in Rows, retire(m) \/ memory_conflict_rescan_row(m)
    PROVE  SweepInv'
<1>1. PICK st \in {"live", "retired"} :
          /\ row' = [row EXCEPT ![m] = [row[m] EXCEPT !.state = st]]
          /\ row[m].state \in {"live", "retired"}
          /\ st = "retired" => marks' = marks
          /\ st = "live" => KeyFree /\ marks' = [marks EXCEPT ![m] = 0]
    BY RowSets DEF retire, memory_conflict_rescan_row
<1>2. row[m] \in RowType /\ row \in [Rows -> RowType] /\ marks \in [Rows -> {0} \cup Range(Floor)]
    BY RowSets DEF SweepInv, TypeOK
<1>3. /\ [row[m] EXCEPT !.state = st] \in RowType
      /\ [row[m] EXCEPT !.state = st].vec = row[m].vec
      /\ [row[m] EXCEPT !.state = st].state = st
    BY <1>2 DEF RowType
<1>4. row' \in [Rows -> RowType] /\ row'[m].state = st /\ row'[m].vec = row[m].vec
      /\ \A n \in Rows : n # m => row'[n] = row[n]
    BY <1>1, <1>2, <1>3
<1>5. /\ marks' \in [Rows -> {0} \cup Range(Floor)]
      /\ \A n \in Rows : n # m => marks'[n] = marks[n]
      /\ st = "retired" => marks'[m] = marks[m]
      /\ st = "live" => marks'[m] = 0
    BY <1>1, <1>2
<1>6. UNCHANGED <<active, pairs, tx, flip, cached, sw, faults>> /\ wake' \in BOOLEAN /\ Write
    BY DEF retire, memory_conflict_rescan_row, pg_notify, SweepInv, TypeOK
<1>7. TypeOK'
    <2>1. writes' \in 0 .. MaxWrites
        BY <1>6, WriteIs DEF SweepInv
    <2> QED BY <1>4, <1>5, <1>6, <2>1 DEF SweepInv, TypeOK, RowType
<1>8. StoreKnowsSlot'
    BY <1>6 DEF SweepInv, StoreKnowsSlot
<1>9. RowStep(m)
    BY <1>1, <1>4, <1>5, <1>6 DEF RowStep
<1> QED BY <1>6, <1>7, <1>8, <1>9, RowStepInv

LEMMA ForgetInv == ASSUME SweepInv, NEW m \in Rows, forget(m) PROVE SweepInv'
<1>1. /\ row[m].state \in {"live", "retired"} /\ Write /\ Clear({m})
      /\ UNCHANGED <<active, tx, flip, cached, wake, sw, faults>>
    BY DEF forget
<1>2. row' \in [Rows -> RowType] /\ row'[m].state = "gone" /\ \A n \in Rows : n # m => row'[n] = row[n]
    <2> DEFINE x == [state |-> "gone", vec |-> [s \in Slots |-> Null]]
    <2>1. x \in RowType /\ x.state = "gone"
        BY DEF RowType
    <2>2. row' = [row EXCEPT ![m] = x]
        BY DEF forget
    <2> QED BY <2>1, <2>2, RowSets
<1>3. TypeOK'
    <2>1. writes' \in 0 .. MaxWrites
        BY <1>1, WriteIs DEF SweepInv
    <2>2. pairs' \in [Pairs -> Nat] /\ marks' \in [Rows -> {0} \cup Range(Floor)]
        BY <1>1, ClearIs
    <2> QED BY <1>1, <1>2, <2>1, <2>2 DEF SweepInv, TypeOK, RowType
<1>4. StoreKnowsSlot'
    BY <1>1 DEF SweepInv, StoreKnowsSlot
<1>5. /\ \A n \in Rows : marks'[n] = IF n \in {m} THEN 0 ELSE marks[n]
      /\ \A p \in Pairs : pairs'[p] = IF p[1] \in {m} \/ p[2] \in {m} THEN 0 ELSE pairs[p]
    BY <1>1, ClearIs
<1>6. RowStep(m)
    BY <1>1, <1>2, <1>5 DEF RowStep
<1> QED BY <1>1, <1>3, <1>4, <1>6, RowStepInv

\* The store commits: the slot that is read only changes with the clear.
LEMMA StoreInv == ASSUME SweepInv, memory_conflict_forget_slot PROVE SweepInv'
<1> DEFINE m == tx.id
<1>1. /\ tx # Null /\ tx \in [id : Rows, slot : Slots, v : Points \cup {Null}, clears : BOOLEAN]
      /\ (tx.clears <=> tx.slot = active) /\ tx' = Null
      /\ UNCHANGED <<active, flip, cached, sw, writes, faults>>
    BY DEF memory_conflict_forget_slot, SweepInv, StoreKnowsSlot, TypeOK
<1>2. m \in Rows /\ tx.slot \in Slots /\ tx.v \in Points \cup {Null}
    BY <1>1
<1>3. /\ row' \in [Rows -> RowType] /\ row'[m].state = row[m].state
      /\ tx.slot # active => row'[m].vec[active] = row[m].vec[active]
      /\ \A n \in Rows : n # m => row'[n] = row[n]
    <2> DEFINE y == [row[m].vec EXCEPT ![tx.slot] = tx.v]
               x == [row[m] EXCEPT !.vec = y]
    <2>1. row[m] \in RowType /\ row[m].vec \in [Slots -> Points \cup {Null}]
        BY <1>2, RowSets DEF RowType
    <2>2. y \in [Slots -> Points \cup {Null}] /\ (tx.slot # active => y[active] = row[m].vec[active])
        BY <1>2, <2>1 DEF SweepInv, TypeOK
    <2> HIDE DEF y
    <2>3. x \in RowType /\ x.state = row[m].state /\ x.vec = y
        BY <2>1, <2>2 DEF RowType
    <2>4. row' = [row EXCEPT ![m] = x]
        BY <1>2, RowSets DEF memory_conflict_forget_slot, y
    <2> HIDE DEF x
    <2> QED BY <1>2, <2>2, <2>3, <2>4, RowSets
<1>4. StoreKnowsSlot'
    BY <1>1 DEF StoreKnowsSlot
<1> HIDE DEF m
<1>5. CASE tx.clears
    <2>1. KeyFree /\ Clear({m}) /\ wake' \in BOOLEAN
        BY <1>5 DEF memory_conflict_forget_slot, m, pg_notify, SweepInv, TypeOK
    <2>2. /\ pairs' \in [Pairs -> Nat] /\ marks' \in [Rows -> {0} \cup Range(Floor)]
          /\ \A n \in Rows : marks'[n] = IF n \in {m} THEN 0 ELSE marks[n]
          /\ \A p \in Pairs : pairs'[p] = IF p[1] \in {m} \/ p[2] \in {m} THEN 0 ELSE pairs[p]
        BY <1>2, <2>1, ClearIs
    <2>3. TypeOK'
        BY <1>1, <1>3, <2>1, <2>2 DEF SweepInv, TypeOK, RowType
    <2>4. RowStep(m)
        BY <1>2, <1>3, <2>1, <2>2 DEF RowStep
    <2> QED BY <1>1, <1>2, <1>4, <2>3, <2>4, RowStepInv
<1>6. CASE ~tx.clears
    <2>1. UNCHANGED <<pairs, marks, wake>>
        BY <1>6 DEF memory_conflict_forget_slot
    <2>2. TypeOK'
        BY <1>1, <1>3, <2>1 DEF SweepInv, TypeOK, RowType
    <2>3. RowStep(m)
        BY <1>1, <1>2, <1>3, <1>6, <2>1 DEF RowStep
    <2> QED BY <1>1, <1>2, <1>4, <2>2, <2>3, RowStepInv
<1> QED BY <1>5, <1>6

\* The flip clears everything while no scan runs and no store is under way.
LEMMA FlipInv == ASSUME SweepInv, flip_commit PROVE SweepInv'
<1>1. /\ flip /\ sw.pc # "scan" /\ Clear(Rows) /\ flip' = FALSE /\ active' = Other(active)
      /\ UNCHANGED <<row, tx, cached, sw, writes, faults>> /\ wake' \in BOOLEAN
    BY DEF flip_commit, KeyFree, pg_notify, SweepInv, TypeOK
<1>2. /\ pairs' \in [Pairs -> Nat] /\ marks' \in [Rows -> {0} \cup Range(Floor)]
      /\ (\A n \in Rows : marks'[n] = 0) /\ \A p \in Pairs : pairs'[p] = 0
    BY <1>1, ClearIs, PairIs
<1>3. TypeOK'
    BY <1>1, <1>2 DEF SweepInv, TypeOK, Other
<1>4. StoreKnowsSlot'
    BY <1>1 DEF SweepInv, StoreKnowsSlot
<1>5. ScanIsOfRow' /\ sw'.found = {}
    BY <1>1 DEF SweepInv, ScanIsOfRow
<1>6. UnbornIsBare'
    BY <1>1, <1>2 DEF SweepInv, UnbornIsBare
<1>7. FoundIsTrue' /\ FoundIsWhole'
    BY <1>1, <1>5 DEF FoundIsTrue, FoundIsWhole
<1>8. MarksCover' /\ PairsAreTrue'
    BY <1>2, PairIs DEF MarksCover, PairsAreTrue
<1> QED BY <1>3, <1>4, <1>5, <1>6, <1>7, <1>8 DEF SweepInv

-----------------------------------------------------------------------------
(* A scan.                                                                 *)

\* The similarity of a pair is that of its two rows, in either order.
LEMMA SimOfPair ==
    ASSUME TypeOK, NEW p \in Pairs, NEW m \in Rows, NEW n \in Rows, {p[1], p[2]} = {m, n}
    PROVE  SimOf(p[1], p[2]) = SimOf(m, n)
<1>1. (p[1] = m /\ p[2] = n) \/ (p[1] = n /\ p[2] = m)
    BY PairIs
<1> QED BY <1>1, SimIs

\* The scan reads: what it finds is true and whole at that moment.
LEMMA ScanInv == ASSUME SweepInv, memory_conflict_record PROVE SweepInv'
<1> DEFINE m == Min(sw.todo)
           near == IF Live(m) THEN {n \in Rows \ {m} : Live(n) /\ SimOf(m, n) >= sw.floor} ELSE {}
           found == {<<Ordered(m, n), SimOf(m, n)>> : n \in near}
<1>1. /\ sw.pc = "batch" /\ sw.todo # {} /\ sw \in SweepType
      /\ sw' = [sw EXCEPT !.pc = "scan", !.todo = @ \ {m}, !.id = m, !.found = found]
      /\ UNCHANGED <<row, active, pairs, marks, tx, flip, cached, wake, writes, faults>>
    BY DEF memory_conflict_record, SweepInv, TypeOK, SweepType
<1>2. m \in sw.todo /\ m \in Rows /\ row[m].state # "none"
    <2>1. m \in sw.todo
        BY <1>1, LeastIs DEF SweepType
    <2> QED BY <1>1, <2>1 DEF SweepInv, UnbornIsBare, SweepType
<1>3. TypeOK
    BY DEF SweepInv
<1>4. \A n \in near : /\ n \in Rows /\ n # m /\ row[n].state = "live" /\ SimOf(m, n) \in Nat
                      /\ Ordered(m, n) \in Pairs
                      /\ {Ordered(m, n)[1], Ordered(m, n)[2]} = {m, n}
                      /\ SimOf(Ordered(m, n)[1], Ordered(m, n)[2]) = SimOf(m, n)
    <2> SUFFICES ASSUME NEW n \in near
                 PROVE  /\ n \in Rows /\ n # m /\ row[n].state = "live" /\ SimOf(m, n) \in Nat
                        /\ Ordered(m, n) \in Pairs
                        /\ {Ordered(m, n)[1], Ordered(m, n)[2]} = {m, n}
                        /\ SimOf(Ordered(m, n)[1], Ordered(m, n)[2]) = SimOf(m, n)
        OBVIOUS
    <2>1. n \in Rows /\ n # m /\ row[n].state = "live"
        OBVIOUS
    <2> HIDE DEF m, near
    <2>2. Ordered(m, n) \in Pairs /\ {Ordered(m, n)[1], Ordered(m, n)[2]} = {m, n}
        BY <1>2, <2>1, OrderedIs
    <2>3. SimOf(m, n) \in Nat
        BY <1>2, <1>3, <2>1, SimIs
    <2>4. SimOf(Ordered(m, n)[1], Ordered(m, n)[2]) = SimOf(m, n)
        BY <1>2, <1>3, <2>1, <2>2, SimOfPair
    <2> QED BY <2>1, <2>2, <2>3, <2>4
<1>5. \A n \in Rows : n # m /\ row[m].state = "live" /\ row[n].state = "live" /\ SimOf(m, n) >= sw.floor => n \in near
    OBVIOUS
<1> HIDE DEF m, near
<1>6. \A f \in found : /\ f \in Pairs \X Nat /\ m \in {f[1][1], f[1][2]}
                       /\ \A n \in {f[1][1], f[1][2]} : row[n].state # "none"
                       /\ f[2] = SimOf(f[1][1], f[1][2])
    <2> SUFFICES ASSUME NEW n \in near, NEW f, f = <<Ordered(m, n), SimOf(m, n)>>
                 PROVE  /\ f \in Pairs \X Nat /\ m \in {f[1][1], f[1][2]}
                        /\ \A o \in {f[1][1], f[1][2]} : row[o].state # "none"
                        /\ f[2] = SimOf(f[1][1], f[1][2])
        OBVIOUS
    <2>1. f[1] = Ordered(m, n) /\ f[2] = SimOf(m, n) /\ f \in Pairs \X Nat
        BY <1>4
    <2>2. {f[1][1], f[1][2]} = {m, n} /\ row[n].state = "live"
        BY <1>4, <2>1
    <2>3. f[2] = SimOf(f[1][1], f[1][2])
        BY <1>4, <2>1
    <2> QED BY <1>2, <2>1, <2>2, <2>3
<1>7. \A p \in Pairs : \A n \in Rows :
          {p[1], p[2]} = {n, m} /\ row[m].state = "live" /\ row[n].state = "live" /\ SimOf(p[1], p[2]) >= sw.floor
          => \E f \in found : f[1] = p
    <2> SUFFICES ASSUME NEW p \in Pairs, NEW n \in Rows, {p[1], p[2]} = {n, m},
                        row[m].state = "live", row[n].state = "live", SimOf(p[1], p[2]) >= sw.floor
                 PROVE  \E f \in found : f[1] = p
        OBVIOUS
    <2>1. n # m /\ p = Ordered(m, n) /\ SimOf(m, n) = SimOf(p[1], p[2])
        BY <1>2, <1>3, PairIs, OrderedOnly, SimOfPair
    <2>2. n \in near
        BY <1>5, <2>1
    <2> DEFINE g == <<Ordered(m, n), SimOf(m, n)>>
    <2>3. g \in found
        BY <2>2
    <2>4. g[1] = p
        BY <2>1
    <2> QED BY <2>3, <2>4
<1> HIDE DEF found
<1>8. /\ sw' \in SweepType /\ sw'.pc = "scan" /\ sw'.id = m /\ sw'.found = found
      /\ sw'.floor = sw.floor /\ sw'.todo \subseteq sw.todo
    <2>1. found \subseteq Pairs \X Nat
        BY <1>6
    <2> QED BY <1>1, <1>2, <2>1 DEF SweepType
<1>9. TypeOK'
    BY <1>1, <1>8 DEF SweepInv, TypeOK, SweepType
<1>10. StoreKnowsSlot' /\ MarksCover' /\ PairsAreTrue'
    BY <1>1 DEF SweepInv, StoreKnowsSlot, MarksCover, PairsAreTrue, SimOf
<1>11. UnbornIsBare'
    BY <1>1, <1>2, <1>6, <1>8 DEF SweepInv, UnbornIsBare
<1>12. ScanIsOfRow'
    BY <1>1, <1>2, <1>6, <1>8 DEF SweepInv, ScanIsOfRow
<1>13. \A n, o \in Rows : SimOf(n, o)' = SimOf(n, o)
    BY <1>1 DEF SimOf
<1>14. FoundIsTrue'
    BY <1>1, <1>6, <1>8, <1>13, PairIs DEF FoundIsTrue
<1>15. FoundIsWhole'
    BY <1>1, <1>7, <1>8, <1>13, PairIs DEF FoundIsWhole
<1> QED BY <1>9, <1>10, <1>11, <1>12, <1>14, <1>15 DEF SweepInv

\* A scan that ends without a commit leaves the two tables.
LEMMA ScanEnds ==
    ASSUME SweepInv, sw.pc = "scan", NEW b \in BOOLEAN,
           sw' = [sw EXCEPT !.pc = "batch", !.scanned = b, !.found = {}, !.id = 0]
    PROVE  /\ sw' \in SweepType /\ sw'.pc = "batch" /\ sw'.found = {} /\ sw'.id = 0
           /\ sw'.todo = sw.todo /\ sw'.floor = sw.floor /\ sw.floor # 0
<1>1. sw \in SweepType /\ sw.floor # 0
    BY DEF SweepInv, TypeOK, SweepType, ScanIsOfRow
<1> QED BY <1>1 DEF SweepType

LEMMA AbortInv ==
    ASSUME SweepInv, sw.pc = "scan", UNCHANGED <<row, active, pairs, marks, tx, flip, cached, wake, writes>>,
           faults' \in 0 .. MaxFaults, sw' = [sw EXCEPT !.pc = "batch", !.found = {}, !.id = 0]
    PROVE  SweepInv'
<1>1. sw \in SweepType
    BY DEF SweepInv, TypeOK, SweepType
<1>2. sw.scanned \in BOOLEAN /\ sw' = [sw EXCEPT !.pc = "batch", !.scanned = sw.scanned, !.found = {}, !.id = 0]
    BY <1>1 DEF SweepType
<1>3. /\ sw' \in SweepType /\ sw'.pc = "batch" /\ sw'.found = {} /\ sw'.id = 0
      /\ sw'.todo = sw.todo /\ sw'.floor = sw.floor /\ sw.floor # 0
    BY <1>2, ScanEnds
<1>4. TypeOK'
    BY <1>3 DEF SweepInv, TypeOK, SweepType
<1>5. StoreKnowsSlot' /\ MarksCover' /\ PairsAreTrue'
    BY DEF SweepInv, StoreKnowsSlot, MarksCover, PairsAreTrue, SimOf
<1>6. UnbornIsBare' /\ ScanIsOfRow' /\ FoundIsTrue' /\ FoundIsWhole'
    BY <1>3, RowsAreNat DEF SweepInv, UnbornIsBare, ScanIsOfRow, FoundIsTrue, FoundIsWhole
<1> QED BY <1>4, <1>5, <1>6 DEF SweepInv

\* The scan commits what it found: no row of it is gone, so all of it is still
\* true, and the mark says no more than was found.
LEMMA CommitInv ==
    ASSUME SweepInv, sw.pc = "scan",
           sw.found = {} \/ \A m \in {sw.id} \cup UNION {{f[1][1], f[1][2]} : f \in sw.found} : row[m].state # "gone",
           pairs' = [p \in Pairs |-> IF \E f \in sw.found : f[1] = p
                                     THEN (CHOOSE f \in sw.found : f[1] = p)[2] ELSE pairs[p]],
           marks' = IF row[sw.id].state = "gone" THEN marks ELSE [marks EXCEPT ![sw.id] = sw.floor],
           sw' = [sw EXCEPT !.pc = "batch", !.scanned = TRUE, !.found = {}, !.id = 0],
           UNCHANGED <<row, active, tx, flip, cached, wake, writes, faults>>
    PROVE  SweepInv'
<1>1. /\ sw' \in SweepType /\ sw'.pc = "batch" /\ sw'.found = {} /\ sw'.id = 0
      /\ sw'.todo = sw.todo /\ sw'.floor = sw.floor /\ sw.floor # 0
    BY ScanEnds
<1>2. /\ pairs \in [Pairs -> Nat] /\ marks \in [Rows -> {0} \cup Range(Floor)] /\ TypeOK
      /\ sw.found \subseteq Pairs \X Nat /\ sw.id \in Rows /\ sw.floor \in {0} \cup Range(Floor)
    BY DEF SweepInv, TypeOK, ScanIsOfRow
<1>3. \A f \in sw.found : f[1] \in Pairs /\ f[2] = SimOf(f[1][1], f[1][2])
    <2>1. \A f \in sw.found : \A m \in {f[1][1], f[1][2]} : row[m].state # "gone"
        OBVIOUS
    <2> QED BY <1>2, <2>1 DEF SweepInv, FoundIsTrue
<1>4. \A p \in Pairs : /\ (\E f \in sw.found : f[1] = p) => pairs'[p] = SimOf(p[1], p[2])
                       /\ ~(\E f \in sw.found : f[1] = p) => pairs'[p] = pairs[p]
    <2> SUFFICES ASSUME NEW p \in Pairs
                 PROVE  /\ (\E f \in sw.found : f[1] = p) => pairs'[p] = SimOf(p[1], p[2])
                        /\ ~(\E f \in sw.found : f[1] = p) => pairs'[p] = pairs[p]
        OBVIOUS
    <2>1. ASSUME NEW g \in sw.found, g[1] = p PROVE (CHOOSE f \in sw.found : f[1] = p)[2] = SimOf(p[1], p[2])
        <3> DEFINE c == CHOOSE f \in sw.found : f[1] = p
        <3>1. c \in sw.found /\ c[1] = p
            BY <2>1
        <3> HIDE DEF c
        <3>2. c[2] = SimOf(p[1], p[2])
            BY <1>3, <3>1
        <3> QED BY <3>2 DEF c
    <2> QED BY <2>1
<1>5. /\ marks' \in [Rows -> {0} \cup Range(Floor)] /\ \A n \in Rows : n # sw.id => marks'[n] = marks[n]
      /\ row[sw.id].state = "live" => marks'[sw.id] = sw.floor
      /\ row[sw.id].state = "none" => FALSE
    BY <1>2 DEF SweepInv, UnbornIsBare
<1>6. TypeOK'
    <2>1. pairs' \in [Pairs -> Nat]
        <3>1. \A p \in Pairs : pairs'[p] \in Nat
            BY <1>2, <1>4, SimIs, PairIs
        <3>2. pairs' = [p \in Pairs |-> pairs'[p]]
            OBVIOUS
        <3> QED BY <3>1, <3>2
    <2> QED BY <1>1, <1>5, <2>1 DEF SweepInv, TypeOK, SweepType
<1>7. StoreKnowsSlot'
    BY DEF SweepInv, StoreKnowsSlot
<1>8. UnbornIsBare'
    <2>1. \A n \in Rows, p \in Pairs : row[n].state = "none" /\ n \in {p[1], p[2]} => pairs'[p] = pairs[p]
        BY <1>4 DEF SweepInv, UnbornIsBare
    <2> QED BY <1>1, <1>5, <2>1, RowsAreNat DEF SweepInv, UnbornIsBare
<1>9. ScanIsOfRow' /\ FoundIsTrue' /\ FoundIsWhole'
    BY <1>1 DEF ScanIsOfRow, FoundIsTrue, FoundIsWhole
<1>10. \A n, o \in Rows : SimOf(n, o)' = SimOf(n, o)
    BY DEF SimOf
<1>11. PairsAreTrue'
    BY <1>4, <1>10, PairIs DEF SweepInv, PairsAreTrue
<1>12. MarksCover'
    <2> SUFFICES ASSUME NEW p \in Pairs, row[p[1]].state = "live", row[p[2]].state = "live",
                        marks'[p[1]] # 0, marks'[p[2]] # 0,
                        SimOf(p[1], p[2]) >= marks'[p[1]], SimOf(p[1], p[2]) >= marks'[p[2]]
                 PROVE  pairs'[p] = SimOf(p[1], p[2])
        BY <1>10, PairIs DEF MarksCover
    <2>1. CASE \E f \in sw.found : f[1] = p
        BY <1>4, <2>1
    <2>2. CASE ~(\E f \in sw.found : f[1] = p) /\ sw.id \notin {p[1], p[2]}
        BY <1>4, <1>5, <2>2, PairIs DEF SweepInv, MarksCover
    <2>3. CASE ~(\E f \in sw.found : f[1] = p) /\ sw.id \in {p[1], p[2]}
        <3>1. PICK m \in Rows : {p[1], p[2]} = {m, sw.id} /\ m # sw.id /\ row[m].state = "live" /\ row[sw.id].state = "live"
            BY <2>3, PairIs
        <3>2. marks[m] # 0 /\ SimOf(p[1], p[2]) >= sw.floor
            BY <1>5, <3>1
        <3> QED BY <2>3, <3>1, <3>2 DEF SweepInv, FoundIsWhole
    <2> QED BY <2>1, <2>2, <2>3
<1> QED BY <1>6, <1>7, <1>8, <1>9, <1>11, <1>12 DEF SweepInv

LEMMA RecordInv == ASSUME SweepInv, record_commit \/ record_fails PROVE SweepInv'
<1>1. CASE record_fails
    <2>1. faults' \in 0 .. MaxFaults
        BY <1>1, SweepAssumption DEF record_fails, SweepInv, TypeOK
    <2> QED BY <1>1, <2>1, AbortInv DEF record_fails
<1>2. CASE record_commit
    <2>1. CASE sw' = [sw EXCEPT !.pc = "batch", !.found = {}, !.id = 0] /\ UNCHANGED <<pairs, marks>>
        <3>1. faults' \in 0 .. MaxFaults
            BY <1>2 DEF record_commit, SweepInv, TypeOK
        <3> QED BY <1>2, <2>1, <3>1, AbortInv DEF record_commit
    <2>2. CASE ~(sw' = [sw EXCEPT !.pc = "batch", !.found = {}, !.id = 0] /\ UNCHANGED <<pairs, marks>>)
        BY <1>2, <2>2, CommitInv DEF record_commit
    <2> QED BY <2>1, <2>2
<1> QED BY <1>1, <1>2

-----------------------------------------------------------------------------
(* The invariant and what it says.                                         *)

LEMMA NextInv == ASSUME SweepInv, Next PROVE SweepInv'
<1>1. CASE Writer
    <2>1. CASE \E m \in Rows : \E v \in Points : \E w \in Points \cup {Null} : insert(m, v, w)
        BY <2>1, InsertInv
    <2>2. CASE \E m \in Rows : retire(m) \/ memory_conflict_rescan_row(m)
        BY <2>2, StateInv
    <2>3. CASE \E m \in Rows : forget(m)
        BY <2>3, ForgetInv
    <2>4. CASE (\E m \in Rows : \E s \in Slots : \E v \in Points \cup {Null} : store(m, s, v)) \/ flip_begin
        BY <2>4, BeginInv
    <2> QED BY <1>1, <2>1, <2>2, <2>3, <2>4 DEF Writer
<1>2. CASE Committing
    BY <1>2, StoreInv, FlipInv DEF Committing
<1>3. CASE refresh
    BY <1>3, BeginInv
<1>4. CASE wait \/ Sweeping \/ record_fails
    BY <1>4, BetweenInv, ScanInv, RecordInv DEF Sweeping
<1> QED BY <1>1, <1>2, <1>3, <1>4 DEF Next

LEMMA StutterInv == ASSUME SweepInv, UNCHANGED vars PROVE SweepInv'
<1>1. TypeOK' /\ StoreKnowsSlot'
    BY DEF SweepInv, vars, TypeOK, StoreKnowsSlot
<1>2. UnbornIsBare' /\ ScanIsOfRow'
    BY DEF SweepInv, vars, UnbornIsBare, ScanIsOfRow
<1>3. FoundIsTrue' /\ FoundIsWhole'
    BY DEF SweepInv, vars, FoundIsTrue, FoundIsWhole, SimOf
<1>4. MarksCover' /\ PairsAreTrue'
    BY DEF SweepInv, vars, MarksCover, PairsAreTrue, SimOf
<1> QED BY <1>1, <1>2, <1>3, <1>4 DEF SweepInv

\* The store knows its slot, what a scan found is true and whole until it commits,
\* and pairs and marks are true at the floors the rows were scanned at.
THEOREM SweepInvariant == Spec => []SweepInv
<1>1. SweepInv /\ [Next]_vars => SweepInv'
    BY NextInv, StutterInv
<1> QED BY SweepInitInv, <1>1, PTL DEF Spec

\* The invalidating triggers of memory, the flip and memory_conflict_record: no
\* stored pair outlives a vector it was computed on.
THEOREM StoredPairsAreTrue == Spec => []PairsAreTrue
<1>1. SweepInv => PairsAreTrue
    BY DEF SweepInv
<1> QED BY SweepInvariant, <1>1, PTL

\* The trigger memory_conflict_revived and the floor a mark carries: two marked,
\* live, close rows have their pair on record.
THEOREM MarksTellTheTruth == Spec => []MarksAreTrue
<1>1. SweepInv => MarksAreTrue
    <2> SUFFICES ASSUME SweepInv, NEW p \in Pairs, Conflict(p), Marked(p[1]), Marked(p[2])
                 PROVE  pairs[p] = SimOf(p[1], p[2])
        BY DEF MarksAreTrue
    <2>1. /\ marks[p[1]] \in Nat /\ marks[p[2]] \in Nat /\ SimOf(p[1], p[2]) \in Nat
          /\ Floor[active] \in Nat
        BY PairIs, SimIs, FloorIs, SweepAssumption DEF SweepInv, TypeOK
    <2>2. SimOf(p[1], p[2]) >= marks[p[1]] /\ SimOf(p[1], p[2]) >= marks[p[2]]
        BY <2>1 DEF Conflict, Marked
    <2> QED BY <2>2 DEF SweepInv, MarksCover, Conflict, Marked
<1> QED BY SweepInvariant, <1>1, PTL
================================================================================
