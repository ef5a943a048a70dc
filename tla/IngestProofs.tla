------------------------------ MODULE IngestProofs ------------------------------
(***************************************************************************)
(* The ingest queue and the batch commands, for any facts, requests,       *)
(* chunks, commands and batches.                                           *)
(*                                                                         *)
(* Of the queue: a request is followed through its statements, and the     *)
(* writes of an open fact that are past the lookup are counted with the    *)
(* copies there are.  Of the batches: what holds of state.json holds of    *)
(* every copy of it a command works on, so it does not matter which of     *)
(* them is written last.                                                   *)
(***************************************************************************)
EXTENDS IngestQueue, IngestBatch, FiniteSetTheorems, TLAPS

QType == [pc : PCs, fact : Facts \cup {None}, approving : BOOLEAN, row : Rows \cup {None}, todo : SUBSET Facts]

\* One request moves on to q.
Moves(r, q) == req' \in [Reqs -> QType] /\ req'[r] = q /\ \A s \in Reqs : s # r => req'[s] = req[s]

Wired(q) ==
    /\ q.pc = "idle" => q = Idle
    /\ q.pc = "next" => q.fact = None /\ ~q.approving
    /\ q.pc \in Writing => q.fact \in Facts
    /\ q.pc = "mark" => q.fact \in Facts /\ q.row \in Rows
    /\ q.pc = "clear" => q.fact \in Private /\ ~q.approving

LEMMA RequestIs ==
    ASSUME QueueInv, NEW r \in Reqs
    PROVE  req \in [Reqs -> QType] /\ req[r] \in QType /\ Wired(req[r])
<1>1. req \in [Reqs -> QType]
    BY DEF QueueInv, TypeOK, QType
<1> QED BY <1>1 DEF QueueInv, RequestIsWired, Wired, At

LEMMA IdleIs == Idle \in QType /\ Wired(Idle) /\ Idle.pc = "idle" /\ Idle.fact = None /\ ~Idle.approving /\ Idle.todo = {}
    BY DEF Idle, QType, PCs, Wired, Writing

LEMMA MoveIs ==
    ASSUME QueueInv, NEW r \in Reqs, NEW q \in QType, req' = [req EXCEPT ![r] = q]
    PROVE  Moves(r, q)
    BY RequestIs DEF Moves

\* What a request that ends goes on with.
LEMMA RestIs ==
    ASSUME NEW q \in QType
    PROVE  Rest(q) \in QType /\ Wired(Rest(q)) /\ Rest(q).pc \in {"idle", "next"} /\ ~Rest(q).approving /\ Rest(q).fact = None
<1>1. CASE q.todo = {}
    BY <1>1, IdleIs DEF Rest
<1>2. CASE q.todo # {}
    <2>1. Rest(q) = [Idle EXCEPT !.pc = "next", !.todo = q.todo] /\ q.todo \in SUBSET Facts
        BY <1>2 DEF Rest, QType
    <2> QED BY <2>1 DEF Idle, QType, PCs, Wired, Writing
<1> QED BY <1>1, <1>2

-----------------------------------------------------------------------------
(* Counting.                                                               *)

LEMMA CountsAre ==
    ASSUME NEW f
    PROVE  /\ IsFiniteSet(Written(f)) /\ IsFiniteSet(Writers(f)) /\ IsFiniteSet(Near(f))
           /\ Cardinality(Written(f)) \in Nat /\ Cardinality(Writers(f)) \in Nat /\ Cardinality(Near(f)) \in Nat
           /\ Cardinality(Near(f)) <= Cardinality(Writers(f))
           /\ Cardinality(Writers(f)) <= Cardinality(Reqs) /\ Cardinality(Reqs) \in Nat
<1>1. IsFiniteSet(Rows) /\ IsFiniteSet(Reqs)
    BY QueueAssumption, FS_Interval DEF Rows
<1>2. Written(f) \in SUBSET Rows /\ Writers(f) \in SUBSET Reqs /\ Near(f) \in SUBSET Writers(f)
    BY DEF Written, Live, Writers, Near
<1>3. IsFiniteSet(Written(f)) /\ IsFiniteSet(Writers(f)) /\ Cardinality(Writers(f)) <= Cardinality(Reqs)
    BY <1>1, <1>2, FS_Subset
<1>4. IsFiniteSet(Near(f)) /\ Cardinality(Near(f)) <= Cardinality(Writers(f))
    BY <1>2, <1>3, FS_Subset
<1> QED BY <1>1, <1>3, <1>4, FS_CardinalityType

\* Nothing new is written or under way.
LEMMA CountShrinks ==
    ASSUME QueueInv, peak' = peak,
           \A f \in Open : Written(f)' \subseteq Written(f) /\ Writers(f)' \subseteq Writers(f) /\ Near(f)' \subseteq Near(f)
    PROVE  CopiesAreCounted'
<1> SUFFICES ASSUME NEW f \in Open
             PROVE  /\ Cardinality(Written(f)') + Cardinality(Near(f)') <= peak[f]
                    /\ Cardinality(Writers(f)') <= peak[f]
    BY DEF CopiesAreCounted
<1>1. /\ IsFiniteSet(Written(f)) /\ IsFiniteSet(Writers(f)) /\ IsFiniteSet(Near(f))
      /\ Cardinality(Written(f)) \in Nat /\ Cardinality(Writers(f)) \in Nat /\ Cardinality(Near(f)) \in Nat
    BY CountsAre
<1>2. Cardinality(Written(f)') <= Cardinality(Written(f)) /\ Cardinality(Written(f)') \in Nat
    BY <1>1, FS_Subset, FS_CardinalityType
<1>3. Cardinality(Writers(f)') <= Cardinality(Writers(f)) /\ Cardinality(Writers(f)') \in Nat
    BY <1>1, FS_Subset, FS_CardinalityType
<1>4. Cardinality(Near(f)') <= Cardinality(Near(f)) /\ Cardinality(Near(f)') \in Nat
    BY <1>1, FS_Subset, FS_CardinalityType
<1>5. peak[f] \in Nat /\ Cardinality(Written(f)) + Cardinality(Near(f)) <= peak[f] /\ Cardinality(Writers(f)) <= peak[f]
    BY CountsAre DEF QueueInv, CopiesAreCounted, TypeOK
<1> QED BY <1>1, <1>2, <1>3, <1>4, <1>5

\* A request that moves on without a write under way.
LEMMA CountLeaves ==
    ASSUME QueueInv, peak' = peak, NEW r \in Reqs, NEW q \in QType, Moves(r, q), q.pc \notin Writing,
           \A f \in Open : Written(f)' \subseteq Written(f)
    PROVE  CopiesAreCounted'
<1>1. \A f \in Open : Writers(f)' \subseteq Writers(f)
    BY DEF Moves, Writers
<1>2. \A f \in Open : Near(f)' \subseteq Near(f)
    <2>1. \A s \in Reqs : req'[s].pc = "near" => s # r
        BY DEF Moves, Writing
    <2> QED BY <2>1 DEF Near, Writers, Moves, At
<1> QED BY <1>1, <1>2, CountShrinks

\* The larger of two numbers.
LEMMA MaxIs == ASSUME NEW a \in Nat, NEW b \in Nat PROVE Max({a, b}) \in {a, b} /\ Max({a, b}) >= a /\ Max({a, b}) >= b
<1>1. \E x \in {a, b} : \A y \in {a, b} : x >= y
    OBVIOUS
<1> QED BY <1>1 DEF Max

\* The newest of some rows is one of them.
LEMMA LargestIs == ASSUME NEW T \in SUBSET Rows, T # {} PROVE Max(T) \in T
<1> DEFINE U == {MaxRows - x : x \in T}
<1>1. \A x \in T : x \in Nat /\ MaxRows - x \in Nat
    BY QueueAssumption DEF Rows
<1>2. U \in SUBSET Nat /\ U # {}
    BY <1>1
<1>3. PICK u \in U : \A y \in U : ~(<<y, u>> \in OpToRel(<, Nat))
    BY <1>2, NatLessThanWellFounded, WFMin
<1>4. \A y \in U : ~(y < u)
    BY <1>2, <1>3 DEF OpToRel
<1>5. PICK x \in T : u = MaxRows - x
    BY <1>3
<1>6. \A y \in T : x >= y
    <2> SUFFICES ASSUME NEW y \in T PROVE x >= y
        OBVIOUS
    <2>1. ~(MaxRows - y < MaxRows - x)
        BY <1>4, <1>5
    <2> QED BY <1>1, <2>1, QueueAssumption
<1> QED BY <1>6 DEF Max

\* A write begins and is counted.
LEMMA CountBegins ==
    ASSUME QueueInv, NEW r \in Reqs, req[r].pc \notin Writing, NEW f \in Facts, NEW q \in QType, Moves(r, q),
           q.pc = "look", q.fact = f, Begin(f), mem' = mem
    PROVE  CopiesAreCounted' /\ peak' \in [Open -> 0 .. Cardinality(Reqs)]
<1>1. \A g \in Open : peak[g] \in 0 .. Cardinality(Reqs) /\ peak[g] \in Nat
    BY CountsAre DEF QueueInv, TypeOK
<1>2. r \notin Writers(f)
    BY DEF Writers
<1>3. \A g : Written(g)' = Written(g)
    BY DEF Written, Live
<1>4. \A g \in Open : Near(g)' \subseteq Near(g)
    <2>1. \A s \in Reqs : req'[s].pc = "near" => s # r
        BY DEF Moves
    <2> QED BY <2>1 DEF Near, Writers, Moves, At
<1>5. \A g \in Open : g # f => Writers(g)' \subseteq Writers(g)
    BY DEF Moves, Writers
<1>6. Writers(f)' \subseteq Writers(f) \cup {r}
    BY DEF Moves, Writers
<1>7. /\ Cardinality(Writers(f)') <= Cardinality(Writers(f)) + 1 /\ Cardinality(Writers(f)') \in Nat
      /\ Cardinality(Writers(f)) + 1 <= Cardinality(Reqs)
    <2>1. IsFiniteSet(Writers(f)) /\ Cardinality(Writers(f)) \in Nat
        BY CountsAre
    <2>2. IsFiniteSet(Writers(f) \cup {r}) /\ Cardinality(Writers(f) \cup {r}) = Cardinality(Writers(f)) + 1
        BY <1>2, <2>1, FS_AddElement
    <2>3. Cardinality(Writers(f)') <= Cardinality(Writers(f)) + 1 /\ Cardinality(Writers(f)') \in Nat
        BY <1>6, <2>2, FS_Subset, FS_CardinalityType
    <2>4. Writers(f) \cup {r} \in SUBSET Reqs /\ IsFiniteSet(Reqs)
        BY QueueAssumption DEF Writers
    <2>5. Cardinality(Writers(f) \cup {r}) <= Cardinality(Reqs)
        BY <2>4, FS_Subset
    <2> QED BY <2>2, <2>3, <2>5
<1> DEFINE top == Max({peak[f], Cardinality(Writers(f)) + 1})
<1>8. f \in Open => top \in 0 .. Cardinality(Reqs) /\ top >= peak[f] /\ top >= Cardinality(Writers(f)) + 1
    <2>1. Cardinality(Writers(f)) + 1 \in Nat /\ Cardinality(Reqs) \in Nat
        BY CountsAre
    <2>2. f \in Open => top \in {peak[f], Cardinality(Writers(f)) + 1} /\ top >= peak[f] /\ top >= Cardinality(Writers(f)) + 1
        BY <1>1, <2>1, MaxIs
    <2> QED BY <1>1, <1>7, <2>1, <2>2
<1>9. peak' = [g \in Open |-> IF g = f THEN top ELSE peak[g]]
    BY DEF Begin
<1> HIDE DEF top
<1>10. peak' \in [Open -> 0 .. Cardinality(Reqs)] /\ \A g \in Open : peak'[g] >= peak[g] /\ peak'[g] \in Nat
    <2>1. \A g \in Open : peak'[g] \in 0 .. Cardinality(Reqs) /\ peak'[g] >= peak[g]
        BY <1>1, <1>8, <1>9
    <2> QED BY <1>9, <2>1, CountsAre
<1>11. CopiesAreCounted'
    <2> SUFFICES ASSUME NEW g \in Open
                 PROVE  /\ Cardinality(Written(g)') + Cardinality(Near(g)') <= peak'[g]
                        /\ Cardinality(Writers(g)') <= peak'[g]
        BY DEF CopiesAreCounted
    <2>1. /\ IsFiniteSet(Writers(g)) /\ IsFiniteSet(Near(g)) /\ Cardinality(Written(g)) \in Nat
          /\ Cardinality(Writers(g)) \in Nat /\ Cardinality(Near(g)) \in Nat
        BY CountsAre
    <2>2. Cardinality(Written(g)) + Cardinality(Near(g)) <= peak[g] /\ Cardinality(Writers(g)) <= peak[g]
        BY DEF QueueInv, CopiesAreCounted
    <2>3. Cardinality(Near(g)') <= Cardinality(Near(g)) /\ Cardinality(Near(g)') \in Nat
        BY <1>4, <2>1, FS_Subset, FS_CardinalityType
    <2>4. Cardinality(Written(g)') + Cardinality(Near(g)') <= peak'[g]
        BY <1>1, <1>3, <1>10, <2>1, <2>2, <2>3
    <2>5. CASE g = f
        BY <1>7, <1>8, <1>9, <1>10, <2>1, <2>4, <2>5
    <2>6. CASE g # f
        <3>1. Cardinality(Writers(g)') <= Cardinality(Writers(g)) /\ Cardinality(Writers(g)') \in Nat
            BY <1>5, <2>1, <2>6, FS_Subset, FS_CardinalityType
        <3> QED BY <1>1, <1>10, <2>1, <2>2, <2>4, <3>1
    <2> QED BY <2>5, <2>6
<1> QED BY <1>10, <1>11

\* The lookup found nothing: the write goes on to add a copy.
LEMMA CountPasses ==
    ASSUME QueueInv, NEW r \in Reqs, req[r].pc = "look", NEW q \in QType, Moves(r, q),
           q.pc = "near", q.fact = req[r].fact, req[r].fact \in Private \/ Live(req[r].fact) = {},
           UNCHANGED <<mem, peak>>
    PROVE  CopiesAreCounted'
<1> SUFFICES ASSUME NEW g \in Open
             PROVE  /\ Cardinality(Written(g)') + Cardinality(Near(g)') <= peak[g]
                    /\ Cardinality(Writers(g)') <= peak[g]
    BY DEF CopiesAreCounted
<1>1. Written(g)' = Written(g)
    BY DEF Written, Live
<1>2. Writers(g)' = Writers(g)
    BY DEF Writers, Moves, Writing
<1>3. /\ IsFiniteSet(Writers(g)) /\ IsFiniteSet(Near(g)) /\ Cardinality(Written(g)) \in Nat
      /\ Cardinality(Writers(g)) \in Nat /\ Cardinality(Near(g)) \in Nat
    BY CountsAre
<1>4. peak[g] \in Nat /\ Cardinality(Written(g)) + Cardinality(Near(g)) <= peak[g] /\ Cardinality(Writers(g)) <= peak[g]
    BY CountsAre DEF QueueInv, CopiesAreCounted, TypeOK
<1>5. CASE g = req[r].fact
    <2>1. Written(g) = {} /\ Near(g)' \subseteq Writers(g)
        BY <1>2, <1>5 DEF Open, Near, Written
    <2>2. Cardinality(Written(g)) = 0 /\ Cardinality(Near(g)') <= Cardinality(Writers(g)) /\ Cardinality(Near(g)') \in Nat
        BY <1>3, <2>1, FS_EmptySet, FS_Subset, FS_CardinalityType
    <2> QED BY <1>1, <1>2, <1>3, <1>4, <2>2
<1>6. CASE g # req[r].fact
    <2>1. Near(g)' \subseteq Near(g)
        BY <1>2, <1>6 DEF Near, Writers, Moves, At
    <2>2. Cardinality(Near(g)') <= Cardinality(Near(g)) /\ Cardinality(Near(g)') \in Nat
        BY <1>3, <2>1, FS_Subset, FS_CardinalityType
    <2> QED BY <1>1, <1>2, <1>3, <1>4, <2>2
<1> QED BY <1>5, <1>6

\* A copy is added by a write that was counted.
LEMMA CountInserts ==
    ASSUME QueueInv, NEW r \in Reqs, req[r].pc = "near", NEW q \in QType, Moves(r, q), q.pc \notin Writing,
           peak' = peak, NEW m \in Rows, mem'[m].fact = req[r].fact, \A n \in Rows : n # m => mem'[n] = mem[n]
    PROVE  CopiesAreCounted'
<1> SUFFICES ASSUME NEW g \in Open
             PROVE  /\ Cardinality(Written(g)') + Cardinality(Near(g)') <= peak[g]
                    /\ Cardinality(Writers(g)') <= peak[g]
    BY DEF CopiesAreCounted
<1>1. Writers(g)' \subseteq Writers(g)
    BY DEF Writers, Moves
<1>2. /\ IsFiniteSet(Writers(g)) /\ IsFiniteSet(Near(g)) /\ IsFiniteSet(Written(g)) /\ Cardinality(Written(g)) \in Nat
      /\ Cardinality(Writers(g)) \in Nat /\ Cardinality(Near(g)) \in Nat
    BY CountsAre
<1>3. peak[g] \in Nat /\ Cardinality(Written(g)) + Cardinality(Near(g)) <= peak[g] /\ Cardinality(Writers(g)) <= peak[g]
    BY CountsAre DEF QueueInv, CopiesAreCounted, TypeOK
<1>4. Cardinality(Writers(g)') <= Cardinality(Writers(g)) /\ Cardinality(Writers(g)') \in Nat
    BY <1>1, <1>2, FS_Subset, FS_CardinalityType
<1>5. Near(g)' \subseteq Near(g) \ {r}
    <2>1. req'[r].pc # "near"
        BY DEF Moves, Writing
    <2> QED BY <2>1 DEF Near, Writers, Moves, At
<1>6. CASE g = req[r].fact
    <2>1. r \in Near(g) /\ Written(g)' \subseteq Written(g) \cup {m}
        BY <1>6 DEF Near, Writers, At, Writing, Written, Live
    <2>2. IsFiniteSet(Written(g) \cup {m}) /\ Cardinality(Written(g) \cup {m}) <= Cardinality(Written(g)) + 1
        BY <1>2, FS_AddElement
    <2>3. IsFiniteSet(Near(g) \ {r}) /\ Cardinality(Near(g) \ {r}) = Cardinality(Near(g)) - 1
        BY <1>2, <2>1, FS_RemoveElement
    <2>4. Cardinality(Written(g)') <= Cardinality(Written(g) \cup {m}) /\ Cardinality(Written(g)') \in Nat
        BY <2>1, <2>2, FS_Subset, FS_CardinalityType
    <2>5. Cardinality(Near(g)') <= Cardinality(Near(g) \ {r}) /\ Cardinality(Near(g)') \in Nat
        BY <1>5, <2>3, FS_Subset, FS_CardinalityType
    <2>6. Cardinality(Written(g) \cup {m}) \in Nat
        BY <2>2, FS_CardinalityType
    <2> QED BY <1>2, <1>3, <1>4, <2>2, <2>3, <2>4, <2>5, <2>6
<1>7. CASE g # req[r].fact
    <2>1. Written(g)' \subseteq Written(g) /\ Near(g)' \subseteq Near(g)
        BY <1>5, <1>7 DEF Written, Live
    <2>2. Cardinality(Written(g)') <= Cardinality(Written(g)) /\ Cardinality(Written(g)') \in Nat
        BY <1>2, <2>1, FS_Subset, FS_CardinalityType
    <2>3. Cardinality(Near(g)') <= Cardinality(Near(g)) /\ Cardinality(Near(g)') \in Nat
        BY <1>2, <2>1, FS_Subset, FS_CardinalityType
    <2> QED BY <1>2, <1>3, <1>4, <2>2, <2>3
<1> QED BY <1>6, <1>7

-----------------------------------------------------------------------------
(* Steps of a request that change no proposal and no row.                  *)

LEMMA QueueInitInv == Init => QueueInv
<1> SUFFICES ASSUME Init PROVE QueueInv
    OBVIOUS
<1>1. TypeOK
    <2>1. req \in [Reqs -> QType]
        BY IdleIs DEF Init
    <2>2. peak \in [Open -> 0 .. Cardinality(Reqs)]
        BY CountsAre DEF Init
    <2>3. prop \in [Facts -> [state : {"none", "proposed", "rejected", "written"}, text : BOOLEAN, memory : Rows \cup {None}]]
        BY DEF Init, Fresh
    <2>4. mem \in [Rows -> [fact : Facts \cup {None}, state : RowStates, by : Rows \cup {None}]]
        BY DEF Init, Unborn, RowStates
    <2>5. rows \in 0 .. MaxRows
        BY QueueAssumption DEF Init
    <2> QED BY <2>1, <2>2, <2>3, <2>4, <2>5 DEF Init, TypeOK, QType
<1>2. RequestIsWired
    BY IdleIs DEF Init, RequestIsWired, At, Writing
<1>3. NamedIsWritten /\ ClosedIsSilent /\ UnbornIsBlank /\ TextIsGone
    BY DEF Init, NamedIsWritten, ClosedIsSilent, UnbornIsBlank, TextIsGone, Fresh, Unborn
<1>4. CopiesAreCounted
    <2>1. \A f \in Open : Written(f) = {} /\ Writers(f) = {} /\ Near(f) = {}
        BY IdleIs DEF Init, Written, Live, Alive, Unborn, Writers, Near, Writing
    <2>2. \A f \in Open : peak[f] = 0
        BY DEF Init
    <2> QED BY <2>1, <2>2, FS_EmptySet DEF CopiesAreCounted
<1> QED BY <1>1, <1>2, <1>3, <1>4 DEF QueueInv

\* The request keeps its approval or has none; the proposal of a new one waits;
\* a clear that does not happen is on record.
LEMMA MoveInv ==
    ASSUME QueueInv, UNCHANGED <<prop, mem, rows, closed>>,
           NEW r \in Reqs, NEW q \in QType, Moves(r, q), Wired(q),
           q.approving => \/ req[r].approving /\ q.fact = req[r].fact
                          \/ q.fact \in Facts /\ prop[q.fact].state = "proposed",
           torn' = torn \/ (req[r].pc = "clear" /\ torn' = torn \cup {req[r].fact}),
           req[r].pc = "clear" => req[r].fact \in torn',
           peak' \in [Open -> 0 .. Cardinality(Reqs)], CopiesAreCounted'
    PROVE  QueueInv'
<1>1. Wired(req[r]) /\ req[r] \in QType
    BY RequestIs
<1>2. TypeOK'
    <2>1. torn' \subseteq Private
        BY <1>1 DEF QueueInv, TypeOK, Wired
    <2> QED BY <2>1 DEF QueueInv, TypeOK, Moves, QType
<1>3. RequestIsWired'
    <2> SUFFICES ASSUME NEW s \in Reqs PROVE Wired(req'[s])
        BY DEF RequestIsWired, Wired, At
    <2>1. Wired(req[s])
        BY RequestIs
    <2> QED BY <2>1 DEF Moves
<1>4. NamedIsWritten' /\ UnbornIsBlank'
    BY DEF QueueInv, NamedIsWritten, UnbornIsBlank
<1>5. ClosedIsSilent'
    BY DEF QueueInv, ClosedIsSilent, Approvers, Moves
<1>6. TextIsGone'
    <2> SUFFICES ASSUME NEW f \in Facts, prop[f].text
                 PROVE  /\ f \in Private =>
                              \/ prop[f].state = "proposed" \/ f \in torn'
                              \/ prop[f].state = "rejected" /\ \E s \in Reqs : req'[s].pc = "clear" /\ req'[s].fact = f
                        /\ prop[f].state = "written" => prop[f].memory # None
        BY DEF TextIsGone, At
    <2>1. /\ f \in Private =>
                 \/ prop[f].state = "proposed" \/ f \in torn
                 \/ prop[f].state = "rejected" /\ \E s \in Reqs : req[s].pc = "clear" /\ req[s].fact = f
          /\ prop[f].state = "written" => prop[f].memory # None
        BY DEF QueueInv, TextIsGone, At
    <2>2. ASSUME NEW s \in Reqs, req[s].pc = "clear", req[s].fact = f
          PROVE  f \in torn' \/ \E t \in Reqs : req'[t].pc = "clear" /\ req'[t].fact = f
        <3>1. CASE s = r
            BY <2>2, <3>1
        <3>2. CASE s # r
            BY <2>2, <3>2 DEF Moves
        <3> QED BY <3>1, <3>2
    <2>3. torn \subseteq torn'
        OBVIOUS
    <2> QED BY <2>1, <2>2, <2>3
<1> QED BY <1>2, <1>3, <1>4, <1>5, <1>6 DEF QueueInv

LEMMA WrittenKept == ASSUME mem' = mem PROVE \A f : Written(f)' = Written(f)
    BY DEF Written, Live

\* The request ends or turns to something that writes no copy.
LEMMA LeaveInv ==
    ASSUME QueueInv, UNCHANGED <<prop, mem, rows, closed, peak, torn>>,
           NEW r \in Reqs, NEW q \in QType, Moves(r, q), Wired(q), q.pc \notin Writing, req[r].pc # "clear",
           q.approving => req[r].approving /\ q.fact = req[r].fact
    PROVE  QueueInv'
<1>1. CopiesAreCounted'
    BY CountLeaves, WrittenKept
<1>2. peak' \in [Open -> 0 .. Cardinality(Reqs)]
    BY DEF QueueInv, TypeOK
<1> QED BY <1>1, <1>2, MoveInv

LEMMA EndIs ==
    ASSUME QueueInv, NEW r \in Reqs, End(r)
    PROVE  Moves(r, Rest(req[r])) /\ Rest(req[r]) \in QType /\ Wired(Rest(req[r]))
    BY RequestIs, RestIs, MoveIs DEF End

LEMMA ApproveInv ==
    ASSUME QueueInv, NEW r \in Reqs,
           (\E F \in SUBSET Facts : approve_all(r, F)) \/ (\E f \in Facts : approve(r, f))
    PROVE  QueueInv'
<1>1. ASSUME NEW F \in SUBSET Facts, approve_all(r, F) PROVE QueueInv'
    <2> DEFINE q == [Idle EXCEPT !.pc = "next", !.todo = F]
    <2>1. q \in QType /\ Wired(q) /\ q.pc = "next" /\ ~q.approving
        BY DEF Idle, QType, PCs, Wired, Writing
    <2>2. req[r] = Idle /\ req \in [Reqs -> QType]
        BY <1>1, RequestIs DEF approve_all, At, Wired
    <2>3. Moves(r, q)
        <3>1. req' = [req EXCEPT ![r].pc = "next", ![r].todo = F]
            BY <1>1 DEF approve_all
        <3>2. req'[r] = q /\ \A s \in Reqs : s # r => req'[s] = req[s]
            BY <2>2, <3>1 DEF Idle
        <3>3. req' = [s \in Reqs |-> req'[s]]
            BY <2>2, <3>1
        <3> QED BY <2>1, <2>2, <3>2, <3>3 DEF Moves
    <2> HIDE DEF q
    <2>4. req[r].pc # "clear" /\ q.pc \notin Writing
        BY <2>1, <2>2, IdleIs DEF Writing
    <2> QED BY <1>1, <2>1, <2>3, <2>4, LeaveInv DEF approve_all
<1>2. ASSUME NEW f \in Facts, approve(r, f) PROVE QueueInv'
    <2> DEFINE rest == [req[r] EXCEPT !.todo = @ \ {f}]
    <2>1. /\ req[r].pc = "next" /\ req[r].fact = None /\ ~req[r].approving /\ req[r] \in QType
          /\ UNCHANGED <<prop, mem, rows, closed, torn>>
        BY <1>2, RequestIs DEF approve, At, Wired
    <2>2. rest \in QType
        BY <2>1 DEF QType
    <2>3. CASE prop[f].state = "proposed" /\ req' = [req EXCEPT ![r] = [rest EXCEPT !.pc = "look", !.fact = f, !.approving = TRUE]] /\ Begin(f)
        <3> DEFINE q == [rest EXCEPT !.pc = "look", !.fact = f, !.approving = TRUE]
        <3>1. q \in QType /\ q.pc = "look" /\ q.fact = f /\ Wired(q)
            BY <2>1 DEF QType, PCs, Wired, Writing
        <3> HIDE DEF q
        <3>2. Moves(r, q)
            BY <2>3, <3>1, MoveIs DEF q
        <3>3. req[r].pc \notin Writing
            BY <2>1 DEF Writing
        <3>4. CopiesAreCounted' /\ peak' \in [Open -> 0 .. Cardinality(Reqs)]
            BY <2>1, <2>3, <3>1, <3>2, <3>3, CountBegins
        <3> QED BY <2>1, <2>3, <3>1, <3>2, <3>4, MoveInv
    <2>4. CASE req' = [req EXCEPT ![r] = Rest(rest)] /\ UNCHANGED peak
        <3> HIDE DEF rest
        <3> DEFINE q == Rest(rest)
        <3>1. q \in QType /\ Wired(q) /\ q.pc \notin Writing /\ ~q.approving
            BY <2>2, RestIs DEF Writing
        <3> HIDE DEF q
        <3>2. Moves(r, q)
            BY <2>4, <3>1, MoveIs DEF q
        <3> QED BY <2>1, <2>4, <3>1, <3>2, LeaveInv
    <2> QED BY <1>2, <2>3, <2>4 DEF approve
<1> QED BY <1>1, <1>2

LEMMA ToolInv == ASSUME QueueInv, NEW r \in Reqs, NEW f \in Facts, memory_write(r, f) PROVE QueueInv'
<1> DEFINE q == [Idle EXCEPT !.pc = "look", !.fact = f]
<1>1. q \in QType /\ Wired(q) /\ q.pc = "look" /\ ~q.approving /\ q.fact = f
    BY DEF Idle, QType, PCs, Wired, Writing
<1>2. req[r] = Idle /\ req \in [Reqs -> QType] /\ Begin(f) /\ UNCHANGED <<prop, mem, rows, closed, torn>>
    BY RequestIs DEF memory_write, At, Wired
<1>3. Moves(r, q)
    <2>1. req' = [req EXCEPT ![r].pc = "look", ![r].fact = f]
        BY DEF memory_write
    <2>2. req'[r] = q /\ \A s \in Reqs : s # r => req'[s] = req[s]
        BY <1>2, <2>1 DEF Idle
    <2>3. req' = [s \in Reqs |-> req'[s]]
        BY <1>2, <2>1
    <2> QED BY <1>1, <1>2, <2>2, <2>3 DEF Moves
<1> HIDE DEF q
<1>4. req[r].pc \notin Writing /\ req[r].pc # "clear"
    BY <1>2, IdleIs DEF Writing
<1>5. CopiesAreCounted' /\ peak' \in [Open -> 0 .. Cardinality(Reqs)]
    BY <1>1, <1>2, <1>3, <1>4, CountBegins
<1> QED BY <1>1, <1>2, <1>3, <1>4, <1>5, MoveInv

\* After the write: to the mark, or to the end.
LEMMA WroteIs ==
    ASSUME QueueInv, NEW r \in Reqs, req[r].pc \in Writing, NEW m \in Rows, Wrote(r, m)
    PROVE  \E q \in QType : /\ Moves(r, q) /\ Wired(q) /\ q.pc \notin Writing
                            /\ q.approving => req[r].approving /\ q.fact = req[r].fact
<1>1. req[r] \in QType /\ Wired(req[r]) /\ req \in [Reqs -> QType]
    BY RequestIs
<1>2. CASE req[r].approving
    <2> DEFINE q == [req[r] EXCEPT !.pc = "mark", !.row = m]
    <2>1. q \in QType /\ Wired(q) /\ q.pc = "mark" /\ q.fact = req[r].fact
        BY <1>1 DEF QType, PCs, Wired, Writing
    <2>2. req' = [req EXCEPT ![r].pc = "mark", ![r].row = m]
        BY <1>2 DEF Wrote, Take
    <2>3. req'[r] = q /\ \A s \in Reqs : s # r => req'[s] = req[s]
        BY <1>1, <2>2 DEF QType
    <2>4. req' = [s \in Reqs |-> req'[s]]
        BY <1>1, <2>2
    <2>5. Moves(r, q)
        BY <1>1, <2>1, <2>3, <2>4 DEF Moves
    <2> HIDE DEF q
    <2> QED BY <1>2, <2>1, <2>5 DEF Writing
<1>3. CASE ~req[r].approving
    <2>1. End(r)
        BY <1>3 DEF Wrote
    <2>2. Rest(req[r]).pc \notin Writing /\ ~Rest(req[r]).approving
        BY <1>1, RestIs DEF Writing
    <2> QED BY <2>1, <2>2, EndIs
<1> QED BY <1>2, <1>3

LEMMA LookInv ==
    ASSUME QueueInv, NEW r \in Reqs, refuse(r) \/ find_exact(r) \/ collapse_target(r)
    PROVE  QueueInv'
<1>1. UNCHANGED <<prop, mem, rows, closed, peak, torn>> /\ req[r].pc \in Writing /\ req[r].pc # "clear"
    BY DEF refuse, find_exact, collapse_target, At, Writing
<1>2. req[r] \in QType /\ Wired(req[r]) /\ req \in [Reqs -> QType]
    BY RequestIs
<1>3. CASE \E m \in Rows : Wrote(r, m)
    <2>1. PICK q \in QType : /\ Moves(r, q) /\ Wired(q) /\ q.pc \notin Writing
                             /\ q.approving => req[r].approving /\ q.fact = req[r].fact
        BY <1>1, <1>3, WroteIs
    <2> QED BY <1>1, <2>1, LeaveInv
<1>4. CASE End(r)
    <2>1. Rest(req[r]).pc \notin Writing /\ ~Rest(req[r]).approving
        BY <1>2, RestIs DEF Writing
    <2> QED BY <1>1, <1>4, <2>1, EndIs, LeaveInv
<1>5. CASE req[r].pc = "look" /\ (req[r].fact \in Private \/ Live(req[r].fact) = {}) /\ Goto(r, "near")
    <2> DEFINE q == [req[r] EXCEPT !.pc = "near"]
    <2>1. q \in QType /\ Wired(q) /\ q.pc = "near" /\ q.fact = req[r].fact /\ q.approving = req[r].approving
        BY <1>1, <1>2 DEF QType, PCs, Wired, Writing
    <2>2. req' = [req EXCEPT ![r] = q]
        BY <1>5 DEF Goto
    <2> HIDE DEF q
    <2>3. Moves(r, q)
        BY <2>1, <2>2, MoveIs
    <2>4. CopiesAreCounted'
        BY <1>1, <1>5, <2>1, <2>3, CountPasses
    <2>5. peak' \in [Open -> 0 .. Cardinality(Reqs)]
        BY <1>1 DEF QueueInv, TypeOK
    <2> QED BY <1>1, <2>1, <2>3, <2>4, <2>5, MoveInv
<1>6. find_exact(r) /\ Wrote(r, Max(Live(req[r].fact))) /\ Live(req[r].fact) # {} => \E m \in Rows : Wrote(r, m)
    <2> SUFFICES ASSUME Live(req[r].fact) # {} PROVE Max(Live(req[r].fact)) \in Rows
        OBVIOUS
    <2> QED BY LargestIs DEF Live
<1> QED BY <1>3, <1>4, <1>5, <1>6 DEF refuse, find_exact, collapse_target, At

\* The request stops where it is.
LEMMA FaultInv == ASSUME QueueInv, NEW r \in Reqs, Fault(r) PROVE QueueInv'
<1>1. req' = [req EXCEPT ![r] = Idle] /\ UNCHANGED <<prop, mem, rows, peak, closed>>
    BY DEF Fault
<1>2. Moves(r, Idle)
    BY <1>1, IdleIs, MoveIs
<1>3. CopiesAreCounted'
    BY <1>1, <1>2, IdleIs, CountLeaves, WrittenKept DEF Writing
<1>4. peak' \in [Open -> 0 .. Cardinality(Reqs)]
    BY <1>1 DEF QueueInv, TypeOK
<1>5. /\ torn' = torn \/ (req[r].pc = "clear" /\ torn' = torn \cup {req[r].fact})
      /\ req[r].pc = "clear" => req[r].fact \in torn'
    BY DEF Fault, At
<1> QED BY <1>1, <1>2, <1>3, <1>4, <1>5, IdleIs, MoveInv

-----------------------------------------------------------------------------
(* Steps that change a row.                                                *)

MType == [fact : Facts \cup {None}, state : RowStates, by : Rows \cup {None}]
PType == [state : {"none", "proposed", "rejected", "written"}, text : BOOLEAN, memory : Rows \cup {None}]

LEMMA TablesAre == ASSUME QueueInv PROVE mem \in [Rows -> MType] /\ prop \in [Facts -> PType]
    BY DEF QueueInv, TypeOK, MType, PType

\* Apart from its request, an insert leaves the proposals alone.
LEMMA InsertInv == ASSUME QueueInv, NEW r \in Reqs, insert(r) PROVE QueueInv'
<1> DEFINE m == rows + 1
           x == [fact |-> req[r].fact, state |-> "live", by |-> None]
<1>1. /\ req[r].pc = "near" /\ rows' = m /\ mem' = [mem EXCEPT ![m] = x] /\ Wrote(r, m)
      /\ UNCHANGED <<prop, peak, closed, torn>> /\ rows < MaxRows
    BY DEF insert, At
<1>2. m \in Rows /\ m \in 0 .. MaxRows
    BY <1>1, QueueAssumption DEF QueueInv, TypeOK, Rows
<1>3. req[r] \in QType /\ Wired(req[r]) /\ mem \in [Rows -> MType] /\ req[r].pc \in Writing
    BY <1>1, RequestIs, TablesAre DEF Writing
<1>4. x \in MType /\ req[r].fact \in Facts
    BY <1>1, <1>3 DEF MType, RowStates, Stored, Alive, QType, Wired, Writing
<1> HIDE DEF m
<1>5. PICK q \in QType : /\ Moves(r, q) /\ Wired(q) /\ q.pc \notin Writing
                         /\ q.approving => req[r].approving /\ q.fact = req[r].fact
    BY <1>1, <1>2, <1>3, WroteIs
<1>6. mem' \in [Rows -> MType] /\ mem'[m] = x /\ \A n \in Rows : n # m => mem'[n] = mem[n]
    BY <1>1, <1>2, <1>3, <1>4
<1>7. CopiesAreCounted'
    <2>1. mem'[m].fact = req[r].fact
        BY <1>6
    <2> QED BY <1>1, <1>2, <1>5, <1>6, <2>1, CountInserts
<1>8. TypeOK'
    BY <1>1, <1>2, <1>5, <1>6 DEF QueueInv, TypeOK, MType, QType, Moves
<1>9. RequestIsWired'
    <2> SUFFICES ASSUME NEW s \in Reqs PROVE Wired(req'[s])
        BY DEF RequestIsWired, Wired, At
    <2>1. Wired(req[s])
        BY RequestIs
    <2> QED BY <1>5, <2>1 DEF Moves
<1>10. NamedIsWritten'
    BY <1>1 DEF QueueInv, NamedIsWritten
<1>11. ClosedIsSilent'
    BY <1>1, <1>5 DEF QueueInv, ClosedIsSilent, Approvers, Moves
<1>12. UnbornIsBlank'
    <2>1. x.state # "none" /\ x.by = None
        OBVIOUS
    <2> HIDE DEF x
    <2> QED BY <1>6, <2>1 DEF QueueInv, UnbornIsBlank
<1>13. TextIsGone'
    <2>1. \A s \in Reqs : req[s].pc = "clear" => req'[s] = req[s]
        BY <1>1, <1>5 DEF Moves
    <2> QED BY <1>1, <2>1 DEF QueueInv, TextIsGone, At
<1> QED BY <1>7, <1>8, <1>9, <1>10, <1>11, <1>12, <1>13 DEF QueueInv

\* No request moves and no copy is written.
LEMMA TableInv ==
    ASSUME QueueInv, UNCHANGED <<rows, req, peak>>,
           mem' \in [Rows -> MType], prop' \in [Facts -> PType], closed' \subseteq Facts, torn' \subseteq Private,
           \A m \in Rows : mem'[m].state = "live" => mem[m].state = "live" /\ mem'[m].fact = mem[m].fact,
           NamedIsWritten', ClosedIsSilent', TextIsGone', UnbornIsBlank'
    PROVE  QueueInv'
<1>1. TypeOK'
    BY DEF QueueInv, TypeOK, MType, PType
<1>2. RequestIsWired'
    BY DEF QueueInv, RequestIsWired, At
<1>3. \A f \in Open : Written(f)' \subseteq Written(f)
    BY DEF Written, Live, Alive
<1>4. \A f : Writers(f)' = Writers(f) /\ Near(f)' = Near(f)
    BY DEF Writers, Near, At
<1>5. CopiesAreCounted'
    BY <1>3, <1>4, CountShrinks
<1> QED BY <1>1, <1>2, <1>5 DEF QueueInv

\* A row is replaced, ends, or comes back to life.
LEMMA RowInv ==
    ASSUME QueueInv, NEW m \in Rows,
           (\E n \in Rows : supersede(m, n)) \/ expire(m) \/ unexpire(m)
    PROVE  QueueInv'
<1>1. PICK x \in MType : /\ mem' = [mem EXCEPT ![m] = x] /\ x.state \in {"retired", "expired", "back"}
                         /\ x.by # None => x.state = "retired"
    <2>1. mem[m] \in MType
        BY TablesAre
    <2>2. ASSUME NEW n \in Rows, supersede(m, n)
          PROVE  \E x \in MType : /\ mem' = [mem EXCEPT ![m] = x] /\ x.state \in {"retired", "expired", "back"}
                                  /\ x.by # None => x.state = "retired"
        <3> DEFINE x == [mem[m] EXCEPT !.state = "retired", !.by = n]
        <3>1. x \in MType /\ x.state = "retired"
            BY <2>1 DEF MType, RowStates, Stored
        <3>2. mem' = [mem EXCEPT ![m] = x]
            BY <2>2, TablesAre DEF supersede
        <3> QED BY <3>1, <3>2
    <2>3. ASSUME expire(m) \/ unexpire(m)
          PROVE  \E x \in MType : /\ mem' = [mem EXCEPT ![m] = x] /\ x.state \in {"retired", "expired", "back"}
                                  /\ x.by # None => x.state = "retired"
        <3>1. PICK t \in {"expired", "back"} : mem' = [mem EXCEPT ![m].state = t]
            BY <2>3 DEF expire, unexpire
        <3>2. mem[m].by = None
            BY <2>3 DEF expire, unexpire, Alive, QueueInv, UnbornIsBlank
        <3> DEFINE x == [mem[m] EXCEPT !.state = t]
        <3>3. x \in MType /\ x.state = t /\ x.by = None
            BY <2>1, <3>2 DEF MType, RowStates, Stored, Alive
        <3>4. mem' = [mem EXCEPT ![m] = x]
            BY <3>1
        <3> QED BY <3>3, <3>4
    <2> QED BY <2>2, <2>3
<1>2. /\ UNCHANGED <<prop, rows, req, peak, closed, torn>>
      /\ mem \in [Rows -> MType] /\ prop \in [Facts -> PType]
    BY TablesAre DEF supersede, expire, unexpire
<1>3. mem' \in [Rows -> MType] /\ mem'[m] = x /\ \A n \in Rows : n # m => mem'[n] = mem[n]
    BY <1>1, <1>2
<1>4. NamedIsWritten' /\ ClosedIsSilent' /\ TextIsGone'
    BY <1>2 DEF QueueInv, NamedIsWritten, ClosedIsSilent, Approvers, TextIsGone, At
<1>5. UnbornIsBlank'
    BY <1>1, <1>3 DEF QueueInv, UnbornIsBlank
<1>6. closed' \subseteq Facts /\ torn' \subseteq Private
    BY <1>2 DEF QueueInv, TypeOK
<1>7. \A n \in Rows : mem'[n].state = "live" => mem[n].state = "live" /\ mem'[n].fact = mem[n].fact
    BY <1>1, <1>3
<1> QED BY <1>2, <1>3, <1>4, <1>5, <1>6, <1>7, TableInv

LEMMA ForgetInv == ASSUME QueueInv, NEW m \in Rows, forget(m) PROVE QueueInv'
<1> DEFINE named == {f \in Facts : prop[f].memory = m}
<1>1. /\ mem' = [n \in Rows |-> IF n = m THEN [Unborn EXCEPT !.state = "gone"]
                               ELSE IF mem[n].by = m THEN Unlinked(n, m) ELSE mem[n]]
      /\ closed' = closed \cup {f \in named : Approvers(f) = {}} /\ UNCHANGED <<rows, req, peak, torn>>
      /\ mem \in [Rows -> MType] /\ prop \in [Facts -> PType]
    BY TablesAre DEF forget
<1>2. ASSUME NEW n \in Rows
      PROVE  /\ mem'[n] \in MType
             /\ mem'[n].state = "live" => mem[n].state = "live" /\ mem'[n].fact = mem[n].fact
             /\ mem'[n].state = "none" => mem'[n] = Unborn
             /\ mem'[n].by # None => mem'[n].state = "retired"
    <2>1. /\ mem[n] \in MType /\ mem[m] \in MType
          /\ mem[n].state = "none" => mem[n] = Unborn
          /\ mem[n].by # None => mem[n].state = "retired"
        BY <1>1 DEF QueueInv, UnbornIsBlank
    <2>2. CASE n = m
        <3>1. mem'[n] = [Unborn EXCEPT !.state = "gone"]
            BY <1>1, <2>2
        <3> QED BY <3>1 DEF Unborn, MType, RowStates
    <2>3. CASE n # m /\ mem[n].by = m
        <3>1. mem'[n] = Unlinked(n, m) /\ mem[n].state = "retired"
            <4>1. m # None
                BY QueueAssumption DEF Rows
            <4>2. mem'[n] = IF n = m THEN [Unborn EXCEPT !.state = "gone"]
                            ELSE IF mem[n].by = m THEN Unlinked(n, m) ELSE mem[n]
                BY <1>1
            <4> QED BY <2>1, <2>3, <4>1, <4>2
        <3>2. CASE mem[m].by # None
            <4>1. mem'[n] = [mem[n] EXCEPT !.by = mem[m].by]
                BY <3>1, <3>2 DEF Unlinked
            <4> QED BY <2>1, <3>1, <4>1 DEF MType
        <3>3. CASE mem[m].by = None
            <4>1. mem'[n] = [mem[n] EXCEPT !.state = "back", !.by = None]
                BY <3>1, <3>3 DEF Unlinked
            <4> QED BY <2>1, <4>1 DEF MType, RowStates, Stored, Alive
        <3> QED BY <3>2, <3>3
    <2>4. CASE n # m /\ mem[n].by # m
        BY <1>1, <2>1, <2>4 DEF QueueInv, UnbornIsBlank
    <2> QED BY <2>2, <2>3, <2>4
<1>3. mem' \in [Rows -> MType] /\ UnbornIsBlank'
    <2>1. mem' = [n \in Rows |-> mem'[n]]
        BY <1>1
    <2> QED BY <1>2, <2>1 DEF UnbornIsBlank
<1>4. \A f \in Facts : IF f \in named THEN prop'[f] = [prop[f] EXCEPT !.memory = None, !.text = FALSE]
                       ELSE prop'[f] = prop[f]
    BY DEF forget
<1>5. ASSUME NEW f \in Facts
      PROVE  /\ prop'[f] \in PType /\ prop'[f].state = prop[f].state
             /\ f \in named => prop'[f].memory = None /\ prop'[f].text = FALSE
    <2>1. prop[f] \in PType
        BY <1>1
    <2>2. CASE f \in named
        <3>1. prop'[f] = [prop[f] EXCEPT !.memory = None, !.text = FALSE]
            BY <1>4, <2>2
        <3> QED BY <2>1, <3>1 DEF PType
    <2>3. CASE f \notin named
        BY <1>4, <2>1, <2>3
    <2> QED BY <2>2, <2>3
<1>6. prop' \in [Facts -> PType]
    <2>1. prop' = [f \in Facts |-> prop'[f]]
        BY DEF forget
    <2> QED BY <1>5, <2>1
<1>7. NamedIsWritten'
    BY <1>4, <1>5 DEF QueueInv, NamedIsWritten
<1>8. ClosedIsSilent'
    <2>1. m # None
        BY QueueAssumption DEF Rows
    <2>2. \A f \in named : prop[f].state = "written" /\ f \in Facts
        BY <2>1 DEF QueueInv, NamedIsWritten
    <2>3. \A f : Approvers(f)' = Approvers(f)
        BY <1>1 DEF Approvers
    <2>4. closed \subseteq Facts
        BY DEF QueueInv, TypeOK
    <2> HIDE DEF named
    <2> QED BY <1>1, <1>5, <2>2, <2>3, <2>4 DEF QueueInv, ClosedIsSilent
<1>9. TextIsGone'
    <2>1. \A f \in Facts : prop'[f].text => prop'[f] = prop[f]
        BY <1>4, <1>5
    <2> HIDE DEF named
    <2> QED BY <1>1, <2>1 DEF QueueInv, TextIsGone, At
<1>10. closed' \subseteq Facts /\ torn' \subseteq Private
    BY <1>1 DEF QueueInv, TypeOK
<1> QED BY <1>1, <1>2, <1>3, <1>6, <1>7, <1>8, <1>9, <1>10, TableInv

-----------------------------------------------------------------------------
(* Steps that decide a proposal.                                           *)

LEMMA PostInv == ASSUME QueueInv, NEW f \in Facts, post(f) \/ unreject(f) PROVE QueueInv'
<1>1. prop \in [Facts -> PType] /\ mem \in [Rows -> MType] /\ UNCHANGED <<mem, rows, req, peak, torn>>
    BY TablesAre DEF post, unreject
<1>2. PICK x \in PType : /\ prop' = [prop EXCEPT ![f] = x] /\ x.state = "proposed" /\ x.memory = None
                         /\ closed' = closed \ {f} \/ (closed' = closed /\ prop[f].state = "none")
    <2>1. CASE post(f)
        <3> DEFINE x == [state |-> "proposed", text |-> TRUE, memory |-> None]
        <3>1. x \in PType
            BY DEF PType
        <3> QED BY <2>1, <3>1 DEF post
    <2>2. CASE unreject(f)
        <3> DEFINE x == [prop[f] EXCEPT !.state = "proposed"]
        <3>1. x \in PType /\ x.state = "proposed" /\ x.memory = prop[f].memory
            BY <1>1 DEF PType
        <3>2. prop[f].memory = None
            BY <2>2 DEF unreject, QueueInv, NamedIsWritten
        <3> QED BY <2>2, <3>1, <3>2 DEF unreject
    <2> QED BY <2>1, <2>2
<1>3. prop' \in [Facts -> PType] /\ prop'[f] = x /\ \A g \in Facts : g # f => prop'[g] = prop[g]
    BY <1>1, <1>2
<1>4. NamedIsWritten'
    BY <1>2, <1>3 DEF QueueInv, NamedIsWritten
<1>5. ClosedIsSilent' /\ closed' \subseteq Facts
    <2>1. f \notin closed'
        BY <1>2 DEF QueueInv, ClosedIsSilent
    <2>2. closed' \subseteq closed /\ closed \subseteq Facts
        BY <1>2 DEF QueueInv, TypeOK
    <2>3. \A g : Approvers(g)' = Approvers(g)
        BY <1>1 DEF Approvers
    <2> QED BY <1>3, <2>1, <2>2, <2>3 DEF QueueInv, ClosedIsSilent
<1>6. TextIsGone'
    BY <1>1, <1>2, <1>3 DEF QueueInv, TextIsGone, At
<1>7. torn' \subseteq Private
    BY <1>1 DEF QueueInv, TypeOK
<1>8. UnbornIsBlank'
    BY <1>1 DEF QueueInv, UnbornIsBlank
<1> QED BY <1>1, <1>3, <1>4, <1>5, <1>6, <1>7, <1>8, TableInv

\* A request changes proposal f to x and moves on to q.
LEMMA DecideInv ==
    ASSUME QueueInv, UNCHANGED <<mem, rows, peak>>, NEW f \in Facts, NEW x \in PType,
           prop'[f] = x /\ prop' \in [Facts -> PType] /\ \A g \in Facts : g # f => prop'[g] = prop[g],
           NEW r \in Reqs, NEW q \in QType, Moves(r, q), Wired(q), q.pc \notin Writing, ~q.approving,
           req[r].pc = "clear" => req[r].fact = f,
           x.memory # None => x.state = "written",
           closed' \subseteq closed \cup {f}, f \in closed' => x.state \in {"rejected", "written"} /\ Approvers(f) = {},
           torn' \subseteq Private, torn \ {f} \subseteq torn',
           x.text => /\ f \in Private => x.state = "rejected" /\ q.pc = "clear" /\ q.fact = f
                     /\ x.state = "written" => x.memory # None
    PROVE  QueueInv'
<1>1. TypeOK'
    BY DEF QueueInv, TypeOK, PType, QType, Moves
<1>2. RequestIsWired'
    <2> SUFFICES ASSUME NEW s \in Reqs PROVE Wired(req'[s])
        BY DEF RequestIsWired, Wired, At
    <2>1. Wired(req[s])
        BY RequestIs
    <2> QED BY <2>1 DEF Moves
<1>3. NamedIsWritten'
    BY DEF QueueInv, NamedIsWritten
<1>4. ClosedIsSilent'
    <2>1. \A g : Approvers(g)' \subseteq Approvers(g)
        BY DEF Approvers, Moves
    <2>2. closed \subseteq Facts
        BY DEF QueueInv, TypeOK
    <2> QED BY <2>1, <2>2 DEF QueueInv, ClosedIsSilent
<1>5. UnbornIsBlank'
    BY DEF QueueInv, UnbornIsBlank
<1>6. CopiesAreCounted'
    BY CountLeaves, WrittenKept
<1>7. TextIsGone'
    <2> SUFFICES ASSUME NEW g \in Facts, prop'[g].text
                 PROVE  /\ g \in Private =>
                              \/ prop'[g].state = "proposed" \/ g \in torn'
                              \/ prop'[g].state = "rejected" /\ \E s \in Reqs : req'[s].pc = "clear" /\ req'[s].fact = g
                        /\ prop'[g].state = "written" => prop'[g].memory # None
        BY DEF TextIsGone, At
    <2>1. CASE g = f
        BY <2>1 DEF Moves
    <2>2. CASE g # f
        <3>1. prop'[g] = prop[g] /\ (g \in torn => g \in torn')
            BY <2>2
        <3>2. /\ g \in Private =>
                 \/ prop[g].state = "proposed" \/ g \in torn
                 \/ prop[g].state = "rejected" /\ \E s \in Reqs : req[s].pc = "clear" /\ req[s].fact = g
              /\ prop[g].state = "written" => prop[g].memory # None
            BY <3>1 DEF QueueInv, TextIsGone, At
        <3>3. \A s \in Reqs : req[s].pc = "clear" /\ req[s].fact = g => req'[s] = req[s]
            BY <2>2 DEF Moves
        <3> QED BY <3>1, <3>2, <3>3
    <2> QED BY <2>1, <2>2
<1> QED BY <1>1, <1>2, <1>3, <1>4, <1>5, <1>6, <1>7 DEF QueueInv

\* mark_written, by id alone.
LEMMA MarkInv == ASSUME QueueInv, NEW r \in Reqs, mark_written(r) PROVE QueueInv'
<1> DEFINE f == req[r].fact
           q == Rest(req[r])
<1>1. /\ req[r].pc = "mark" /\ End(r) /\ UNCHANGED <<mem, rows, peak, closed, torn>>
      /\ prop \in [Facts -> PType] /\ mem \in [Rows -> MType] /\ req[r] \in QType
      /\ f \in Facts /\ req[r].row \in Rows
    BY TablesAre, RequestIs DEF mark_written, At, Wired
<1>2. Moves(r, q) /\ q \in QType /\ Wired(q) /\ q.pc \notin Writing /\ ~q.approving
    BY <1>1, EndIs, RestIs DEF Writing
<1> HIDE DEF q
<1>3. CASE prop' = prop
    BY <1>1, <1>2, <1>3, LeaveInv
<1>4. CASE prop' = [prop EXCEPT ![f].state = "written", ![f].memory = req[r].row, ![f].text = @ /\ f \notin Private]
    <2> DEFINE b == prop[f].text /\ f \notin Private
               x == [state |-> "written", text |-> b, memory |-> req[r].row]
    <2>1. b \in BOOLEAN /\ prop[f] \in PType
        BY <1>1 DEF PType
    <2>2. prop'[f] = x /\ \A g \in Facts : g # f => prop'[g] = prop[g]
        BY <1>1, <1>4, <2>1 DEF PType
    <2>3. x.state = "written" /\ x.text = b /\ x.memory = req[r].row
        OBVIOUS
    <2>4. b => f \notin Private
        OBVIOUS
    <2> HIDE DEF b
    <2>5. x \in PType
        BY <1>1, <2>1 DEF PType
    <2>6. prop' \in [Facts -> PType]
        <3>1. prop' = [g \in Facts |-> prop'[g]]
            BY <1>1, <1>4
        <3> QED BY <1>1, <2>2, <2>5, <3>1
    <2> HIDE DEF x, f
    <2>7. f \in closed' => Approvers(f) = {}
        BY <1>1 DEF QueueInv, ClosedIsSilent
    <2>8. x.memory # None /\ torn' \subseteq Private
        BY <1>1, <2>3, QueueAssumption DEF Rows, QueueInv, TypeOK
    <2> QED BY <1>1, <1>2, <2>2, <2>3, <2>4, <2>5, <2>6, <2>7, <2>8, DecideInv
<1> QED BY <1>3, <1>4 DEF mark_written

LEMMA RejectInv == ASSUME QueueInv, NEW r \in Reqs, NEW f \in Facts, reject(r, f) PROVE QueueInv'
<1> DEFINE x == [prop[f] EXCEPT !.state = "rejected"]
           q == IF f \in Private THEN [Idle EXCEPT !.pc = "clear", !.fact = f] ELSE Idle
<1>1. /\ req[r] = Idle /\ prop[f].state = "proposed" /\ prop' = [prop EXCEPT ![f] = x]
      /\ closed' = IF Approvers(f) = {} THEN closed \cup {f} ELSE closed
      /\ torn' = torn \ {f} /\ UNCHANGED <<mem, rows, peak>>
      /\ prop \in [Facts -> PType] /\ mem \in [Rows -> MType] /\ req \in [Reqs -> QType]
    BY TablesAre, RequestIs DEF reject, At, Wired
<1>2. x \in PType /\ x.state = "rejected" /\ x.text = prop[f].text /\ x.memory = prop[f].memory
    BY <1>1 DEF PType
<1>3. x.memory = None
    BY <1>1, <1>2 DEF QueueInv, NamedIsWritten
<1> HIDE DEF x
<1>4. prop' \in [Facts -> PType] /\ prop'[f] = x /\ \A g \in Facts : g # f => prop'[g] = prop[g]
    BY <1>1, <1>2
<1>5. q \in QType /\ Wired(q) /\ q.pc \notin Writing /\ ~q.approving /\ (f \in Private => q.pc = "clear" /\ q.fact = f)
    <2>1. CASE f \in Private
        BY <2>1 DEF Idle, QType, PCs, Wired, Writing
    <2>2. CASE f \notin Private
        BY <2>2, IdleIs DEF Writing
    <2> QED BY <2>1, <2>2
<1>6. Moves(r, q)
    <2>1. CASE f \notin Private
        BY <1>1, <1>5, <2>1 DEF reject, Moves
    <2>2. CASE f \in Private
        <3>1. req' = [req EXCEPT ![r].pc = "clear", ![r].fact = f]
            BY <2>2 DEF reject
        <3>2. req'[r] = q /\ \A s \in Reqs : s # r => req'[s] = req[s]
            BY <1>1, <2>2, <3>1 DEF Idle
        <3>3. req' = [s \in Reqs |-> req'[s]]
            BY <1>1, <3>1
        <3> QED BY <1>1, <1>5, <3>2, <3>3 DEF Moves
    <2> QED BY <2>1, <2>2
<1> HIDE DEF q
<1>7. closed' \subseteq closed \cup {f} /\ (f \in closed' => Approvers(f) = {})
    BY <1>1 DEF QueueInv, ClosedIsSilent
<1>8. torn' \subseteq Private /\ req[r].pc # "clear"
    BY <1>1, IdleIs DEF QueueInv, TypeOK
<1> QED BY <1>1, <1>2, <1>3, <1>4, <1>5, <1>6, <1>7, <1>8, DecideInv

LEMMA ClearInv == ASSUME QueueInv, NEW r \in Reqs, clear_text(r) PROVE QueueInv'
<1> DEFINE f == req[r].fact
           q == Rest(req[r])
           x == [prop[f] EXCEPT !.text = FALSE]
<1>1. /\ req[r].pc = "clear" /\ End(r) /\ prop' = [prop EXCEPT ![f] = x] /\ torn' = torn \ {f}
      /\ UNCHANGED <<mem, rows, peak, closed>>
      /\ prop \in [Facts -> PType] /\ mem \in [Rows -> MType] /\ req[r] \in QType /\ f \in Facts
    BY TablesAre, RequestIs, QueueAssumption DEF clear_text, At, Wired
<1>2. Moves(r, q) /\ q \in QType /\ Wired(q) /\ q.pc \notin Writing /\ ~q.approving
    BY <1>1, EndIs, RestIs DEF Writing
<1>3. x \in PType /\ x.state = prop[f].state /\ ~x.text /\ x.memory = prop[f].memory
    <2>1. prop[f] \in PType
        BY <1>1
    <2> QED BY <2>1 DEF PType
<1> HIDE DEF x, q
<1>4. prop' \in [Facts -> PType] /\ prop'[f] = x /\ \A g \in Facts : g # f => prop'[g] = prop[g]
    BY <1>1, <1>3
<1>5. /\ x.memory # None => x.state = "written"
      /\ f \in closed' => x.state \in {"rejected", "written"} /\ Approvers(f) = {}
      /\ torn' \subseteq Private
    BY <1>1, <1>3 DEF QueueInv, NamedIsWritten, ClosedIsSilent, TypeOK
<1>6. closed' \subseteq closed \cup {f} /\ torn \ {f} \subseteq torn'
    BY <1>1
<1>7. req[r].pc = "clear" => req[r].fact = f
    OBVIOUS
<1> HIDE DEF f
<1> QED BY <1>1, <1>2, <1>3, <1>4, <1>5, <1>6, <1>7, DecideInv

-----------------------------------------------------------------------------
(* The queue's theorems.                                                   *)

LEMMA QueueNext == ASSUME QueueInv, Next PROVE QueueInv'
<1>1. ASSUME NEW r \in Reqs, Approving(r) \/ run_inner(r) \/ Rejecting(r) \/ Fault(r) PROVE QueueInv'
    BY <1>1, ApproveInv, MarkInv, ToolInv, LookInv, InsertInv, RejectInv, ClearInv, FaultInv
       DEF Approving, run_inner, Rejecting
<1>2. ASSUME NEW f \in Facts, post(f) \/ unreject(f) PROVE QueueInv'
    BY <1>2, PostInv
<1>3. ASSUME NEW m \in Rows, expire(m) \/ unexpire(m) \/ forget(m) \/ \E n \in Rows : supersede(m, n) PROVE QueueInv'
    BY <1>3, RowInv, ForgetInv
<1> QED BY <1>1, <1>2, <1>3 DEF Next

LEMMA QueueStutter == ASSUME QueueInv, UNCHANGED vars PROVE QueueInv'
<1>1. UNCHANGED <<prop, mem, rows, req, peak, closed, torn>>
    BY DEF vars
<1>2. NamedIsWritten' /\ ClosedIsSilent' /\ TextIsGone' /\ UnbornIsBlank'
    BY <1>1 DEF QueueInv, NamedIsWritten, ClosedIsSilent, Approvers, TextIsGone, At, UnbornIsBlank
<1>3. closed' \subseteq Facts /\ torn' \subseteq Private
    BY <1>1 DEF QueueInv, TypeOK
<1> QED BY <1>1, <1>2, <1>3, TablesAre, TableInv

\* Requests hold what their statement needs, an answer that stands is silent, and
\* the copies of an open fact are counted among the writes of it.
THEOREM QueueInvariant == Spec => []QueueInv
<1>1. QueueInv /\ [Next]_vars => QueueInv'
    BY QueueNext, QueueStutter
<1> QED BY QueueInitInv, <1>1, PTL DEF Spec

\* The trigger of migration 18, clear_text and the trigger on memory_id.
THEOREM DecidedTextIsGone == Spec => []TextIsGone
<1>1. QueueInv => TextIsGone
    BY DEF QueueInv
<1> QED BY QueueInvariant, <1>1, PTL

\* find_exact in front of the write: for any number of requests, crashes and retries.
THEOREM CopiesNeedConcurrency == Spec => []CopiesAreConcurrent
<1>1. QueueInv => CopiesAreConcurrent
    <2> SUFFICES ASSUME QueueInv, NEW f \in Open PROVE Cardinality(Written(f)) <= peak[f]
        BY DEF CopiesAreConcurrent
    <2>1. Cardinality(Written(f)) + Cardinality(Near(f)) <= peak[f] /\ peak[f] \in Nat
        BY CountsAre DEF QueueInv, CopiesAreCounted, TypeOK
    <2> QED BY <2>1, CountsAre
<1> QED BY QueueInvariant, <1>1, PTL

\* approve reads the state before it writes, and insert_proposal changes nothing
\* on conflict: a closed fact is written by no approval.
THEOREM AnswersStand == Spec => AnswerStands
<1> DEFINE A == \A f \in closed \cap closed' : \A r \in Reqs :
                    rows' # rows /\ req'[r] # req[r] /\ req[r].fact = f => ~req[r].approving
<1>1. QueueInv /\ [Next]_vars => [A]_vars
    <2> SUFFICES ASSUME QueueInv, NEW f \in closed, NEW r \in Reqs, req[r].fact = f
                 PROVE  ~req[r].approving
        OBVIOUS
    <2> QED BY DEF QueueInv, ClosedIsSilent, Approvers
<1> QED BY QueueInvariant, <1>1, PTL DEF Spec, AnswerStands

-----------------------------------------------------------------------------
(* The batch commands.                                                     *)

SType == [failed : SUBSET Chunks, usage : [Batches -> Nat],
          batch : [id : {0} \cup Batches, collected : BOOLEAN], past : SUBSET Batches]
KType == [pc : {"idle", "poll", "collect", "write", "renew", "create", "extract"},
          flag : Flags, state : SType, todo : SUBSET Chunks]
RType == [state : {"none", "running", "ended"}, chunks : SUBSET Chunks, ok : SUBSET Chunks]

CopyOk(s) == Told(s) /\ Clean(s) /\ Whole(s)

LEMMA BatchTypes ==
    ASSUME BatchInv
    PROVE  /\ file \in SType /\ out \subseteq Chunks /\ remote \in [Batches -> RType] /\ cmd \in [Cmds -> KType]
           /\ kept \subseteq Batches \X Chunks \X BOOLEAN /\ KeptIsAnswered /\ CopyOk(file)
           /\ \A p \in Cmds : cmd[p] \in KType /\ cmd[p].state \in SType /\ CopyOk(cmd[p].state) /\ Placed(cmd[p])
<1>1. /\ file \in SType /\ out \subseteq Chunks /\ remote \in [Batches -> RType] /\ cmd \in [Cmds -> KType]
      /\ kept \subseteq Batches \X Chunks \X BOOLEAN /\ KeptIsAnswered
    BY DEF BatchInv, BatchTypeOK, SType, KType, RType
<1>2. \A p \in Cmds : cmd[p] \in KType /\ cmd[p].state \in SType
    BY <1>1 DEF KType
<1>3. CopyOk(file) /\ \A p \in Cmds : CopyOk(cmd[p].state) /\ Placed(cmd[p])
    BY DEF BatchInv, CopyOk, Copies, Commands
<1> QED BY <1>1, <1>2, <1>3

\* Outputs and answers are only added, and a batch that ended does not change.
Grows ==
    /\ out \subseteq out' /\ kept \subseteq kept'
    /\ \A b \in Batches :
          /\ remote[b] # Unmade => remote'[b] # Unmade /\ remote'[b].chunks = remote[b].chunks
          /\ remote[b].state = "ended" => remote'[b] = remote[b]

LEMMA CopyStable ==
    ASSUME Grows, NEW s \in SType, CopyOk(s)
    PROVE  CopyOk(s)'
<1>1. /\ s.past \subseteq Batches /\ Behind(s) \subseteq s.past
      /\ \A a \in Behind(s) : remote'[a] = remote[a]
      /\ s.batch # NoBatch => s.batch.id \in Batches /\ remote'[s.batch.id].chunks = remote[s.batch.id].chunks
      /\ s.batch = NoBatch => Behind(s) = {} /\ ~s.batch.collected
    BY DEF CopyOk, Told, Behind, Grows, SType, NoBatch
<1>2. Told(s)'
    BY <1>1 DEF CopyOk, Told, Grows
<1>3. Clean(s)'
    BY <1>1 DEF CopyOk, Clean, Spoilt, Grows
<1>4. Whole(s)'
    BY <1>1 DEF CopyOk, Whole, Grows
<1> QED BY <1>2, <1>3, <1>4 DEF CopyOk

LEMMA PlacedStable ==
    ASSUME Grows, NEW k \in KType, Placed(k), CopyOk(k.state)
    PROVE  Placed(k)'
<1>1. k.state \in SType
    BY DEF KType
<1>2. \A a \in Behind(k.state) : remote'[a] = remote[a]
    BY <1>1 DEF CopyOk, Told, Behind, Grows, SType
<1>3. k.pc = "collect" => remote'[k.state.batch.id].state = "ended"
    <2>1. k.state.batch # NoBatch => k.state.batch.id \in Batches
        BY <1>1 DEF CopyOk, Told, SType
    <2> QED BY <2>1 DEF Placed, Grows
<1>4. \A a \in Behind(k.state) : \A c \in remote'[a].chunks \cap k.todo : Spoilt(a, c)'
    BY <1>2 DEF Placed, Spoilt, Grows
<1> QED BY <1>3, <1>4 DEF Placed

\* One command goes on to k, and state.json to F.
LEMMA CommandStep ==
    ASSUME BatchInv, NEW p \in Cmds, NEW k \in KType, cmd' = [cmd EXCEPT ![p] = k], NEW F \in SType, file' = F,
           Grows, out' \subseteq Chunks, remote' \in [Batches -> RType], faults' = faults \/ FaultStep,
           kept' \subseteq Batches \X Chunks \X BOOLEAN, KeptIsAnswered',
           CopyOk(F) \/ CopyOk(F)', CopyOk(k.state)', Placed(k)'
    PROVE  BatchInv'
<1>1. cmd \in [Cmds -> KType] /\ \A q \in Cmds : cmd[q] \in KType /\ cmd[q].state \in SType
    BY BatchTypes
<1>2. cmd' \in [Cmds -> KType] /\ cmd'[p] = k /\ \A q \in Cmds : q # p => cmd'[q] = cmd[q]
    BY <1>1
<1>3. faults' \in 0 .. MaxFaults
    BY BatchAssumption DEF BatchInv, BatchTypeOK, FaultStep
<1>4. BatchTypeOK'
    BY <1>2, <1>3 DEF BatchTypeOK, SType, KType, RType
<1>5. \A j \in Commands' : j = k \/ (j \in Commands /\ j \in KType)
    BY <1>1, <1>2 DEF Commands
<1>6. ASSUME NEW j \in Commands' PROVE Placed(j)' /\ CopyOk(j.state)'
    <2>1. CASE j = k
        BY <2>1
    <2>2. CASE j # k
        <3>1. j \in KType /\ j.state \in SType /\ Placed(j) /\ CopyOk(j.state)
            BY <1>5, <1>6, <2>2 DEF BatchInv, CopyOk, Copies, KType
        <3>2. PICK t : t = j.state
            OBVIOUS
        <3>3. CopyOk(t)'
            BY <3>1, <3>2, CopyStable
        <3>4. Placed(j)'
            BY <3>1, PlacedStable
        <3> QED BY <3>2, <3>3, <3>4
    <2> QED BY <2>1, <2>2
<1>7. CopyOk(F)'
    BY CopyStable
<1>8. \A s \in Copies' : CopyOk(s)'
    BY <1>6, <1>7 DEF Copies
<1> QED BY <1>4, <1>6, <1>8 DEF BatchInv, CopyOk

LEMMA NewIs == NewState \in SType /\ NewState.batch = NoBatch /\ ~NewState.batch.collected /\ NewState.past = {}
               /\ NewState.failed = {} /\ NewState.usage = [b \in Batches |-> 0]
    BY DEF NewState, NoBatch, SType

LEMMA NewOk == CopyOk(NewState) /\ CopyOk(NewState)'
<1>1. Behind(NewState) = {}
    BY NewIs DEF Behind
<1>2. Told(NewState) /\ Clean(NewState) /\ Whole(NewState)
    BY <1>1, NewIs DEF Told, Clean, Whole
<1>3. Told(NewState)' /\ Clean(NewState)' /\ Whole(NewState)'
    BY <1>1, NewIs DEF Told, Clean, Whole
<1> QED BY <1>2, <1>3 DEF CopyOk

LEMMA NoCmdIs == NoCmd \in KType /\ NoCmd.pc = "idle" /\ NoCmd.state = NewState /\ NoCmd.todo = {} /\ NoCmd.flag = "status"
    BY NewIs DEF NoCmd, KType, Flags

LEMMA NoCmdOk == Placed(NoCmd)' /\ CopyOk(NoCmd.state)'
    BY NoCmdIs, NewOk DEF Placed

LEMMA BatchInitInv == BatchInit => BatchInv
<1> SUFFICES ASSUME BatchInit PROVE BatchInv
    OBVIOUS
<1>1. BatchTypeOK
    <2>1. cmd \in [Cmds -> KType] /\ file \in SType
        BY NoCmdIs, NewIs DEF BatchInit
    <2>2. remote \in [Batches -> RType]
        BY DEF BatchInit, Unmade, RType
    <2>3. faults \in 0 .. MaxFaults
        BY BatchAssumption DEF BatchInit
    <2> QED BY <2>1, <2>2, <2>3 DEF BatchInit, BatchTypeOK, SType, KType, RType
<1>2. KeptIsAnswered
    BY DEF BatchInit, KeptIsAnswered, Unmade
<1>3. \A s \in Copies : s = NewState
    BY NoCmdIs DEF BatchInit, Copies, Commands
<1>4. \A k \in Commands : k = NoCmd
    BY DEF BatchInit, Commands
<1>5. Placed(NoCmd)
    BY NoCmdIs DEF Placed
<1> QED BY <1>1, <1>2, <1>3, <1>4, <1>5, NewOk DEF BatchInv, CopyOk

LEMMA SameGrows == ASSUME UNCHANGED <<out, remote, kept>> PROVE Grows
    BY DEF Grows

\* A command that reads, asks or writes its copy back.
LEMMA QuietStep ==
    ASSUME BatchInv, UNCHANGED <<out, remote, kept>>, faults' = faults \/ FaultStep,
           NEW p \in Cmds, NEW k \in KType, cmd' = [cmd EXCEPT ![p] = k],
           NEW F \in SType, file' = F, CopyOk(F), CopyOk(k.state), Placed(k)
    PROVE  BatchInv'
<1>1. out' \subseteq Chunks /\ remote' \in [Batches -> RType] /\ kept' \subseteq Batches \X Chunks \X BOOLEAN
    BY BatchTypes
<1>2. KeptIsAnswered'
    BY BatchTypes DEF KeptIsAnswered
<1>3. PICK t : t = k.state
    OBVIOUS
<1>4. t \in SType
    BY <1>3 DEF KType
<1>5. CopyOk(t)' /\ Placed(k)'
    BY <1>3, <1>4, SameGrows, CopyStable, PlacedStable
<1>6. CopyOk(k.state)'
    BY <1>3, <1>5
<1> QED BY <1>1, <1>2, <1>5, <1>6, SameGrows, CommandStep

LEMMA RunInv == ASSUME BatchInv, NEW p \in Cmds, NEW flag \in Flags, run(p, flag) PROVE BatchInv'
<1> DEFINE k == IF file.batch # NoBatch
                THEN [NoCmd EXCEPT !.pc = "poll", !.state = file, !.flag = IF flag = "fetch" THEN "batch" ELSE flag]
                ELSE IF flag \in {"batch", "retry"}
                     THEN [NoCmd EXCEPT !.pc = "create", !.state = file, !.flag = flag]
                ELSE NoCmd
<1>1. cmd' = [cmd EXCEPT ![p] = k] /\ UNCHANGED <<file, out, remote, faults, kept>> /\ file \in SType /\ CopyOk(file)
    BY BatchTypes DEF run
<1>2. k \in KType /\ CopyOk(k.state) /\ Placed(k)
    <2>1. CASE file.batch # NoBatch
        <3> DEFINE g == IF flag = "fetch" THEN "batch" ELSE flag
        <3>1. g \in Flags
            BY DEF Flags
        <3> HIDE DEF g
        <3>2. k = [pc |-> "poll", flag |-> g, state |-> file, todo |-> {}]
            BY <2>1 DEF NoCmd, g
        <3> QED BY <1>1, <2>1, <3>1, <3>2 DEF KType, Placed
    <2>2. CASE file.batch = NoBatch /\ flag \in {"batch", "retry"}
        <3>1. k = [pc |-> "create", flag |-> flag, state |-> file, todo |-> {}]
            BY <2>2 DEF NoCmd
        <3> QED BY <1>1, <2>2, <3>1 DEF KType, Placed
    <2>3. CASE file.batch = NoBatch /\ flag \notin {"batch", "retry"}
        BY <2>3, NoCmdIs, NewOk DEF Placed
    <2> QED BY <2>1, <2>2, <2>3
<1> HIDE DEF k
<1> QED BY <1>1, <1>2, QuietStep

LEMMA StopInv ==
    ASSUME BatchInv, NEW p \in Cmds, Stop(p), UNCHANGED <<out, remote, kept>>, faults' = faults \/ FaultStep,
           file' = file \/ file' = NewState
    PROVE  BatchInv'
<1>1. file' \in SType /\ CopyOk(NewState) /\ CopyOk(file)
    BY BatchTypes, NewIs, NewOk
<1>2. PICK F \in SType : file' = F /\ (F = file \/ F = NewState)
    BY <1>1
<1>3. CopyOk(F)
    BY <1>1, <1>2
<1>4. Placed(NoCmd) /\ CopyOk(NoCmd.state)
    BY NoCmdIs, NewOk DEF Placed
<1> QED BY <1>2, <1>3, <1>4, NoCmdIs, QuietStep DEF Stop

\* A command that is about to write its copy.
LEMMA FreshIs ==
    ASSUME NEW s \in SType
    PROVE  [NoCmd EXCEPT !.pc = "write", !.state = s] \in {k \in KType : k.pc = "write" /\ k.state = s /\ k.todo = {}}
    BY DEF NoCmd, KType, Flags

\* The copy goes to its write, or the command on to a new batch.
LEMMA FinishedIs ==
    ASSUME BatchInv, NEW p \in Cmds, cmd[p].todo = {}
    PROVE  /\ Finished(p) \in KType /\ Finished(p).state = cmd[p].state /\ Finished(p).todo = {}
           /\ Finished(p).pc = "write" \/ (Finished(p).pc = "renew" /\ Finished(p).flag = "retry")
           /\ [NoCmd EXCEPT !.pc = "write", !.state = cmd[p].state] \in KType
<1>1. cmd[p] \in KType /\ cmd[p].state \in SType
    BY BatchTypes
<1> DEFINE w == [NoCmd EXCEPT !.pc = "write", !.state = cmd[p].state]
<1>2. w \in KType /\ w.pc = "write" /\ w.state = cmd[p].state /\ w.todo = {}
    BY <1>1, FreshIs
<1>3. CASE cmd[p].flag = "retry"
    <2>1. Finished(p) = [cmd[p] EXCEPT !.pc = "renew"]
        BY <1>3 DEF Finished
    <2> QED BY <1>1, <1>2, <1>3, <2>1 DEF KType
<1>4. CASE cmd[p].flag # "retry"
    <2>1. Finished(p) = w
        BY <1>4 DEF Finished
    <2> QED BY <1>2, <2>1
<1> QED BY <1>3, <1>4

LEMMA PollInv == ASSUME BatchInv, NEW p \in Cmds, poll(p) PROVE BatchInv'
<1> DEFINE b == cmd[p].state.batch
<1>1. /\ cmd[p].pc = "poll" /\ cmd[p].todo = {} /\ b # NoBatch /\ cmd[p] \in KType /\ cmd[p].state \in SType
      /\ CopyOk(cmd[p].state) /\ Placed(cmd[p])
      /\ UNCHANGED <<file, out, remote, faults, kept>> /\ file \in SType /\ CopyOk(file)
    BY BatchTypes DEF poll, Is, Placed
<1>2. ASSUME NEW k \in KType, cmd' = [cmd EXCEPT ![p] = k], k.state = cmd[p].state, k.todo = {},
             \/ k.pc = "write"
             \/ k.pc = "renew" /\ k.flag = "retry" /\ b.collected
             \/ k.pc = "collect" /\ ~b.collected /\ remote[b.id].state = "ended"
      PROVE  BatchInv'
    <2>1. Placed(k) /\ CopyOk(k.state)
        BY <1>1, <1>2 DEF Placed
    <2> QED BY <1>1, <1>2, <2>1, QuietStep
<1>3. CASE remote[b.id].state = "ended" /\ b.collected /\ cmd' = [cmd EXCEPT ![p] = Finished(p)]
    <2>1. PICK k : k = Finished(p)
        OBVIOUS
    <2> QED BY <1>1, <1>2, <1>3, <2>1, FinishedIs
<1>4. CASE remote[b.id].state = "ended" /\ ~b.collected /\ cmd' = [cmd EXCEPT ![p] = [cmd[p] EXCEPT !.pc = "collect"]]
    <2>1. PICK k : k = [cmd[p] EXCEPT !.pc = "collect"]
        OBVIOUS
    <2>2. k \in KType /\ k.state = cmd[p].state /\ k.todo = {} /\ k.pc = "collect"
        BY <1>1, <2>1 DEF KType
    <2> QED BY <1>2, <1>4, <2>1, <2>2
<1>5. CASE cmd' = [cmd EXCEPT ![p] = [NoCmd EXCEPT !.pc = "write", !.state = cmd[p].state]]
    <2>1. PICK k : k = [NoCmd EXCEPT !.pc = "write", !.state = cmd[p].state]
        OBVIOUS
    <2>2. k \in KType /\ k.state = cmd[p].state /\ k.todo = {} /\ k.pc = "write"
        BY <1>1, <2>1, FinishedIs DEF NoCmd
    <2> QED BY <1>2, <1>5, <2>1, <2>2
<1>6. CASE Stop(p)
    BY <1>1, <1>6, StopInv
<1> QED BY <1>3, <1>4, <1>5, <1>6 DEF poll

LEMMA WriteInv == ASSUME BatchInv, NEW p \in Cmds, write_run_state(p) PROVE BatchInv'
<1>1. /\ cmd[p] \in KType /\ cmd[p].state \in SType /\ CopyOk(cmd[p].state) /\ Placed(cmd[p])
      /\ UNCHANGED <<out, remote, faults, kept>> /\ file' = cmd[p].state
    BY BatchTypes DEF write_run_state
<1>2. CASE cmd[p].pc = "renew" /\ cmd' = [cmd EXCEPT ![p] = [cmd[p] EXCEPT !.pc = "create"]]
    <2>1. PICK k : k = [cmd[p] EXCEPT !.pc = "create"]
        OBVIOUS
    <2>2. /\ k \in KType /\ k.state = cmd[p].state /\ k.todo = cmd[p].todo /\ k.pc = "create" /\ k.flag = cmd[p].flag
        BY <1>1, <2>1 DEF KType
    <2>3. Placed(k)
        BY <1>1, <1>2, <2>2 DEF Placed
    <2> QED BY <1>1, <1>2, <2>1, <2>2, <2>3, QuietStep
<1>3. CASE cmd' = [cmd EXCEPT ![p] = NoCmd]
    <2>1. Placed(NoCmd) /\ CopyOk(NoCmd.state)
        BY NoCmdIs, NewOk DEF Placed
    <2> QED BY <1>1, <1>3, <2>1, NoCmdIs, QuietStep
<1> QED BY <1>2, <1>3 DEF write_run_state, Is

LEMMA ExtractInv == ASSUME BatchInv, NEW p \in Cmds, NEW retry \in BOOLEAN, extract(p, retry) PROVE BatchInv'
<1> DEFINE todo == IF retry THEN file.failed ELSE Chunks \ out
<1>1. /\ file \in SType /\ CopyOk(file) /\ UNCHANGED <<file, out, remote, faults, kept>>
      /\ cmd' = [cmd EXCEPT ![p] = [NoCmd EXCEPT !.pc = "extract", !.state = file, !.todo = todo]]
    BY BatchTypes DEF extract
<1>2. todo \subseteq Chunks
    BY <1>1 DEF SType
<1>3. \A a \in Behind(file) : \A c \in remote[a].chunks \cap todo : Spoilt(a, c)
    BY <1>1 DEF CopyOk, Clean
<1> HIDE DEF todo
<1>4. PICK k : k = [NoCmd EXCEPT !.pc = "extract", !.state = file, !.todo = todo]
    OBVIOUS
<1>5. k \in KType /\ k.pc = "extract" /\ k.state = file /\ k.todo = todo
    <2>1. todo \in SUBSET Chunks
        BY <1>2
    <2> QED BY <1>1, <1>4, <2>1 DEF NoCmd, KType, Flags
<1>6. Placed(k)
    BY <1>3, <1>5 DEF Placed
<1>7. cmd' = [cmd EXCEPT ![p] = k]
    BY <1>1, <1>4
<1> QED BY <1>1, <1>5, <1>6, <1>7, QuietStep

LEMMA ChunkInv == ASSUME BatchInv, NEW p \in Cmds, run_chunk(p) PROVE BatchInv'
<1> DEFINE S == cmd[p].state
<1>1. PICK c, s :
        /\ c \in cmd[p].todo
        /\ \/ s = [S EXCEPT !.failed = S.failed \ {c}] /\ out' = out \cup {c} /\ faults' = faults
           \/ s = [S EXCEPT !.failed = S.failed \cup {c}] /\ out' = out /\ FaultStep
        /\ file' = s
        /\ cmd' = [cmd EXCEPT ![p] = IF cmd[p].todo = {c} THEN NoCmd
                                     ELSE [cmd[p] EXCEPT !.state = s, !.todo = @ \ {c}]]
    <2>1. PICK c \in cmd[p].todo, ok \in BOOLEAN :
            /\ out' = IF ok THEN out \cup {c} ELSE out
            /\ IF ok THEN UNCHANGED faults ELSE FaultStep
            /\ file' = [S EXCEPT !.failed = IF ok THEN S.failed \ {c} ELSE S.failed \cup {c}]
            /\ cmd' = [cmd EXCEPT ![p] = IF cmd[p].todo = {c} THEN NoCmd
                                         ELSE [cmd[p] EXCEPT !.state = [S EXCEPT !.failed = IF ok THEN S.failed \ {c} ELSE S.failed \cup {c}],
                                                             !.todo = @ \ {c}]]
        BY Zenon DEF run_chunk
    <2>2. CASE ok
        BY <2>1, <2>2
    <2>3. CASE ~ok
        BY <2>1, <2>3
    <2> QED BY <2>1, <2>2, <2>3
<1>2. /\ cmd[p] \in KType /\ S \in SType /\ CopyOk(S) /\ Placed(cmd[p]) /\ cmd[p].pc = "extract"
      /\ UNCHANGED <<remote, kept>> /\ remote \in [Batches -> RType] /\ out \subseteq Chunks
      /\ kept \subseteq Batches \X Chunks \X BOOLEAN /\ KeptIsAnswered
    BY BatchTypes DEF run_chunk, Is
<1>4. c \in Chunks /\ cmd[p].todo \subseteq Chunks
    BY <1>1, <1>2 DEF KType
<1>5. /\ s \in SType /\ s.batch = S.batch /\ s.past = S.past /\ s.usage = S.usage
      /\ S.failed \ {c} \subseteq s.failed /\ s.failed \subseteq S.failed \cup {c}
      /\ c \in out' \/ c \in s.failed
    <2>1. S.failed \ {c} \in SUBSET Chunks /\ S.failed \cup {c} \in SUBSET Chunks
        BY <1>2, <1>4 DEF SType
    <2>2. CASE s = [S EXCEPT !.failed = S.failed \ {c}] /\ out' = out \cup {c}
        BY <1>2, <2>1, <2>2 DEF SType
    <2>3. CASE s = [S EXCEPT !.failed = S.failed \cup {c}]
        BY <1>2, <2>1, <2>3 DEF SType
    <2> QED BY <1>1, <2>2, <2>3
<1>6. Behind(s) = Behind(S)
    BY <1>5 DEF Behind
<1>7. /\ out' \subseteq Chunks /\ out \subseteq out' /\ out' \subseteq out \cup {c} /\ file' = s
      /\ faults' = faults \/ FaultStep
    BY <1>1, <1>2, <1>4
<1>8. Grows
    BY <1>2, <1>7 DEF Grows
<1>9. \A a \in Behind(S) : c \in remote[a].chunks => Spoilt(a, c)
    BY <1>1, <1>2 DEF Placed
<1>10. CopyOk(s)'
    <2>1. Told(s)'
        BY <1>2, <1>5, <1>6 DEF CopyOk, Told, Behind
    <2>2. Clean(s)'
        <3> SUFFICES ASSUME NEW a \in Behind(s), NEW d \in remote[a].chunks,
                            d \notin out' \/ d \in s.failed \/ (a # s.batch.id /\ d \in remote[s.batch.id].chunks)
                     PROVE  Spoilt(a, d)
            BY <1>2 DEF Clean, Spoilt, Behind
        <3>1. CASE d = c
            BY <1>6, <1>9, <3>1
        <3>2. CASE d # c
            <4>1. d \notin out \/ d \in S.failed \/ (a # S.batch.id /\ d \in remote[S.batch.id].chunks)
                BY <1>5, <1>7, <3>2
            <4> QED BY <1>2, <1>6, <4>1 DEF CopyOk, Clean
        <3> QED BY <3>1, <3>2
    <2>3. Whole(s)'
        BY <1>2, <1>5, <1>7 DEF CopyOk, Whole
    <2> QED BY <2>1, <2>2, <2>3 DEF CopyOk
<1>11. KeptIsAnswered' /\ remote' \in [Batches -> RType] /\ kept' \subseteq Batches \X Chunks \X BOOLEAN
    BY <1>2 DEF KeptIsAnswered
<1>12. CASE cmd' = [cmd EXCEPT ![p] = NoCmd]
    BY <1>5, <1>7, <1>8, <1>10, <1>11, <1>12, NoCmdIs, NoCmdOk, CommandStep
<1>13. CASE cmd' = [cmd EXCEPT ![p] = [cmd[p] EXCEPT !.state = s, !.todo = @ \ {c}]]
    <2>1. PICK k : k = [cmd[p] EXCEPT !.state = s, !.todo = @ \ {c}]
        OBVIOUS
    <2>2. k \in KType /\ k.state = s /\ k.todo \subseteq cmd[p].todo /\ k.pc = "extract"
        <3>1. cmd[p].todo \ {c} \in SUBSET Chunks
            BY <1>4
        <3> QED BY <1>2, <1>5, <2>1, <3>1 DEF KType
    <2>3. Placed(k)'
        <3>1. \A a \in Behind(s) : \A d \in remote[a].chunks \cap k.todo : Spoilt(a, d)
            <4>1. \A a \in Behind(S) : \A d \in remote[a].chunks \cap cmd[p].todo : Spoilt(a, d)
                BY <1>2 DEF Placed
            <4> QED BY <1>6, <2>2, <4>1
        <3>2. \A a \in Behind(s) : \A d \in remote'[a].chunks \cap k.todo : Spoilt(a, d)'
            BY <1>2, <3>1 DEF Spoilt
        <3> QED BY <2>2, <3>2 DEF Placed
    <2>4. CopyOk(k.state)'
        BY <1>10, <2>2
    <2>5. cmd' = [cmd EXCEPT ![p] = k]
        BY <1>13, <2>1, Zenon
    <2> QED BY <1>5, <1>7, <1>8, <1>10, <1>11, <2>2, <2>3, <2>4, <2>5, CommandStep
<1>14. CASE cmd[p].todo = {c}
    BY <1>1, <1>12, <1>14, Zenon
<1>15. CASE cmd[p].todo # {c}
    BY <1>1, <1>13, <1>15, Zenon
<1> QED BY <1>14, <1>15

\* What an output or a failed output adds to what was kept.
LEMMA KeptGrows ==
    ASSUME BatchInv, NEW b \in Batches, remote[b].state = "ended", NEW good \in SUBSET remote[b].ok,
           NEW bad \in SUBSET remote[b].ok, UNCHANGED remote,
           out' = out \cup good, kept' = kept \cup ({b} \X good \X {TRUE}) \cup ({b} \X bad \X {FALSE})
    PROVE  /\ Grows /\ KeptIsAnswered' /\ out' \subseteq Chunks /\ kept' \subseteq Batches \X Chunks \X BOOLEAN
           /\ remote' \in [Batches -> RType] /\ remote[b].ok \subseteq remote[b].chunks /\ remote[b].chunks \subseteq Chunks
           /\ \A c \in bad : <<b, c, FALSE>> \in kept'
<1>1. /\ remote \in [Batches -> RType] /\ out \subseteq Chunks /\ kept \subseteq Batches \X Chunks \X BOOLEAN
      /\ KeptIsAnswered
    BY BatchTypes
<1>2. remote[b].ok \subseteq remote[b].chunks /\ remote[b].ok \subseteq Chunks /\ remote[b].chunks \subseteq Chunks
    BY <1>1 DEF RType, KeptIsAnswered
<1>3. out' \subseteq Chunks /\ kept' \subseteq Batches \X Chunks \X BOOLEAN
    BY <1>1, <1>2
<1>4. Grows
    BY DEF Grows
<1>5. KeptIsAnswered'
    <2>1. \A a \in Batches, c \in Chunks : <<a, c, TRUE>> \in kept' => <<a, c, TRUE>> \in kept \/ (a = b /\ c \in good)
        OBVIOUS
    <2> QED BY <1>1, <2>1 DEF KeptIsAnswered
<1>6. \A c \in bad : <<b, c, FALSE>> \in kept'
    OBVIOUS
<1> QED BY <1>1, <1>2, <1>3, <1>4, <1>5, <1>6

LEMMA CollectInv == ASSUME BatchInv, NEW p \in Cmds, collect(p) PROVE BatchInv'
<1> DEFINE S == cmd[p].state
           b == S.batch.id
<1>1. /\ cmd[p] \in KType /\ S \in SType /\ CopyOk(S) /\ Placed(cmd[p]) /\ cmd[p].pc = "collect"
      /\ cmd[p].todo = {} /\ S.batch # NoBatch /\ ~S.batch.collected /\ remote[b].state = "ended"
      /\ UNCHANGED <<file, remote>> /\ file \in SType /\ CopyOk(file) /\ remote \in [Batches -> RType]
    BY BatchTypes DEF collect, Is, Placed
<1>2. b \in S.past /\ b \in Batches
    BY <1>1 DEF CopyOk, Told, SType
<1>3. PICK bad \in SUBSET remote[b].ok :
        /\ IF bad = {} THEN UNCHANGED faults ELSE FaultStep
        /\ out' = out \cup (remote[b].ok \ bad)
        /\ kept' = kept \cup ({b} \X (remote[b].ok \ bad) \X {TRUE}) \cup ({b} \X bad \X {FALSE})
        /\ cmd' = [cmd EXCEPT ![p] = [Finished(p) EXCEPT
                      !.state = [S EXCEPT !.batch.collected = TRUE, !.usage[b] = S.usage[b] + 1,
                                   !.failed = Settled(S.failed, remote[b].ok \ bad, bad \cup route_results(b))]]]
    BY Zenon DEF collect
<1> DEFINE good == remote[b].ok \ bad
           lost == bad \cup route_results(b)
           failed == (S.failed \ good) \cup lost
<1>4. /\ Grows /\ KeptIsAnswered' /\ out' \subseteq Chunks /\ kept' \subseteq Batches \X Chunks \X BOOLEAN
      /\ remote' \in [Batches -> RType] /\ remote[b].ok \subseteq remote[b].chunks /\ remote[b].chunks \subseteq Chunks
      /\ \A c \in bad : <<b, c, FALSE>> \in kept'
    <2>1. kept \subseteq kept' /\ out \subseteq out' /\ \A c \in bad : <<b, c, FALSE>> \in kept'
        BY <1>3
    <2> QED BY <1>1, <1>2, <1>3, <2>1, KeptGrows
<1>5. PICK s : s = [S EXCEPT !.batch.collected = TRUE, !.usage[b] = S.usage[b] + 1,
                             !.failed = Settled(S.failed, remote[b].ok \ bad, bad \cup route_results(b))]
    OBVIOUS
<1>6. failed \in SUBSET Chunks /\ lost \subseteq remote[b].chunks
    BY <1>1, <1>4 DEF SType, route_results
<1>7. /\ s \in SType /\ s.batch.collected /\ s.batch.id = b /\ s.batch # NoBatch /\ s.past = S.past
      /\ s.failed = failed /\ \A a \in Batches : s.usage[a] = IF a = b THEN S.usage[b] + 1 ELSE S.usage[a]
    <2>1. /\ S.batch \in [id : {0} \cup Batches, collected : BOOLEAN]
          /\ [S.batch EXCEPT !.collected = TRUE] \in [id : {0} \cup Batches, collected : BOOLEAN]
          /\ [S.batch EXCEPT !.collected = TRUE].collected /\ [S.batch EXCEPT !.collected = TRUE].id = b
        BY <1>1 DEF SType
    <2>2. /\ [S.usage EXCEPT ![b] = S.usage[b] + 1] \in [Batches -> Nat]
          /\ \A a \in Batches : [S.usage EXCEPT ![b] = S.usage[b] + 1][a] = IF a = b THEN S.usage[b] + 1 ELSE S.usage[a]
        BY <1>1, <1>2 DEF SType
    <2>3. s = [S EXCEPT !.batch = [S.batch EXCEPT !.collected = TRUE], !.usage = [S.usage EXCEPT ![b] = S.usage[b] + 1],
                        !.failed = failed]
        BY <1>5, <1>1 DEF Settled, SType
    <2> DEFINE x == [S.batch EXCEPT !.collected = TRUE]
               u == [S.usage EXCEPT ![b] = S.usage[b] + 1]
    <2> HIDE DEF x, u, failed
    <2>4. s \in SType /\ s.batch = x /\ s.usage = u /\ s.past = S.past /\ s.failed = failed
        BY <1>1, <1>6, <2>1, <2>2, <2>3 DEF SType, x, u
    <2>5. x # NoBatch
        BY <2>1 DEF NoBatch, x
    <2> QED BY <2>1, <2>2, <2>4, <2>5 DEF x, u
<1>8. Behind(s) = S.past /\ Behind(S) = S.past \ {b} /\ S.past \subseteq Batches
    BY <1>1, <1>7 DEF Behind, SType
<1>9. CopyOk(s)'
    <2>1. Told(s)'
        <3>1. \A a \in S.past : remote'[a].state = "ended" /\ remote'[a] # Unmade
            BY <1>1, <1>8 DEF CopyOk, Told
        <3>2. \A a \in Batches : s.usage[a] = IF a \in Behind(s) THEN 1 ELSE 0
            BY <1>1, <1>2, <1>7, <1>8 DEF CopyOk, Told
        <3> QED BY <1>2, <1>7, <1>8, <3>1, <3>2 DEF Told
    <2>2. Clean(s)'
        <3> SUFFICES ASSUME NEW a \in S.past, NEW c \in remote[a].chunks,
                            c \notin out' \/ c \in failed \/ (a # b /\ c \in remote[b].chunks),
                            c \in remote[a].ok
                     PROVE  <<a, c, FALSE>> \in kept'
            BY <1>1, <1>7, <1>8 DEF Clean, Spoilt, Behind
        <3>1. CASE a = b
            <4>1. c \in bad
                BY <1>3, <3>1 DEF route_results
            <4> QED BY <1>4, <3>1, <4>1
        <3>2. CASE a # b
            <4>1. c \notin out \/ c \in S.failed \/ c \in remote[b].chunks
                BY <1>3, <1>6, <3>2
            <4>2. Spoilt(a, c)
                BY <1>1, <1>8, <3>2, <4>1 DEF CopyOk, Clean
            <4> QED BY <1>4, <4>2 DEF Spoilt, Grows
        <3> QED BY <3>1, <3>2
    <2>3. Whole(s)'
        <3>1. remote[b].chunks \subseteq out' \cup failed
            BY <1>3 DEF route_results
        <3> QED BY <1>1, <1>7, <3>1 DEF Whole
    <2> QED BY <2>1, <2>2, <2>3 DEF CopyOk
<1>10. PICK k : k = [Finished(p) EXCEPT !.state = s]
    OBVIOUS
<1>11. /\ k \in KType /\ k.state = s /\ k.todo = {} /\ (k.pc = "write" \/ (k.pc = "renew" /\ k.flag = "retry"))
      /\ cmd' = [cmd EXCEPT ![p] = k]
    <2>1. /\ Finished(p) \in KType /\ Finished(p).todo = {}
          /\ Finished(p).pc = "write" \/ (Finished(p).pc = "renew" /\ Finished(p).flag = "retry")
        BY <1>1, FinishedIs
    <2>2. /\ k \in KType /\ k.state = s /\ k.todo = {} /\ (k.pc = "write" \/ (k.pc = "renew" /\ k.flag = "retry"))
        BY <1>7, <1>10, <2>1 DEF KType
    <2>3. cmd' = [cmd EXCEPT ![p] = k]
        BY <1>3, <1>5, <1>10, Zenon
    <2> QED BY <2>2, <2>3
<1>12. Placed(k)' /\ CopyOk(k.state)'
    BY <1>7, <1>9, <1>11 DEF Placed
<1>13. faults' = faults \/ FaultStep
    BY <1>3
<1> QED BY <1>1, <1>4, <1>11, <1>12, <1>13, CommandStep

LEMMA CreateInv == ASSUME BatchInv, NEW p \in Cmds, create(p) PROVE BatchInv'
<1> DEFINE S == cmd[p].state
           todo == pending_chunks(p)
<1>1. /\ cmd[p] \in KType /\ S \in SType /\ CopyOk(S) /\ Placed(cmd[p]) /\ cmd[p].pc = "create"
      /\ UNCHANGED <<file, out, kept>> /\ file \in SType /\ CopyOk(file) /\ remote \in [Batches -> RType]
      /\ out \subseteq Chunks /\ kept \subseteq Batches \X Chunks \X BOOLEAN /\ KeptIsAnswered
    BY BatchTypes DEF create, Is
<1>2. /\ Behind(S) = S.past /\ S.past \subseteq Batches /\ todo \subseteq Chunks
      /\ \A a \in S.past : \A c \in remote[a].chunks \cap todo : Spoilt(a, c)
    <2>1. todo \subseteq Chunks
        BY <1>1 DEF pending_chunks, SType
    <2>2. CASE S.batch = NoBatch
        BY <1>1, <2>1, <2>2 DEF CopyOk, Told, Behind
    <2>3. CASE cmd[p].flag = "retry" /\ S.batch.collected
        BY <1>1, <2>1, <2>3 DEF CopyOk, Clean, Behind, pending_chunks, SType
    <2> QED BY <1>1, <2>2, <2>3 DEF Placed
<1> HIDE DEF todo
<1>3. CASE Stop(p) /\ UNCHANGED <<remote, faults>>
    BY <1>1, <1>3, StopInv
<1>4. ASSUME NEW b \in Batches, remote[b] = Unmade,
             remote' = [remote EXCEPT ![b] = [Unmade EXCEPT !.state = "running", !.chunks = todo]],
             \/ /\ cmd' = [cmd EXCEPT ![p] = [NoCmd EXCEPT !.pc = "write",
                              !.state = [cmd[p].state EXCEPT !.past = @ \cup {b}, !.batch = [NoBatch EXCEPT !.id = b]]]]
                /\ UNCHANGED faults
             \/ FaultStep /\ Stop(p)
      PROVE  BatchInv'
    <2> DEFINE x == [Unmade EXCEPT !.state = "running", !.chunks = todo]
    <2>1. x \in RType /\ x.state = "running" /\ x.chunks = todo /\ x.ok = {} /\ x # Unmade
        BY <1>2 DEF Unmade, RType
    <2> HIDE DEF x
    <2>2. remote' \in [Batches -> RType] /\ remote'[b] = x /\ \A a \in Batches : a # b => remote'[a] = remote[a]
        BY <1>1, <1>4, <2>1 DEF x
    <2>3. Grows
        BY <1>1, <1>4, <2>2 DEF Grows, Unmade
    <2>4. KeptIsAnswered'
        <3>1. remote[b].ok = {}
            BY <1>4 DEF Unmade
        <3> QED BY <1>1, <2>1, <2>2, <3>1 DEF KeptIsAnswered
    <2>5. faults' = faults \/ FaultStep
        BY <1>4
    <2>6. CASE Stop(p)
        BY <1>1, <2>2, <2>3, <2>4, <2>5, <2>6, NoCmdIs, NoCmdOk, CommandStep DEF Stop
    <2>7. CASE cmd' = [cmd EXCEPT ![p] = [NoCmd EXCEPT !.pc = "write",
                          !.state = [cmd[p].state EXCEPT !.past = @ \cup {b}, !.batch = [NoBatch EXCEPT !.id = b]]]]
        <3>1. PICK s : s = [cmd[p].state EXCEPT !.past = @ \cup {b}, !.batch = [NoBatch EXCEPT !.id = b]]
            OBVIOUS
        <3>2. /\ [NoBatch EXCEPT !.id = b] \in [id : {0} \cup Batches, collected : BOOLEAN]
              /\ [NoBatch EXCEPT !.id = b].id = b /\ ~[NoBatch EXCEPT !.id = b].collected
              /\ [NoBatch EXCEPT !.id = b] # NoBatch
            <4>1. b # 0
                BY BatchAssumption DEF Batches
            <4>2. [NoBatch EXCEPT !.id = b].id = b /\ ~[NoBatch EXCEPT !.id = b].collected /\ NoBatch.id = 0
                BY DEF NoBatch
            <4>3. [NoBatch EXCEPT !.id = b] \in [id : {0} \cup Batches, collected : BOOLEAN]
                BY DEF NoBatch
            <4> QED BY <4>1, <4>2, <4>3
        <3>3. s \in SType /\ s.past = S.past \cup {b} /\ s.batch = [NoBatch EXCEPT !.id = b]
              /\ s.usage = S.usage /\ s.failed = S.failed
            <4>1. S.past \cup {b} \in SUBSET Batches
                BY <1>2
            <4> QED BY <1>1, <3>1, <3>2, <4>1 DEF SType
        <3>4. b \notin S.past
            BY <1>1, <1>4 DEF CopyOk, Told
        <3>5. Behind(s) = S.past
            BY <3>2, <3>3, <3>4 DEF Behind
        <3>6. Told(s)'
            <4>1. \A a \in S.past : remote'[a] = remote[a] /\ remote[a].state = "ended" /\ remote[a] # Unmade
                BY <1>1, <1>2, <2>2, <3>4 DEF CopyOk, Told
            <4>2. \A a \in Batches : s.usage[a] = IF a \in Behind(s) THEN 1 ELSE 0
                BY <1>1, <1>2, <3>3, <3>5 DEF CopyOk, Told
            <4> QED BY <2>1, <2>2, <3>2, <3>3, <3>5, <4>1, <4>2 DEF Told
        <3>7. Clean(s)'
            <4> SUFFICES ASSUME NEW a \in S.past, NEW c \in remote'[a].chunks,
                                c \notin out \/ c \in s.failed \/ (a # b /\ c \in remote'[b].chunks)
                         PROVE  Spoilt(a, c)'
                BY <1>1, <3>2, <3>3, <3>5 DEF Clean
            <4>1. remote'[a] = remote[a]
                BY <1>2, <2>2, <3>4
            <4>2. c \notin out \/ c \in S.failed \/ c \in todo
                BY <2>1, <2>2, <3>3
            <4>3. Spoilt(a, c)
                BY <1>1, <1>2, <4>1, <4>2 DEF CopyOk, Clean
            <4> QED BY <1>1, <4>1, <4>3 DEF Spoilt
        <3>8. CopyOk(s)'
            BY <3>2, <3>3, <3>6, <3>7 DEF CopyOk, Whole
        <3>9. PICK k : k = [NoCmd EXCEPT !.pc = "write", !.state = s]
            OBVIOUS
        <3>10. k \in KType /\ k.pc = "write" /\ k.state = s /\ k.todo = {}
            BY <3>3, <3>9, FreshIs
        <3>11. Placed(k)' /\ CopyOk(k.state)'
            BY <3>8, <3>10 DEF Placed
        <3>12. cmd' = [cmd EXCEPT ![p] = k]
            BY <2>7, <3>1, <3>9, Zenon
        <3> QED BY <1>1, <2>2, <2>3, <2>4, <2>5, <3>10, <3>11, <3>12, CommandStep
    <2> QED BY <1>4, <2>6, <2>7
<1>5. (Stop(p) /\ UNCHANGED <<remote, faults>>)
      \/ \E b \in Batches :
            /\ remote[b] = Unmade
            /\ remote' = [remote EXCEPT ![b] = [Unmade EXCEPT !.state = "running", !.chunks = todo]]
            /\ \/ /\ cmd' = [cmd EXCEPT ![p] = [NoCmd EXCEPT !.pc = "write",
                                !.state = [cmd[p].state EXCEPT !.past = @ \cup {b}, !.batch = [NoBatch EXCEPT !.id = b]]]]
                  /\ UNCHANGED faults
               \/ FaultStep /\ Stop(p)
    BY Zenon DEF create, todo
<1> QED BY <1>3, <1>4, <1>5

LEMMA ProviderInv == ASSUME BatchInv, NEW b \in Batches, Provider(b) PROVE BatchInv'
<1>1. /\ remote \in [Batches -> RType] /\ KeptIsAnswered /\ cmd \in [Cmds -> KType] /\ file \in SType /\ CopyOk(file)
      /\ remote[b].state = "running" /\ UNCHANGED <<file, out, cmd, faults, kept>>
    BY BatchTypes DEF Provider
<1>2. PICK ok \in SUBSET remote[b].chunks : remote' = [remote EXCEPT ![b].state = "ended", ![b].ok = ok]
    BY DEF Provider
<1>3. /\ remote' \in [Batches -> RType] /\ remote'[b].chunks = remote[b].chunks /\ remote'[b].ok = ok
      /\ remote'[b].state = "ended" /\ \A a \in Batches : a # b => remote'[a] = remote[a]
    BY <1>1, <1>2 DEF RType
<1>4. Grows
    BY <1>1, <1>3 DEF Grows, Unmade
<1>5. KeptIsAnswered'
    <2>1. remote[b].ok = {}
        BY <1>1 DEF KeptIsAnswered
    <2> QED BY <1>1, <1>3, <2>1 DEF KeptIsAnswered
<1>6. BatchTypeOK'
    BY <1>1, <1>3 DEF BatchInv, BatchTypeOK, RType
<1>7. ASSUME NEW k \in Commands PROVE Placed(k)' /\ CopyOk(k.state)'
    <2>1. k \in KType /\ k.state \in SType /\ Placed(k) /\ CopyOk(k.state)
        BY <1>1, <1>7 DEF BatchInv, CopyOk, Copies, Commands, KType
    <2>2. PICK t : t = k.state
        OBVIOUS
    <2>3. CopyOk(t)' /\ Placed(k)'
        BY <1>4, <2>1, <2>2, CopyStable, PlacedStable
    <2> QED BY <2>2, <2>3
<1>8. PICK F : F = file
    OBVIOUS
<1>9. CopyOk(F)'
    BY <1>1, <1>4, <1>8, CopyStable
<1>10. Commands' = Commands /\ file' = F
    BY <1>1, <1>8 DEF Commands
<1>11. \A s \in Copies' : CopyOk(s)'
    BY <1>7, <1>9, <1>10 DEF Copies
<1> QED BY <1>5, <1>6, <1>7, <1>10, <1>11 DEF BatchInv, CopyOk

LEMMA DieInv == ASSUME BatchInv, NEW p \in Cmds, Die(p) PROVE BatchInv'
<1> DEFINE b == cmd[p].state.batch.id
<1>1. FaultStep /\ Stop(p) /\ UNCHANGED remote
    BY DEF Die
<1>2. CASE UNCHANGED <<out, kept>> /\ (file' = file \/ file' = NewState)
    BY <1>1, <1>2, StopInv
<1>3. CASE /\ Is(p, "collect") /\ UNCHANGED file
           /\ \E good \in SUBSET remote[b].ok : out' = out \cup good /\ kept' = kept \cup ({b} \X good \X {TRUE})
    <2>1. PICK good \in SUBSET remote[b].ok : out' = out \cup good /\ kept' = kept \cup ({b} \X good \X {TRUE})
        BY <1>3
    <2>2. remote[b].state = "ended" /\ b \in Batches /\ file \in SType /\ CopyOk(file)
        BY <1>3, BatchTypes DEF Is, Placed, CopyOk, Told, SType
    <2>3. kept' = kept \cup ({b} \X good \X {TRUE}) \cup ({b} \X {} \X {FALSE})
        BY <2>1
    <2>4. /\ Grows /\ KeptIsAnswered' /\ out' \subseteq Chunks /\ kept' \subseteq Batches \X Chunks \X BOOLEAN
          /\ remote' \in [Batches -> RType]
        <3> HIDE DEF b
        <3>1. {} \in SUBSET remote[b].ok
            OBVIOUS
        <3> QED BY <1>1, <2>1, <2>2, <2>3, <3>1, KeptGrows
    <2>5. PICK F \in SType : file' = F /\ CopyOk(F)
        BY <1>3, <2>2
    <2> QED BY <1>1, <2>4, <2>5, NoCmdIs, NoCmdOk, CommandStep DEF Stop
<1> QED BY <1>2, <1>3 DEF Die

LEMMA BatchNextInv == ASSUME BatchInv, BatchNext PROVE BatchInv'
    BY RunInv, PollInv, CollectInv, WriteInv, CreateInv, ChunkInv, DieInv, ExtractInv, ProviderInv DEF BatchNext

LEMMA BatchStutter == ASSUME BatchInv, UNCHANGED bvars PROVE BatchInv'
<1>1. file' = file /\ out' = out /\ remote' = remote /\ cmd' = cmd /\ faults' = faults /\ kept' = kept
    BY DEF bvars
<1>2. BatchTypeOK' /\ KeptIsAnswered'
    BY <1>1 DEF BatchInv, BatchTypeOK, KeptIsAnswered
<1>3. Commands' = Commands /\ Copies' = Copies
    BY <1>1 DEF Commands, Copies
<1>4. ASSUME NEW s \in Copies PROVE Told(s)' /\ Clean(s)' /\ Whole(s)'
    BY <1>1 DEF BatchInv, Told, Clean, Whole, Spoilt
<1>5. ASSUME NEW k \in Commands PROVE Placed(k)'
    BY <1>1 DEF BatchInv, Placed, Spoilt
<1> QED BY <1>2, <1>3, <1>4, <1>5 DEF BatchInv

(***************************************************************************)
(* Every copy of state.json, in the file or in a command, names its batch  *)
(* among those it descends from and counted the tokens of those behind it  *)
(* once, and a chunk it would send again was spoilt in each of them.       *)
(***************************************************************************)
THEOREM BatchInvariant == BatchSpec => []BatchInv
    BY BatchInitInv, BatchNextInv, BatchStutter, PTL DEF BatchSpec

(***************************************************************************)
(* What state.json calls collected lost no chunk and was counted once, for *)
(* any number of commands, batches, chunks and faults.                     *)
(***************************************************************************)
THEOREM CollectedLosesNothing == BatchSpec => []CollectedIsWhole
<1>1. BatchInv => CollectedIsWhole
    <2> SUFFICES ASSUME BatchInv, file.batch.collected
                 PROVE  /\ remote[file.batch.id].chunks \subseteq out \cup file.failed
                        /\ file.usage[file.batch.id] = 1
        BY DEF CollectedIsWhole
    <2>1. file \in SType /\ Told(file) /\ Whole(file)
        BY BatchTypes DEF CopyOk
    <2>2. file.batch # NoBatch
        BY DEF NoBatch
    <2>3. file.batch.id \in Behind(file) /\ file.batch.id \in Batches
        BY <2>1, <2>2 DEF Told, Behind, SType
    <2> QED BY <2>1, <2>3 DEF Told, Whole
<1> QED BY BatchInvariant, <1>1, PTL

(***************************************************************************)
(* A command that sends chunks again, on a copy that descends from the     *)
(* batch they were in, sends only what that batch is done with and whose   *)
(* output was not written.                                                 *)
(***************************************************************************)
THEOREM ChunksAreSentOnce == BatchSpec => SentOnce
<1>1. ASSUME BatchInv, [BatchNext]_bvars, NEW p \in Cmds, NEW a \in Batches, NEW b \in Batches,
             Is(p, "create"), cmd'[p] # cmd[p], remote[b] = Unmade, remote'[b] # Unmade, a \in cmd[p].state.past,
             NEW c \in remote[a].chunks \cap remote'[b].chunks
      PROVE  remote[a].state = "ended" /\ (<<a, c, TRUE>> \in kept => <<a, c, FALSE>> \in kept)
    <2> DEFINE S == cmd[p].state
    <2>1. /\ cmd[p] \in KType /\ S \in SType /\ CopyOk(S) /\ Placed(cmd[p]) /\ cmd \in [Cmds -> KType]
          /\ remote \in [Batches -> RType] /\ KeptIsAnswered
        BY <1>1, BatchTypes
    <2>2. cmd[p].pc = "create"
        BY <1>1 DEF Is
    <2>3. create(p)
        <3>1. remote' # remote
            BY <1>1
        <3>2. ASSUME NEW q \in Cmds, create(q) PROVE q = p
            BY <1>1, <2>1, <3>2 DEF create, Stop
        <3>3. ~(\E d \in Batches : Provider(d))
            BY <1>1 DEF Provider
        <3>4. \E q \in Cmds : create(q)
            BY <1>1, <3>1, <3>3 DEF BatchNext, bvars, run, poll, collect, write_run_state, run_chunk, Die, extract
        <3> QED BY <3>2, <3>4
    <2>4. remote'[b].chunks = pending_chunks(p)
        <3>1. PICK d \in Batches : remote' = [remote EXCEPT ![d] = [Unmade EXCEPT !.state = "running",
                                                                      !.chunks = pending_chunks(p)]]
            <4>1. remote' # remote
                BY <1>1
            <4> QED BY <2>3, <4>1 DEF create
        <3>2. d = b
            BY <1>1, <2>1, <3>1
        <3> QED BY <2>1, <3>1, <3>2 DEF Unmade
    <2>5. a \in Behind(S) /\ Spoilt(a, c)
        <3>1. CASE S.batch = NoBatch
            BY <1>1, <2>1, <3>1 DEF CopyOk, Told
        <3>2. CASE cmd[p].flag = "retry" /\ S.batch.collected
            <4>1. c \in S.failed
                BY <1>1, <2>4, <3>2 DEF pending_chunks
            <4> QED BY <1>1, <2>1, <3>2, <4>1 DEF CopyOk, Clean, Behind
        <3> QED BY <2>1, <2>2, <3>1, <3>2 DEF Placed
    <2>6. c \in Chunks
        BY <1>1, <2>1 DEF RType
    <2> QED BY <1>1, <2>1, <2>5, <2>6 DEF CopyOk, Told, Spoilt, KeptIsAnswered
<1>2. BatchInv /\ [BatchNext]_bvars
      => [\A p \in Cmds, a, b \in Batches :
             /\ Is(p, "create") /\ cmd'[p] # cmd[p]
             /\ remote[b] = Unmade /\ remote'[b] # Unmade
             /\ a \in cmd[p].state.past
             => \A c \in remote[a].chunks \cap remote'[b].chunks :
                   /\ remote[a].state = "ended"
                   /\ <<a, c, TRUE>> \in kept => <<a, c, FALSE>> \in kept]_bvars
    BY <1>1
<1> QED BY BatchInvariant, <1>2, PTL DEF BatchSpec, SentOnce
================================================================================
