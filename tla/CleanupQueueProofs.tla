--------------------------- MODULE CleanupQueueProofs ---------------------------
(***************************************************************************)
(* The cleanup queue, for any rows, texts, passes, requests and limits.    *)
(*                                                                         *)
(* Each step of the model is shown to be one of a few things that can      *)
(* happen to rows and findings (Evolves), under which what a finding, a    *)
(* request or a pass relies on stays true, and then to establish it anew   *)
(* for the one finding, request or pass it works on.                       *)
(***************************************************************************)
EXTENDS CleanupQueue, FiniteSetTheorems, TLAPS

RowT == [state : {"none", "stored", "gone"}, text : Nat, at : Nat \cup {Null}, by : 0 .. N, expired : BOOLEAN]
PropT == [state : {"none", "proposed", "obsolete", "applied", "rejected"}, keep : 0 .. N, members : SUBSET Rows]
PassT == [pc : {"idle", "exact", "queue_exact", "queue_similar", "queue_stale"},
          cadence : {"hourly", "daily"}, since : 0 .. N, newest : 0 .. N, seen : 0 .. N,
          todo : SUBSET Findings, claimed : SUBSET Rows, cut : BOOLEAN]
ReqT == [key : Keys \cup {Null}, keep : 0 .. N, todo : SUBSET Rows]

LEMMA TypesAre ==
    CleanupTypeOK <=>
        /\ row \in [Rows -> RowT] /\ prop \in [Keys -> PropT] /\ mark \in [Cadences -> 0 .. N]
        /\ ps \in [Passes -> PassT] /\ rq \in [Reqs -> ReqT] /\ revived \subseteq Rows /\ filled \subseteq Rows
    BY DEF CleanupTypeOK, RowT, PropT, PassT, ReqT

LEMMA TypesNext ==
    ASSUME row' \in [Rows -> RowT], prop' \in [Keys -> PropT], mark' \in [Cadences -> 0 .. N],
           ps' \in [Passes -> PassT], rq' \in [Reqs -> ReqT], revived' \subseteq Rows, filled' \subseteq Rows
    PROVE  CleanupTypeOK'
    BY DEF CleanupTypeOK, RowT, PropT, PassT, ReqT

LEMMA KeysAre == ASSUME NEW k \in Keys PROVE k[1] \in Kinds /\ k[2] \subseteq Rows /\ k[2] # {} /\ k = <<k[1], k[2]>>
    BY DEF Keys

LEMMA KindsAre == \A kind \in Kinds : has_keep(kind) <=> kind \in {"exact", "paraphrase"}
    BY DEF Kinds, has_keep

-----------------------------------------------------------------------------
(* Numbers and pairs of rows.                                              *)

LEMMA MaxIs == ASSUME NEW a \in Nat, NEW b \in Nat PROVE Max({a, b}) \in {a, b} /\ Max({a, b}) >= a /\ Max({a, b}) >= b
<1>1. \E x \in {a, b} : \A y \in {a, b} : x >= y
    OBVIOUS
<1> QED BY <1>1 DEF Max

\* The newest of some rows is one of them.
LEMMA LargestIs == ASSUME NEW T \in SUBSET (0 .. N), T # {} PROVE Max(T) \in T /\ \A y \in T : Max(T) >= y
<1> DEFINE U == {N - x : x \in T}
<1>1. N \in Nat /\ \A x \in T : x \in Nat /\ N - x \in Nat
    BY CleanupAssumption
<1>2. U \in SUBSET Nat /\ U # {}
    BY <1>1
<1>3. PICK u \in U : \A y \in U : ~(<<y, u>> \in OpToRel(<, Nat))
    BY <1>2, NatLessThanWellFounded, WFMin
<1>4. \A y \in U : ~(y < u)
    BY <1>2, <1>3 DEF OpToRel
<1>5. PICK x \in T : u = N - x
    BY <1>3
<1>6. \A y \in T : x >= y
    <2> SUFFICES ASSUME NEW y \in T PROVE x >= y
        OBVIOUS
    <2>1. ~(N - y < N - x) /\ x \in Nat /\ y \in Nat
        BY <1>1, <1>4, <1>5
    <2> QED BY <1>1, <2>1
<1> QED BY <1>6 DEF Max

\* The oldest of some rows is one of them.
LEMMA SmallestIs == ASSUME NEW T \in SUBSET Rows, T # {} PROVE Min(T) \in T /\ \A y \in T : Min(T) <= y
<1>1. T \in SUBSET Nat
    BY DEF Rows
<1>2. PICK x \in T : \A y \in T : ~(<<y, x>> \in OpToRel(<, Nat))
    BY <1>1, NatLessThanWellFounded, WFMin
<1>3. \A y \in T : ~(y < x)
    BY <1>1, <1>2 DEF OpToRel
<1>4. \A y \in T : x <= y
    BY <1>1, <1>3
<1> QED BY <1>4 DEF Min

LEMMA RowsAre == N \in Nat /\ Rows \subseteq 0 .. N /\ 0 \notin Rows /\ \A m \in Rows : m \in Nat /\ m > 0
    BY CleanupAssumption DEF Rows

LEMMA RowsFinite == IsFiniteSet(Rows) /\ \A S \in SUBSET Rows : IsFiniteSet(S) /\ Cardinality(S) \in Nat
<1>1. IsFiniteSet(Rows)
    BY RowsAre, FS_Interval DEF Rows
<1> QED BY <1>1, FS_Subset, FS_CardinalityType

LEMMA PairIs ==
    ASSUME NEW S \in SUBSET Rows, NEW P \in Pairing(S)
    PROVE  /\ P \in SUBSET Rows /\ P \subseteq S /\ P # {} /\ Cardinality(P) = 2
           /\ Min(P) \in P /\ Max(P) \in P /\ \A m \in P : m <= Max(P)
<1>1. P \in SUBSET Rows /\ P \subseteq S /\ Cardinality(P) = 2
    BY DEF Pairing
<1>2. P # {}
    BY <1>1, FS_EmptySet
<1>3. Max(P) \in P /\ \A m \in P : Max(P) >= m
    <2>1. P \in SUBSET (0 .. N)
        BY <1>1, RowsAre
    <2> QED BY <1>2, <2>1, LargestIs
<1>4. \A m \in P : m <= Max(P)
    BY <1>1, <1>3, RowsAre
<1> QED BY <1>1, <1>2, <1>3, <1>4, SmallestIs

-----------------------------------------------------------------------------
(* What any step may do.                                                   *)

RowsEvolve ==
    /\ revived \subseteq revived' /\ filled \subseteq filled'
    /\ \A m \in Rows :
          /\ Known(m) => row'[m].state # "none" /\ row'[m].text = row[m].text
          /\ row[m].state = "gone" => row'[m].state = "gone"
          /\ Live(m)' => m \in revived' \/ Live(m) \/ ~Known(m)
          /\ ~Known(m) /\ row'[m].state # "none" => \A n \in Rows : n < m => Known(n)
          /\ Stored(m) /\ row'[m].state = "stored" /\ row[m].by # 0 =>
                row'[m].by = row[m].by \/ row'[row[m].by].state = "gone"

FindingsEvolve ==
    \A k \in Keys :
        \/ prop'[k].state = "none" /\ prop[k].state = "none"
        \/ prop'[k].state # "none" /\ prop[k].state # "none" /\ prop'[k].keep = prop[k].keep
        \/ prop'[k].state = "none" /\ prop[k].keep \in Rows /\ row'[prop[k].keep].state = "gone"
        \/ prop[k].state = "none" /\ \A m \in k[2] : Stored(m)

Evolves ==
    /\ RowsEvolve /\ FindingsEvolve
    /\ pairs \subseteq pairs' /\ cut \subseteq cut'
    /\ \A c \in Cadences : mark'[c] >= mark[c]

LEMMA RowsRest ==
    ASSUME UNCHANGED <<row, revived, filled>>
    PROVE  RowsEvolve
    BY DEF RowsEvolve, Known, Live, Stored

LEMMA FindingsRest == ASSUME UNCHANGED prop PROVE FindingsEvolve
    BY DEF FindingsEvolve

\* A pair promised up to a row there already was is still promised the same.
LEMMA PromiseStable ==
    ASSUME CleanupTypeOK, CleanupTypeOK', MarksHold, RowsEvolve, NEW b \in 0 .. N, b = 0 \/ Known(b)
    PROVE  PromisedTo(b)' \subseteq PromisedTo(b)
<1> SUFFICES ASSUME NEW P, P \in PromisedTo(b)' PROVE P \in PromisedTo(b)
    OBVIOUS
<1> DEFINE S == {m \in LiveRows : m <= b} \ revived
           T == {m \in Rows : Live(m)' /\ m <= b /\ m \notin revived'}
<1>1. P \in Pairing(T) /\ T \in SUBSET Rows
    BY DEF PromisedTo, LiveRows, Pairing
<1> HIDE DEF T
<1>2. /\ P \in SUBSET Rows /\ P \subseteq T /\ P # {} /\ Cardinality(P) = 2
      /\ Min(P) \in P /\ Max(P) \in P /\ \A m \in P : m <= Max(P)
    BY <1>1, PairIs
<1>3. \A m \in T : m \in S /\ Known(m)
    <2> SUFFICES ASSUME NEW m \in Rows, Live(m)', m <= b, m \notin revived' PROVE m \in S /\ Known(m)
        BY DEF T
    <2>1. Known(m)
        BY RowsAre DEF MarksHold, Rows
    <2>2. Live(m) /\ m \notin revived
        BY <2>1 DEF RowsEvolve
    <2> QED BY <2>1, <2>2 DEF LiveRows
<1>4. P \in Pairing(S)
    BY <1>2, <1>3 DEF Pairing
<1>5. \A m \in P : row'[m].text = row[m].text
    BY <1>2, <1>3 DEF RowsEvolve
<1>6. Band(P) = 2
    BY <1>2, <1>5 DEF PromisedTo, Band
<1>7. ASSUME NEW m \in P, Alone(m)' PROVE Alone(m)
    <2>1. ASSUME NEW n \in Rows \ {m}, Known(n), row[n].text = row[m].text PROVE FALSE
        <3>1. Known(n)' /\ row'[n].text = row'[m].text
            BY <1>5, <2>1 DEF RowsEvolve, Known
        <3> QED BY <1>7, <3>1 DEF Alone
    <2> QED BY <2>1 DEF Alone
<1>8. row[Min(P)].text = row[Max(P)].text \/ \E m \in P : Alone(m)
    BY <1>2, <1>5, <1>7 DEF PromisedTo
<1> QED BY <1>4, <1>6, <1>8 DEF PromisedTo

LEMMA PromisedSame == ASSUME UNCHANGED <<row, revived>>, NEW b PROVE PromisedTo(b)' = PromisedTo(b)
    BY DEF PromisedTo, LiveRows, Live, Stored, Band, Alone, Known

LEMMA MarksStable ==
    ASSUME MarksHold, RowsEvolve, CleanupTypeOK, UNCHANGED mark
    PROVE  MarksHold'
<1>1. \A m, n \in Rows : row'[m].state # "none" /\ n < m => row'[n].state # "none"
    BY DEF MarksHold, RowsEvolve, Known
<1>2. \A c \in Cadences : mark[c] \in Rows \/ mark[c] = 0
    BY RowsAre DEF CleanupTypeOK, Rows
<1>3. \A c \in Cadences : mark[c] = 0 \/ row'[mark[c]].state # "none"
    BY <1>2 DEF MarksHold, RowsEvolve, Known
<1> QED BY <1>1, <1>3 DEF MarksHold, Known

\* What was promised at a mark that stays is not lost.
LEMMA MissedStable ==
    ASSUME CleanupInv, CleanupTypeOK', Evolves, NEW c \in Cadences, mark'[c] = mark[c], c \notin cut'
    PROVE  PromisedTo(mark[c])' \subseteq pairs'
<1>1. PICK b \in 0 .. N : b = mark[c]
    BY DEF CleanupInv, CleanupTypeOK
<1>2. b = 0 \/ Known(b)
    BY <1>1 DEF CleanupInv, MarksHold
<1>3. PromisedTo(b)' \subseteq PromisedTo(b)
    BY <1>2, PromiseStable DEF CleanupInv, Evolves
<1>4. PromisedTo(b) \subseteq pairs
    <2>1. c \notin cut /\ DOMAIN mark = Cadences
        BY DEF Evolves, CleanupInv, CleanupTypeOK
    <2> QED BY <1>1, <2>1 DEF CleanupInv, NothingMissed
<1>5. mark'[c] = b
    BY <1>1
<1> QED BY <1>3, <1>4, <1>5 DEF Evolves

\* A request that does not move keeps what it established.
LEMMA RequestStable ==
    ASSUME CleanupInv, CleanupTypeOK', Evolves, \A k \in Keys : FindingHolds(k)', NEW r \in Reqs, rq'[r] = rq[r]
    PROVE  RequestHolds(r)'
<1> SUFFICES ASSUME rq[r].key # Null PROVE RequestHolds(r)'
    BY DEF RequestHolds
<1> DEFINE k == rq[r].key
           keep == rq[r].keep
<1>1. /\ k \in Keys /\ keep \in 0 .. N /\ RequestHolds(r) /\ k[2] \subseteq Rows
      /\ row \in [Rows -> RowT] /\ row' \in [Rows -> RowT] /\ rq \in [Reqs -> ReqT]
    <2>1. k \in Keys
        BY TypesAre DEF CleanupInv, ReqT
    <2> QED BY <2>1, TypesAre, KeysAre DEF CleanupInv, ReqT, CleanupTypeOK, RowT
<1>2. (Deletes(r) \/ keep # 0) /\ Deletes(r)' = Deletes(r)
    BY <1>1 DEF RequestHolds, Deletes
<1>3. \A m \in k[2] : Known(m) /\ row'[m].state # "none"
    BY <1>1 DEF RequestHolds, Evolves, RowsEvolve
<1>4. row[keep].state = "gone" /\ keep \in Rows => row'[keep].state = "gone"
    BY DEF Evolves, RowsEvolve
<1>5. ASSUME has_keep(k[1])
      PROVE  keep \in k[2] /\ IF prop'[k].state = "none" THEN row'[keep].state = "gone" ELSE keep = prop'[k].keep
    <2>1. keep \in k[2] /\ IF prop[k].state = "none" THEN row[keep].state = "gone" ELSE keep = prop[k].keep
        BY <1>1, <1>5 DEF RequestHolds
    <2>2. keep \in Rows /\ (row[keep].state = "gone" => ~Stored(keep))
        BY <1>1, <2>1 DEF Stored
    <2> QED BY <1>1, <1>4, <2>1, <2>2 DEF Evolves, FindingsEvolve
<1>6. CASE keep # 0 /\ row'[keep].state = "gone"
    BY <1>1, <1>2, <1>3, <1>5, <1>6 DEF RequestHolds, Known
<1>7. CASE ~(keep # 0 /\ row'[keep].state = "gone")
    <2>1. ~(keep # 0 /\ row[keep].state = "gone")
        BY <1>1, <1>4, <1>7, RowsAre DEF Rows
    <2>2. ASSUME NEW m \in k[2] \ ({keep} \cup rq[r].todo)
          PROVE  row'[m].state = "gone" \/ (keep # 0 /\ row'[m].by = keep)
        <3>1. row[m].state = "gone" \/ (keep # 0 /\ row[m].by = keep)
            BY <1>1, <2>1, <2>2 DEF RequestHolds
        <3>2. m \in Rows /\ row[m].state \in {"stored", "gone"} /\ row'[m].state \in {"stored", "gone"}
            BY <1>1, <1>3, <2>2 DEF RowT, Known
        <3> QED BY <1>7, <3>1, <3>2 DEF Evolves, RowsEvolve, Stored
    <2> QED BY <1>1, <1>2, <1>3, <1>5, <2>2 DEF RequestHolds, Known
<1> QED BY <1>6, <1>7

\* A pass that does not move keeps what it established.
LEMMA PassStable ==
    ASSUME CleanupInv, CleanupTypeOK', Evolves, NEW p \in Passes, ps'[p] = ps[p]
    PROVE  PassHolds(p)'
<1> DEFINE s == ps[p]
<1>1. /\ PassHolds(p) /\ s \in PassT /\ row \in [Rows -> RowT] /\ mark \in [Cadences -> 0 .. N]
      /\ mark' \in [Cadences -> 0 .. N]
    BY TypesAre DEF CleanupInv, CleanupTypeOK
<1>2. \A n \in {s.newest, s.seen} : n \in 0 .. N /\ (n = 0 \/ (Known(n) /\ row'[n].state # "none"))
    <2>1. \A n \in {s.newest, s.seen} : n \in 0 .. N /\ (n = 0 \/ n \in Rows)
        BY <1>1, RowsAre DEF PassT, Rows
    <2> QED BY <1>1, <2>1 DEF PassHolds, Evolves, RowsEvolve
<1>3. s.pc # "idle" => s.cadence \in Cadences /\ s.since <= mark'[s.cadence]
    BY <1>1, RowsAre DEF PassHolds, Evolves, PassT
<1>4. \A m \in s.claimed : m \in Rows /\ Known(m) /\ row'[m].state # "none" /\ row'[m].text = row[m].text /\ ~Alone(m)'
    <2> SUFFICES ASSUME NEW m \in s.claimed
                 PROVE  m \in Rows /\ Known(m) /\ row'[m].state # "none" /\ row'[m].text = row[m].text /\ ~Alone(m)'
        OBVIOUS
    <2>1. m \in Rows /\ Known(m) /\ row'[m].state # "none" /\ row'[m].text = row[m].text
        BY <1>1 DEF PassHolds, PassT, Evolves, RowsEvolve
    <2>2. PICK n \in Rows \ {m} : Known(n) /\ row[n].text = row[m].text
        BY <1>1 DEF PassHolds, Alone
    <2>3. row'[n].state # "none" /\ row'[n].text = row'[m].text
        BY <2>1, <2>2 DEF Evolves, RowsEvolve
    <2> QED BY <2>1, <2>2, <2>3 DEF Alone, Known
<1>5. \A P : Covered(p, P) => Covered(p, P)'
    BY DEF Covered, Evolves
<1>6. ASSUME NEW P \in Pairing(s.claimed), row'[Min(P)].text = row'[Max(P)].text PROVE Covered(p, P)'
    <2>1. Min(P) \in s.claimed /\ Max(P) \in s.claimed
        BY <1>1, PairIs DEF PassT
    <2>2. row[Min(P)].text = row[Max(P)].text
        BY <1>4, <1>6, <2>1
    <2>3. Covered(p, P)
        BY <1>1, <1>6, <2>2 DEF PassHolds
    <2> QED BY <1>5, <2>3
<1>7. ASSUME s.pc \in {"queue_similar", "queue_stale"}, ~s.cut, s.cadence \notin cut'
      PROVE  \A P \in PromisedTo(Through(p))' : Covered(p, P)'
    <2>1. PICK b \in 0 .. N : b = Through(p) /\ (b = 0 \/ Known(b)) /\ b = Through(p)'
        BY <1>2 DEF Through
    <2>2. PromisedTo(b)' \subseteq PromisedTo(b)
        BY <2>1, PromiseStable DEF CleanupInv, Evolves
    <2>3. \A P \in PromisedTo(b) : Covered(p, P)
        BY <1>1, <1>7, <2>1 DEF PassHolds, Evolves
    <2>4. PromisedTo(Through(p))' = PromisedTo(b)'
        BY <2>1
    <2> QED BY <1>5, <2>2, <2>3, <2>4
<1>8. \A x \in s.todo : Sound(x)
    BY <1>1 DEF PassHolds
<1> QED BY <1>2, <1>3, <1>4, <1>6, <1>7, <1>8 DEF PassHolds, Known

\* A step that evolves the store, and whatever finding, request, pass or mark
\* it moves.
LEMMA StepInv ==
    ASSUME CleanupInv, CleanupTypeOK', Evolves, MarksHold', \A k \in Keys : FindingHolds(k)',
           \A r \in Reqs : rq'[r] = rq[r] \/ RequestHolds(r)',
           \A p \in Passes : ps'[p] = ps[p] \/ PassHolds(p)',
           \A c \in Cadences : mark'[c] = mark[c] \/ c \in cut' \/ PromisedTo(mark[c])' \subseteq pairs'
    PROVE  CleanupInv'
<1>1. NothingMissed'
    BY MissedStable DEF NothingMissed, CleanupTypeOK
<1>2. \A r \in Reqs : RequestHolds(r)'
    BY RequestStable
<1>3. \A p \in Passes : PassHolds(p)'
    BY PassStable
<1> QED BY <1>1, <1>2, <1>3 DEF CleanupInv

-----------------------------------------------------------------------------
(* Rows.                                                                   *)

LEMMA StateIs ==
    ASSUME CleanupInv
    PROVE  /\ row \in [Rows -> RowT] /\ prop \in [Keys -> PropT] /\ mark \in [Cadences -> 0 .. N]
           /\ ps \in [Passes -> PassT] /\ rq \in [Reqs -> ReqT] /\ revived \subseteq Rows /\ filled \subseteq Rows
           /\ \A m \in Rows : row[m] \in RowT
           /\ \A k \in Keys : prop[k] \in PropT /\ FindingHolds(k)
           /\ \A p \in Passes : ps[p] \in PassT /\ PassHolds(p)
           /\ \A r \in Reqs : rq[r] \in ReqT /\ RequestHolds(r)
    BY TypesAre DEF CleanupInv

\* A stored row stays, and keeps its start unless it was filled in.
Stays == \A m \in Rows : Stored(m) => row'[m].state = "stored" /\ (m \in filled' \/ row'[m].at = row[m].at)

LEMMA FindingsSame ==
    ASSUME CleanupInv, UNCHANGED prop, RowsEvolve, Stays, NEW k \in Keys
    PROVE  FindingHolds(k)'
<1>1. FindingHolds(k) /\ prop[k] \in PropT /\ k[2] \subseteq Rows
    BY StateIs, KeysAre
<1>2. \A m \in Rows : m \in k[2] /\ Stored(m) /\ k[2] \cap filled' = {} => row'[m].at = row[m].at
    BY DEF Stays
<1>3. k[2] \cap filled' = {} => k[2] \cap filled = {}
    BY DEF RowsEvolve
<1>4. \A m \in Rows : (Stored(m) => Stored(m)') /\ (row[m].state = "gone" => row'[m].state = "gone")
    BY DEF Stays, Stored, RowsEvolve
<1>5. CASE prop[k].state = "none"
    BY <1>1, <1>5 DEF FindingHolds
<1>6. CASE prop[k].state # "none"
    <2>1. /\ prop[k].members \subseteq k[2]
          /\ \A m \in k[2] : IF m \in prop[k].members THEN Stored(m) ELSE row[m].state = "gone"
          /\ prop[k].keep # 0 => Stored(prop[k].keep)
          /\ has_keep(k[1]) => prop[k].keep \in k[2]
          /\ has_keep(k[1]) /\ k[2] \cap filled = {} =>
                \A m \in prop[k].members : ~Earlier(row[prop[k].keep].at, row[m].at)
        BY <1>1, <1>6 DEF FindingHolds
    <2>2. \A m \in k[2] : IF m \in prop[k].members THEN Stored(m)' ELSE row'[m].state = "gone"
        BY <1>1, <1>4, <2>1
    <2>3. prop[k].keep # 0 => Stored(prop[k].keep)'
        BY <1>1, <1>4, <2>1 DEF PropT, Rows
    <2>4. ASSUME has_keep(k[1]), k[2] \cap filled' = {}, NEW m \in prop[k].members
          PROVE  ~Earlier(row'[prop[k].keep].at, row'[m].at)
        <3>1. m \in k[2] /\ m \in Rows /\ Stored(m) /\ prop[k].keep \in k[2] /\ prop[k].keep \in Rows
            BY <1>1, <2>1, <2>4
        <3>2. Stored(prop[k].keep)
            BY <2>1, <3>1, RowsAre
        <3>3. ~Earlier(row[prop[k].keep].at, row[m].at)
            BY <1>3, <2>1, <2>4
        <3> QED BY <1>2, <2>4, <3>1, <3>2, <3>3
    <2> QED BY <1>6, <2>1, <2>2, <2>3, <2>4 DEF FindingHolds, Stored
<1> QED BY <1>5, <1>6

\* A step of rows, and perhaps of requests.
LEMMA RowStep ==
    ASSUME CleanupInv, row' \in [Rows -> RowT], revived' \subseteq Rows, filled' \subseteq Rows, rq' \in [Reqs -> ReqT],
           UNCHANGED <<prop, mark, ps, pairs, cut>>, RowsEvolve, Stays,
           \A r \in Reqs : rq'[r] = rq[r] \/ RequestHolds(r)'
    PROVE  CleanupInv'
<1>1. CleanupTypeOK'
    BY StateIs, TypesNext
<1>2. Evolves
    BY FindingsRest, StateIs, RowsAre DEF Evolves
<1>3. \A k \in Keys : FindingHolds(k)'
    BY FindingsSame
<1>4. MarksHold'
    BY MarksStable DEF CleanupInv
<1> QED BY <1>1, <1>2, <1>3, <1>4, StepInv

\* One row is written, or a stored one changes and keeps its text.
LEMMA OneRow ==
    ASSUME CleanupInv, NEW m \in Rows, NEW x \in RowT, row' = [row EXCEPT ![m] = x], x.state = "stored",
           revived \subseteq revived', filled \subseteq filled',
           \/ row[m].state = "none" /\ \A n \in Rows : n < m => Known(n)
           \/ /\ Stored(m) /\ x.text = row[m].text /\ (row[m].by # 0 => x.by = row[m].by)
              /\ m \in revived' \/ Live(m) \/ x.by # 0 \/ x.expired
              /\ m \in filled' \/ x.at = row[m].at
    PROVE  row' \in [Rows -> RowT] /\ RowsEvolve /\ Stays
<1>1. /\ row \in [Rows -> RowT] /\ row' \in [Rows -> RowT] /\ row'[m] = x
      /\ \A n \in Rows : n # m => row'[n] = row[n]
    BY StateIs
<1>2. Stays
    BY <1>1 DEF Stays, Stored
<1>3. ASSUME NEW n \in Rows
      PROVE  /\ Known(n) => row'[n].state # "none" /\ row'[n].text = row[n].text
             /\ row[n].state = "gone" => row'[n].state = "gone"
             /\ Live(n)' => n \in revived' \/ Live(n) \/ ~Known(n)
             /\ ~Known(n) /\ row'[n].state # "none" => \A l \in Rows : l < n => Known(l)
             /\ Stored(n) /\ row'[n].state = "stored" /\ row[n].by # 0 =>
                   row'[n].by = row[n].by \/ row'[row[n].by].state = "gone"
    <2>1. CASE n = m
        BY <1>1, <2>1 DEF Known, Stored, Live
    <2>2. CASE n # m
        BY <1>1, <2>2 DEF Known, Stored, Live
    <2> QED BY <2>1, <2>2
<1> QED BY <1>1, <1>2, <1>3 DEF RowsEvolve

LEMMA WriteInv == ASSUME CleanupInv, NEW m \in Rows, write(m) PROVE CleanupInv'
<1>1. PICK x \in Inputs[m] :
          row' = [row EXCEPT ![m] = [NoRow EXCEPT !.state = "stored", !.text = x.text, !.at = x.at]]
    BY DEF write
<1>2. PICK y : y = [NoRow EXCEPT !.state = "stored", !.text = x.text, !.at = x.at]
    OBVIOUS
<1>3. x.text \in Nat /\ x.at \in Nat \cup {Null}
    BY CleanupAssumption
<1>4. y \in RowT /\ y.state = "stored"
    <2>1. y = [state |-> "stored", text |-> x.text, at |-> x.at, by |-> 0, expired |-> FALSE]
        BY <1>2 DEF NoRow
    <2> QED BY <1>3, <2>1, RowsAre DEF RowT
<1>5. row' = [row EXCEPT ![m] = y] /\ UNCHANGED <<prop, mark, ps, rq, pairs, cut, revived, filled>> /\ row[m].state = "none"
    BY <1>1, <1>2 DEF write, StoreOnly
<1>6. \A n \in Rows : n < m => Known(n)
    BY RowsAre DEF write, Rows, Known
<1>7. row' \in [Rows -> RowT] /\ RowsEvolve /\ Stays
    BY <1>4, <1>5, <1>6, OneRow
<1> QED BY <1>5, <1>7, StateIs, RowStep

LEMMA ExpireInv == ASSUME CleanupInv, NEW m \in Rows, expire(m) PROVE CleanupInv'
<1>1. PICK y : y = [row[m] EXCEPT !.expired = TRUE]
    OBVIOUS
<1>2. y \in RowT /\ y.state = row[m].state /\ y.text = row[m].text /\ y.by = row[m].by /\ y.at = row[m].at
    BY <1>1, StateIs DEF RowT
<1>3. row' = [row EXCEPT ![m] = y] /\ UNCHANGED <<prop, mark, ps, rq, pairs, cut, revived, filled>> /\ Live(m) /\ Stored(m)
    BY <1>1, StateIs DEF expire, StoreOnly, Live
<1>4. row' \in [Rows -> RowT] /\ RowsEvolve /\ Stays
    BY <1>2, <1>3, OneRow DEF Stored
<1> QED BY <1>3, <1>4, StateIs, RowStep

LEMMA UnexpireInv == ASSUME CleanupInv, NEW m \in Rows, unexpire(m) PROVE CleanupInv'
<1>1. PICK y : y = [row[m] EXCEPT !.expired = FALSE]
    OBVIOUS
<1>2. y \in RowT /\ y.state = row[m].state /\ y.text = row[m].text /\ y.by = row[m].by /\ y.at = row[m].at
    BY <1>1, StateIs DEF RowT
<1>3. /\ row' = [row EXCEPT ![m] = y] /\ UNCHANGED <<prop, mark, ps, rq, pairs, cut, filled>> /\ Stored(m)
      /\ revived' = revived \cup {m}
    BY <1>1, StateIs DEF unexpire, StoreOnly
<1>4. row' \in [Rows -> RowT] /\ RowsEvolve /\ Stays
    BY <1>2, <1>3, OneRow DEF Stored
<1> QED BY <1>3, <1>4, StateIs, RowStep

LEMMA FillInv == ASSUME CleanupInv, NEW m \in Rows, fill_date(m) PROVE CleanupInv'
<1>1. PICK d \in Days : row' = [row EXCEPT ![m].at = d]
    BY DEF fill_date
<1>2. PICK y : y = [row[m] EXCEPT !.at = d]
    OBVIOUS
<1>3. d \in Nat
    BY CleanupAssumption
<1>4. y \in RowT /\ y.state = row[m].state /\ y.text = row[m].text /\ y.by = row[m].by /\ y.expired = row[m].expired
    BY <1>2, <1>3, StateIs DEF RowT
<1>5. /\ row' = [row EXCEPT ![m] = y] /\ UNCHANGED <<prop, mark, ps, rq, pairs, cut, revived>> /\ Stored(m)
      /\ filled' = filled \cup {m}
    BY <1>1, <1>2, StateIs DEF fill_date, StoreOnly
<1>6. m \in revived' \/ Live(m) \/ y.by # 0 \/ y.expired
    BY <1>4, <1>5, StateIs DEF Live, RowT
<1>7. row' \in [Rows -> RowT] /\ RowsEvolve /\ Stays
    BY <1>4, <1>5, <1>6, OneRow DEF Stored
<1> QED BY <1>5, <1>7, StateIs, RowStep

\* A row gets a successor.
LEMMA RetiredIs ==
    ASSUME CleanupInv, NEW m \in Rows, NEW keep \in Rows, MayRetire(m, keep), Retired(m, keep), UNCHANGED filled
    PROVE  /\ row' \in [Rows -> RowT] /\ RowsEvolve /\ Stays /\ row'[m].by = keep /\ UNCHANGED <<prop, revived>>
           /\ revived' \subseteq Rows /\ filled' \subseteq Rows
           /\ \A n \in Rows : n # m => row'[n] = row[n]
<1>1. PICK y : y = [row[m] EXCEPT !.by = keep]
    OBVIOUS
<1>2. y \in RowT /\ y.state = row[m].state /\ y.text = row[m].text /\ y.by = keep /\ y.at = row[m].at
    BY <1>1, StateIs, RowsAre DEF RowT
<1>3. row' = [row EXCEPT ![m] = y] /\ UNCHANGED <<prop, revived>> /\ Stored(m) /\ row[m].by = 0
    BY <1>1, StateIs DEF Retired, MayRetire
<1>4. row' \in [Rows -> RowT] /\ RowsEvolve /\ Stays
    BY <1>2, <1>3, RowsAre, OneRow DEF Stored
<1> QED BY <1>2, <1>3, <1>4, StateIs

LEMMA SupersedeInv == ASSUME CleanupInv, NEW m \in Rows, NEW keep \in Rows, supersede(m, keep) PROVE CleanupInv'
<1>1. /\ row' \in [Rows -> RowT] /\ RowsEvolve /\ Stays /\ revived' \subseteq Rows /\ filled' \subseteq Rows
      /\ UNCHANGED <<prop, mark, ps, rq, pairs, cut>>
    BY RetiredIs DEF supersede, StoreOnly
<1> QED BY <1>1, StateIs, RowStep

LEMMA AbsentIs ==
    ASSUME NEW x \in PropT, x.state = "none", x.keep = 0, x.members = {}
    PROVE  x = Absent
    BY DEF PropT, Absent

LEMMA AbsentType == Absent \in PropT /\ Absent.state = "none" /\ Absent.keep = 0 /\ Absent.members = {}
    BY RowsAre DEF PropT, Absent

\* A row is deleted.
LEMMA DeletedIs ==
    ASSUME CleanupInv, NEW m \in Rows, Stored(m), Deleted(m), UNCHANGED filled
    PROVE  /\ row' \in [Rows -> RowT] /\ prop' \in [Keys -> PropT] /\ revived' \subseteq Rows /\ filled' \subseteq Rows
           /\ RowsEvolve /\ FindingsEvolve /\ \A k \in Keys : FindingHolds(k)'
           /\ row'[m].state = "gone"
<1>1. row \in [Rows -> RowT] /\ prop \in [Keys -> PropT] /\ \A k \in Keys : prop[k] \in PropT
    BY StateIs
<1>2. PICK g : g = [NoRow EXCEPT !.state = "gone", !.text = row[m].text]
    OBVIOUS
<1>3. g \in RowT /\ g.state = "gone" /\ g.text = row[m].text
    <2>1. g = [state |-> "gone", text |-> row[m].text, at |-> Null, by |-> 0, expired |-> FALSE]
        BY <1>2 DEF NoRow
    <2>2. row[m].text \in Nat
        BY <1>1 DEF RowT
    <2> QED BY <2>1, <2>2, RowsAre DEF RowT
<1>4. row' = [n \in Rows |-> IF n = m THEN g ELSE IF row[n].by = m THEN [row[n] EXCEPT !.by = 0] ELSE row[n]]
    BY <1>2 DEF Deleted
<1>5. ASSUME NEW n \in Rows
      PROVE  /\ row'[n] \in RowT /\ row'[n].text = row[n].text
             /\ n # m => row'[n].state = row[n].state /\ row'[n].at = row[n].at /\ row'[n].expired = row[n].expired
                         /\ row'[n].by = IF row[n].by = m THEN 0 ELSE row[n].by
    <2>1. CASE n = m
        BY <1>3, <1>4, <2>1
    <2>2. CASE n # m /\ row[n].by = m
        BY <1>1, <1>4, <2>2, RowsAre DEF RowT
    <2>3. CASE n # m /\ row[n].by # m
        BY <1>1, <1>4, <2>3
    <2> QED BY <2>1, <2>2, <2>3
<1>6. row' \in [Rows -> RowT] /\ row'[m] = g
    BY <1>4, <1>5
<1>7. revived' = revived \cup {n \in Rows : row[n].by = m}
    BY DEF Deleted
<1>8. RowsEvolve
    <2> SUFFICES ASSUME NEW n \in Rows
                 PROVE  /\ Known(n) => row'[n].state # "none" /\ row'[n].text = row[n].text
                        /\ row[n].state = "gone" => row'[n].state = "gone"
                        /\ Live(n)' => n \in revived' \/ Live(n) \/ ~Known(n)
                        /\ ~Known(n) /\ row'[n].state # "none" => \A l \in Rows : l < n => Known(l)
                        /\ Stored(n) /\ row'[n].state = "stored" /\ row[n].by # 0 =>
                              row'[n].by = row[n].by \/ row'[row[n].by].state = "gone"
        BY <1>7 DEF RowsEvolve
    <2>1. CASE n = m
        BY <1>3, <1>6, <2>1 DEF Known, Stored, Live
    <2>2. CASE n # m
        BY <1>3, <1>5, <1>6, <1>7, <2>2 DEF Known, Stored, Live
    <2> QED BY <2>1, <2>2
<1>9. ASSUME NEW k \in Keys
      PROVE  \/ prop[k].keep = m /\ prop'[k] = Absent
             \/ /\ prop[k].keep # m /\ prop'[k] \in PropT /\ prop'[k].state = prop[k].state
                /\ prop'[k].keep = prop[k].keep /\ prop'[k].members = prop[k].members \ {m}
    BY <1>1 DEF Deleted, PropT
<1>10. prop' \in [Keys -> PropT]
    <2>1. prop' = [k \in Keys |-> prop'[k]]
        BY DEF Deleted
    <2> QED BY <1>9, <2>1, AbsentType
<1>11. ASSUME NEW k \in Keys PROVE FindingHolds(k)'
    <2>1. CASE prop'[k] = Absent
        BY <2>1, AbsentType DEF FindingHolds
    <2>2. CASE prop[k].state = "none"
        <3>1. prop[k] = Absent
            BY <2>2, StateIs DEF FindingHolds
        <3>2. prop'[k] \in PropT /\ prop'[k].state = "none" /\ prop'[k].keep = 0 /\ prop'[k].members = {}
            BY <1>9, <3>1, AbsentType
        <3> QED BY <2>1, <3>2, AbsentIs
    <2>3. CASE prop[k].state # "none" /\ prop[k].keep # m
        <3>1. /\ prop[k].members \subseteq k[2]
              /\ \A n \in k[2] : IF n \in prop[k].members THEN Stored(n) ELSE row[n].state = "gone"
              /\ prop[k].keep # 0 => Stored(prop[k].keep)
              /\ has_keep(k[1]) => prop[k].keep \in k[2]
              /\ has_keep(k[1]) /\ k[2] \cap filled = {} =>
                    \A n \in prop[k].members : ~Earlier(row[prop[k].keep].at, row[n].at)
            BY <2>3, StateIs DEF FindingHolds
        <3>2. /\ prop'[k].state = prop[k].state /\ prop'[k].keep = prop[k].keep /\ prop'[k].members = prop[k].members \ {m}
              /\ k[2] \subseteq Rows
            BY <1>9, <2>3, KeysAre
        <3>3. \A n \in Rows : n # m => row'[n].state = row[n].state /\ row'[n].at = row[n].at
            BY <1>5
        <3>4. \A n \in k[2] : IF n \in prop'[k].members THEN Stored(n)' ELSE row'[n].state = "gone"
            BY <1>3, <1>6, <3>1, <3>2, <3>3 DEF Stored
        <3>5. prop'[k].keep # 0 => Stored(prop[k].keep)'
            <4>1. prop[k].keep # 0 => prop[k].keep \in Rows
                BY <1>1 DEF PropT, Rows
            <4> QED BY <2>3, <3>1, <3>2, <3>3, <4>1 DEF Stored
        <3>6. has_keep(k[1]) /\ k[2] \cap filled = {} =>
                    \A n \in prop'[k].members : ~Earlier(row'[prop'[k].keep].at, row'[n].at)
            BY <2>3, <3>1, <3>2, <3>3
        <3>7. prop'[k].members \subseteq k[2] /\ (has_keep(k[1]) => prop'[k].keep \in k[2])
            BY <3>1, <3>2
        <3> QED BY <2>3, <3>2, <3>4, <3>5, <3>6, <3>7 DEF FindingHolds, Stored
    <2> QED BY <1>9, <2>1, <2>2, <2>3
<1>12. FindingsEvolve
    BY <1>3, <1>6, <1>9, AbsentType DEF FindingsEvolve
<1>13. revived' \subseteq Rows /\ filled' \subseteq Rows
    BY <1>7, StateIs
<1> QED BY <1>3, <1>6, <1>8, <1>10, <1>11, <1>12, <1>13

LEMMA DeleteStep ==
    ASSUME CleanupInv, NEW m \in Rows, Stored(m), Deleted(m), UNCHANGED <<filled, mark, ps, pairs, cut>>,
           rq' \in [Reqs -> ReqT], \A r \in Reqs : rq'[r] = rq[r] \/ RequestHolds(r)'
    PROVE  CleanupInv'
<1>1. /\ row' \in [Rows -> RowT] /\ prop' \in [Keys -> PropT] /\ revived' \subseteq Rows /\ filled' \subseteq Rows
      /\ RowsEvolve /\ FindingsEvolve /\ \A k \in Keys : FindingHolds(k)'
    BY DeletedIs
<1>2. CleanupTypeOK'
    BY <1>1, StateIs, TypesNext
<1>3. Evolves
    BY <1>1, StateIs, RowsAre DEF Evolves
<1>4. MarksHold'
    BY <1>1, MarksStable DEF CleanupInv
<1> QED BY <1>1, <1>2, <1>3, <1>4, StepInv

LEMMA ForgetInv == ASSUME CleanupInv, NEW m \in Rows, forget(m) PROVE CleanupInv'
<1>1. Stored(m) /\ Deleted(m) /\ UNCHANGED <<filled, mark, ps, pairs, cut, rq>>
    BY DEF forget, StoreOnly
<1> QED BY <1>1, StateIs, DeleteStep

-----------------------------------------------------------------------------
(* Findings and requests.                                                  *)

LEMMA RestHolds == ASSUME NEW r \in Reqs, rq'[r] = Rest PROVE RequestHolds(r)'
    BY DEF RequestHolds, Rest

LEMMA RestType == Rest \in ReqT
    BY RowsAre DEF Rest, ReqT

\* A finding changes its state only.
Restated(k) ==
    /\ prop[k].state # "none" /\ prop'[k].state # "none"
    /\ prop'[k].keep = prop[k].keep /\ prop'[k].members = prop[k].members

LEMMA PropStep ==
    ASSUME CleanupInv, UNCHANGED <<row, revived, filled, mark, pairs, cut>>, prop' \in [Keys -> PropT],
           \A k \in Keys : prop'[k] = prop[k] \/ Restated(k),
           rq' \in [Reqs -> ReqT], \A r \in Reqs : rq'[r] = rq[r] \/ RequestHolds(r)',
           ps' \in [Passes -> PassT], \A p \in Passes : ps'[p] = ps[p] \/ PassHolds(p)'
    PROVE  CleanupInv'
<1>1. CleanupTypeOK'
    BY StateIs, TypesNext
<1>2. FindingsEvolve
    BY DEF FindingsEvolve, Restated
<1>3. Evolves
    BY <1>2, RowsRest, StateIs, RowsAre DEF Evolves
<1>4. ASSUME NEW k \in Keys PROVE FindingHolds(k)'
    <2>1. FindingHolds(k)
        BY StateIs
    <2>2. CASE prop'[k] = prop[k]
        BY <2>1, <2>2 DEF FindingHolds, Stored
    <2>3. CASE Restated(k)
        BY <2>1, <2>3 DEF FindingHolds, Restated, Stored
    <2> QED BY <2>2, <2>3
<1>5. MarksHold'
    BY MarksStable, RowsRest DEF CleanupInv
<1> QED BY <1>1, <1>3, <1>4, <1>5, StepInv

LEMMA RequestStep ==
    ASSUME CleanupInv, UNCHANGED <<row, prop, revived, filled, mark, ps, pairs, cut>>,
           NEW r \in Reqs, NEW x \in ReqT, rq' = [rq EXCEPT ![r] = x], RequestHolds(r)'
    PROVE  CleanupInv'
<1>1. rq' \in [Reqs -> ReqT] /\ \A q \in Reqs : rq'[q] = rq[q] \/ RequestHolds(q)'
    BY StateIs
<1> QED BY <1>1, StateIs, PropStep

\* A request that starts has every row of the finding left to do.
LEMMA StartInv ==
    ASSUME CleanupInv, NEW r \in Reqs, NEW k \in Keys, NEW keep \in 0 .. N, prop[k].state # "none",
           rq' = [rq EXCEPT ![r] = [key |-> k, keep |-> keep, todo |-> prop[k].members \ {keep}]],
           UNCHANGED <<row, prop, revived, filled, mark, ps, pairs, cut>>,
           deletes(k[1]) \/ keep # 0, has_keep(k[1]) => keep = prop[k].keep
    PROVE  CleanupInv'
<1>1. PICK x : x = [key |-> k, keep |-> keep, todo |-> prop[k].members \ {keep}]
    OBVIOUS
<1>2. prop[k] \in PropT /\ FindingHolds(k) /\ k[2] \subseteq Rows /\ k # Null
    BY StateIs, KeysAre, CleanupAssumption
<1>3. x \in ReqT /\ x.key = k /\ x.keep = keep /\ x.todo = prop[k].members \ {keep}
    BY <1>1, <1>2 DEF ReqT, PropT
<1>4. rq' = [rq EXCEPT ![r] = x] /\ rq'[r] = x
    BY <1>1, StateIs
<1>5. \A m \in k[2] : row[m].state # "none" /\ (m \in prop[k].members \/ row[m].state = "gone")
    BY <1>2 DEF FindingHolds, Stored
<1>6. has_keep(k[1]) => keep \in k[2]
    BY <1>2 DEF FindingHolds
<1>7. \A m \in k[2] \ ({keep} \cup x.todo) : row[m].state = "gone"
    BY <1>3, <1>5
<1>8. RequestHolds(r)'
    BY <1>3, <1>4, <1>5, <1>6, <1>7 DEF RequestHolds, Deletes, Known
<1> QED BY <1>3, <1>4, <1>8, RequestStep

LEMMA ApplyInv == ASSUME CleanupInv, NEW r \in Reqs, NEW k \in Keys, apply(r, k) PROVE CleanupInv'
<1>1. PICK keep : keep = IF has_keep(k[1]) THEN prop[k].keep ELSE 0
    OBVIOUS
<1>2. /\ rq' = [rq EXCEPT ![r] = [key |-> k, keep |-> keep, todo |-> prop[k].members \ {keep}]]
      /\ UNCHANGED <<row, prop, revived, filled, mark, ps, pairs, cut>>
      /\ prop[k].state # "none" /\ k[1] # "contradiction"
    BY <1>1 DEF apply, RequestOnly, Standing
<1>3. prop[k] \in PropT /\ FindingHolds(k) /\ k[1] \in Kinds /\ k[2] \subseteq Rows
    BY StateIs, KeysAre
<1>4. keep \in 0 .. N
    BY <1>1, <1>3, RowsAre DEF PropT
<1>5. deletes(k[1]) \/ keep # 0
    BY <1>1, <1>2, <1>3, RowsAre, KindsAre DEF FindingHolds, deletes, Kinds
<1> QED BY <1>1, <1>2, <1>4, <1>5, StartInv

LEMMA ResolveInv ==
    ASSUME CleanupInv, NEW r \in Reqs, NEW k \in Keys, NEW keep \in Rows, resolve(r, k, keep)
    PROVE  CleanupInv'
<1>1. /\ rq' = [rq EXCEPT ![r] = [key |-> k, keep |-> keep, todo |-> prop[k].members \ {keep}]]
      /\ UNCHANGED <<row, prop, revived, filled, mark, ps, pairs, cut>>
      /\ prop[k].state # "none" /\ ~has_keep(k[1])
    BY DEF resolve, RequestOnly, Standing
<1>2. keep \in 0 .. N /\ keep # 0
    BY RowsAre
<1> QED BY <1>1, <1>2, StartInv

LEMMA RetireInv == ASSUME CleanupInv, NEW r \in Reqs, NEW m \in Rows, retire(r, m) PROVE CleanupInv'
<1> DEFINE k == rq[r].key
           keep == rq[r].keep
<1>1. PICK x : x = [rq[r] EXCEPT !.todo = rq[r].todo \ {m}]
    OBVIOUS
<1>2. /\ rq[r] \in ReqT /\ k \in Keys /\ k # Null /\ m \in rq[r].todo /\ keep \in 0 .. N
      /\ rq' = [rq EXCEPT ![r] = x] /\ UNCHANGED <<filled, mark, ps, pairs, cut>> /\ RequestHolds(r)
    BY <1>1, StateIs DEF retire, RequestOnly, ReqT
<1>3. x \in ReqT /\ x.key = k /\ x.keep = keep /\ x.todo = rq[r].todo \ {m}
    BY <1>1, <1>2 DEF ReqT
<1>4. rq' \in [Reqs -> ReqT] /\ rq'[r] = x /\ \A q \in Reqs : q # r => rq'[q] = rq[q]
    BY <1>2, <1>3, StateIs
<1>5. Deletes(r) <=> deletes(k[1]) /\ keep = 0
    BY DEF Deletes
<1> HIDE DEF k, keep
<1>6. RequestHolds(r)' <=>
        /\ (deletes(k[1]) /\ keep = 0) \/ keep # 0
        /\ \A n \in k[2] : row'[n].state # "none"
        /\ has_keep(k[1]) =>
              keep \in k[2] /\ IF prop'[k].state = "none" THEN row'[keep].state = "gone" ELSE keep = prop'[k].keep
        /\ \/ keep # 0 /\ row'[keep].state = "gone"
           \/ \A n \in k[2] \ ({keep} \cup x.todo) : row'[n].state = "gone" \/ (keep # 0 /\ row'[n].by = keep)
    BY <1>2, <1>3, <1>4 DEF RequestHolds, Deletes, Known
<1>7. /\ (deletes(k[1]) /\ keep = 0) \/ keep # 0
      /\ \A n \in k[2] : row[n].state # "none"
      /\ has_keep(k[1]) =>
            keep \in k[2] /\ IF prop[k].state = "none" THEN row[keep].state = "gone" ELSE keep = prop[k].keep
      /\ \/ keep # 0 /\ row[keep].state = "gone"
         \/ \A n \in k[2] \ ({keep} \cup rq[r].todo) : row[n].state = "gone" \/ (keep # 0 /\ row[n].by = keep)
    BY <1>2 DEF RequestHolds, Deletes, Known, k, keep
<1>8. k[2] \subseteq Rows
    BY <1>2, KeysAre
<1>9. CASE Deletes(r) /\ Stored(m) /\ Deleted(m)
    <2>1. row' \in [Rows -> RowT] /\ RowsEvolve /\ row'[m].state = "gone"
        BY <1>2, <1>9, DeletedIs
    <2>2. ~has_keep(k[1]) /\ keep = 0
        BY <1>5, <1>9 DEF deletes, has_keep
    <2>3. \A n \in k[2] : row'[n].state # "none" /\ (row[n].state = "gone" => row'[n].state = "gone")
        BY <1>7, <1>8, <2>1 DEF RowsEvolve, Known
    <2>4. RequestHolds(r)'
        BY <1>3, <1>6, <1>7, <2>1, <2>2, <2>3
    <2> QED BY <1>2, <1>4, <1>9, <2>4, DeleteStep
<1>10. CASE ~Deletes(r) /\ MayRetire(m, keep) /\ Retired(m, keep)
    <2>1. keep \in Rows /\ keep # 0
        BY <1>2, <1>5, <1>7, <1>10, RowsAre DEF Rows
    <2>2. /\ row' \in [Rows -> RowT] /\ RowsEvolve /\ Stays /\ row'[m].by = keep /\ UNCHANGED <<prop, revived>>
          /\ revived' \subseteq Rows /\ filled' \subseteq Rows
          /\ \A n \in Rows : n # m => row'[n] = row[n]
        BY <1>2, <1>10, <2>1, RetiredIs
    <2>3. row[keep].state # "gone"
        BY <1>10 DEF MayRetire, Live, Stored
    <2>4. \A n \in k[2] : row'[n].state # "none"
        BY <1>7, <1>8, <2>2 DEF RowsEvolve, Known
    <2>5. has_keep(k[1]) =>
              keep \in k[2] /\ IF prop'[k].state = "none" THEN row'[keep].state = "gone" ELSE keep = prop'[k].keep
        BY <1>7, <2>2, <2>3
    <2>6. \A n \in k[2] \ ({keep} \cup x.todo) : row'[n].state = "gone" \/ (keep # 0 /\ row'[n].by = keep)
        BY <1>3, <1>7, <1>8, <2>1, <2>2, <2>3
    <2>7. RequestHolds(r)'
        BY <1>6, <2>1, <2>4, <2>5, <2>6
    <2> QED BY <1>2, <1>4, <2>2, <2>7, RowStep
<1>11. CASE ~Deletes(r) /\ row[m].by = keep /\ UNCHANGED <<row, prop, revived>>
    <2>1. keep # 0
        BY <1>5, <1>7, <1>11
    <2>2. RequestHolds(r)'
        BY <1>3, <1>6, <1>7, <1>11, <2>1
    <2> QED BY <1>2, <1>3, <1>11, <2>2, RequestStep
<1> QED BY <1>9, <1>10, <1>11 DEF retire, keep

LEMMA RefusedInv == ASSUME CleanupInv, NEW r \in Reqs, NEW m \in Rows, refused(r, m) PROVE CleanupInv'
<1>1. rq' = [rq EXCEPT ![r] = Rest] /\ UNCHANGED <<row, prop, revived, filled, mark, ps, pairs, cut>>
    BY DEF refused, RequestOnly
<1>2. rq'[r] = Rest
    BY <1>1, StateIs
<1> QED BY <1>1, <1>2, RestHolds, RestType, RequestStep

\* A finding is decided, taken back or closed.
LEMMA RestateIs ==
    ASSUME CleanupInv, NEW k \in Keys, prop[k].state # "none",
           NEW state \in {"proposed", "obsolete", "applied", "rejected"}, prop' = [prop EXCEPT ![k].state = state]
    PROVE  prop' \in [Keys -> PropT] /\ \A j \in Keys : prop'[j] = prop[j] \/ Restated(j)
<1>1. prop \in [Keys -> PropT] /\ prop[k] \in PropT
    BY StateIs
<1>2. /\ prop'[k] \in PropT /\ prop'[k].state = state /\ prop'[k].keep = prop[k].keep
      /\ prop'[k].members = prop[k].members
    BY <1>1 DEF PropT
<1> QED BY <1>1, <1>2 DEF Restated

LEMMA FinishInv == ASSUME CleanupInv, NEW r \in Reqs, finish(r) PROVE CleanupInv'
<1>1. PICK k \in Keys : k = rq[r].key
    BY StateIs DEF finish, ReqT
<1>2. rq' = [rq EXCEPT ![r] = Rest] /\ UNCHANGED <<row, revived, filled, mark, ps, pairs, cut>>
    BY DEF finish, RequestOnly
<1>3. rq' \in [Reqs -> ReqT] /\ \A q \in Reqs : rq'[q] = rq[q] \/ RequestHolds(q)'
    BY <1>2, RestHolds, RestType, StateIs
<1>4. CASE prop' = prop
    BY <1>2, <1>3, <1>4, StateIs, PropStep
<1>5. CASE prop[k].state = "proposed" /\ prop' = [prop EXCEPT ![k].state = "applied"]
    <2>1. prop' \in [Keys -> PropT] /\ \A j \in Keys : prop'[j] = prop[j] \/ Restated(j)
        BY <1>5, RestateIs
    <2> QED BY <1>2, <1>3, <2>1, StateIs, PropStep
<1> QED BY <1>1, <1>4, <1>5 DEF finish

LEMMA RejectInv == ASSUME CleanupInv, NEW k \in Keys, reject(k) \/ unreject(k) PROVE CleanupInv'
<1>1. UNCHANGED <<row, rq, revived, filled, mark, ps, pairs, cut>>
    BY DEF reject, unreject, RequestOnly
<1>2. prop' \in [Keys -> PropT] /\ \A j \in Keys : prop'[j] = prop[j] \/ Restated(j)
    BY RestateIs DEF reject, unreject
<1> QED BY <1>1, <1>2, StateIs, PropStep

-----------------------------------------------------------------------------
(* Queueing.                                                               *)

\* Whatever survivor is chosen, no member became true after it.
LEMMA SurvivorIs ==
    ASSUME CleanupInv, NEW x \in Findings, Sound(x), NEW keep \in Survivor(x)
    PROVE  /\ IF has_keep(x.kind) THEN keep \in x.members ELSE keep = x.keep
           /\ has_keep(x.kind) => \A m \in x.members : ~Earlier(row[keep].at, row[m].at)
<1>1. /\ x.members \subseteq Rows /\ (has_keep(x.kind) => x.keep \in x.members)
      /\ \A m \in x.members : row[m].at \in Nat \cup {Null}
    BY StateIs DEF Findings, Sound, RowT
<1> QED BY <1>1, CleanupAssumption DEF Survivor, Earlier

LEMMA QueueIs ==
    ASSUME CleanupInv, UNCHANGED <<row, revived, filled>>, NEW x \in Findings, Sound(x), queue_checked(x),
           prop[KeyOf(x)] # Absent \/ \A m \in References(x) : Stored(m)
    PROVE  /\ prop' \in [Keys -> PropT] /\ FindingsEvolve /\ \A k \in Keys : FindingHolds(k)'
           /\ pairs' = pairs \cup Pairing(x.members)
<1>1. PICK keep \in Survivor(x) : queue([x EXCEPT !.keep = keep])
    BY DEF queue_checked
<1>2. PICK k \in Keys : k = KeyOf(x)
    BY DEF Sound
<1>3. x.members \subseteq Rows /\ k[1] = x.kind /\ k[2] = x.members
    BY <1>2 DEF Findings, KeyOf
<1>4. KeyOf([x EXCEPT !.keep = keep]) = k /\ [x EXCEPT !.keep = keep].members = x.members /\ [x EXCEPT !.keep = keep].keep = keep
    BY <1>2 DEF KeyOf, Findings
<1>5. PICK f : f = [state |-> "proposed", keep |-> keep, members |-> x.members]
    OBVIOUS
<1>6. /\ prop' = IF prop[k] # Absent THEN prop ELSE [prop EXCEPT ![k] = f]
      /\ pairs' = pairs \cup Pairing(x.members)
    BY <1>1, <1>4, <1>5 DEF queue
<1>7. /\ IF has_keep(x.kind) THEN keep \in x.members ELSE keep = x.keep
      /\ has_keep(x.kind) => \A m \in x.members : ~Earlier(row[keep].at, row[m].at)
    BY SurvivorIs
<1>8. f \in PropT /\ f.state = "proposed" /\ f.keep = keep /\ f.members = x.members
    <2>1. keep \in 0 .. N
        BY <1>3, <1>7, RowsAre DEF Findings
    <2> QED BY <1>3, <1>5, <2>1 DEF PropT
<1>9. CASE prop[k] # Absent
    <2>1. Stays
        BY DEF Stays, Stored
    <2> QED BY <1>6, <1>9, <2>1, FindingsSame, FindingsRest, RowsRest, StateIs
<1>10. CASE prop[k] = Absent
    <2>1. prop' \in [Keys -> PropT] /\ prop'[k] = f /\ \A j \in Keys : j # k => prop'[j] = prop[j]
        BY <1>6, <1>8, <1>10, StateIs
    <2>2. FindingsEvolve
        BY <1>2, <1>3, <1>10, <2>1, AbsentType DEF FindingsEvolve, References
    <2>3. ASSUME NEW j \in Keys PROVE FindingHolds(j)'
        <3>1. CASE j # k
            <4>1. FindingHolds(j) /\ prop'[j] = prop[j]
                BY <2>1, <3>1, StateIs
            <4> QED BY <4>1 DEF FindingHolds, Stored
        <3>2. CASE j = k
            <4>1. \A m \in References(x) : Stored(m)'
                BY <1>2, <1>10 DEF Stored
            <4>2. prop'[k] = f /\ f.state # "none"
                BY <1>8, <2>1
            <4>3. f.members \subseteq k[2] /\ \A m \in k[2] : m \in f.members /\ Stored(m)'
                BY <1>3, <1>8, <4>1 DEF References
            <4>4. f.keep # 0 => Stored(f.keep)'
                BY <1>7, <1>8, <4>1 DEF References
            <4>5. has_keep(k[1]) => f.keep \in k[2] /\ \A m \in f.members : ~Earlier(row'[f.keep].at, row'[m].at)
                BY <1>3, <1>7, <1>8
            <4> QED BY <3>2, <4>2, <4>3, <4>4, <4>5 DEF FindingHolds, Stored
        <3> QED BY <3>1, <3>2
    <2> QED BY <1>6, <2>1, <2>2, <2>3
<1> QED BY <1>9, <1>10

\* A step that queues one finding, and perhaps moves a pass.
LEMMA QueueStep ==
    ASSUME CleanupInv, UNCHANGED <<row, revived, filled, mark, rq, cut>>, NEW x \in Findings, Sound(x), queue_checked(x),
           prop[KeyOf(x)] # Absent \/ \A m \in References(x) : Stored(m),
           ps' \in [Passes -> PassT], \A p \in Passes : ps'[p] = ps[p] \/ PassHolds(p)'
    PROVE  CleanupInv'
<1>1. /\ prop' \in [Keys -> PropT] /\ FindingsEvolve /\ \A k \in Keys : FindingHolds(k)'
      /\ pairs' = pairs \cup Pairing(x.members)
    BY QueueIs
<1>2. CleanupTypeOK'
    BY <1>1, StateIs, TypesNext
<1>3. Evolves
    BY <1>1, RowsRest, StateIs, RowsAre DEF Evolves
<1>4. MarksHold'
    BY MarksStable, RowsRest DEF CleanupInv
<1> QED BY <1>1, <1>2, <1>3, <1>4, StepInv

LEMMA PostedInv == ASSUME CleanupInv, NEW x \in Posts, queue_posted(x) PROVE CleanupInv'
<1>1. x \in Findings /\ Sound(x)
    BY CleanupAssumption
<1>2. /\ UNCHANGED <<row, revived, filled, mark, rq, cut, ps>> /\ queue_checked(x)
      /\ prop[KeyOf(x)] # Absent \/ \A m \in References(x) : Stored(m)
    BY DEF queue_posted
<1> QED BY <1>1, <1>2, QueueStep, StateIs

-----------------------------------------------------------------------------
(* Passes.                                                                 *)

\* A step of one pass that queues nothing.
LEMMA PassMoves ==
    ASSUME CleanupInv, UNCHANGED <<row, prop, revived, filled, mark, pairs, cut, rq>>,
           NEW p \in Passes, NEW x \in PassT, ps' = [ps EXCEPT ![p] = x], PassHolds(p)'
    PROVE  CleanupInv'
<1>1. ps' \in [Passes -> PassT] /\ \A q \in Passes : ps'[q] = ps[q] \/ PassHolds(q)'
    BY StateIs
<1> QED BY <1>1, StateIs, PropStep

LEMMA NoPairs == Pairing({}) = {}
<1>1. {} \in SUBSET Rows
    OBVIOUS
<1> QED BY <1>1, PairIs

LEMMA IdleIs ==
    /\ Idle \in PassT /\ Idle.pc = "idle" /\ Idle.newest = 0 /\ Idle.seen = 0 /\ Idle.todo = {} /\ Idle.claimed = {}
    /\ Idle.since = 0
    BY RowsAre DEF Idle, PassT

LEMMA IdleHolds == ASSUME NEW p \in Passes, ps'[p] = Idle PROVE PassHolds(p)'
    BY IdleIs, NoPairs DEF PassHolds

LEMMA NewestIs == ASSUME CleanupInv PROVE newest_in_scope \in 0 .. N /\ (newest_in_scope = 0 \/ Known(newest_in_scope))
<1>1. LiveRows \in SUBSET (0 .. N)
    BY RowsAre DEF LiveRows
<1>2. CASE LiveRows = {}
    BY <1>2, RowsAre DEF newest_in_scope
<1>3. CASE LiveRows # {}
    <2>1. Max(LiveRows) \in LiveRows
        BY <1>1, <1>3, LargestIs
    <2>2. newest_in_scope \in LiveRows
        BY <1>3, <2>1 DEF newest_in_scope
    <2> QED BY <1>1, <2>2 DEF LiveRows, Live, Stored, Known
<1> QED BY <1>2, <1>3

LEMMA BeginInv == ASSUME CleanupInv, NEW p \in Passes, NEW c \in Cadences, begin(p, c) PROVE CleanupInv'
<1>1. PICK x : x = [Idle EXCEPT !.pc = "exact", !.cadence = c, !.since = mark[c], !.newest = newest_in_scope]
    OBVIOUS
<1>2. /\ ps' = [ps EXCEPT ![p] = x] /\ UNCHANGED <<row, revived, filled, mark, pairs, cut, rq>>
      /\ prop' = [k \in Keys |-> IF Closed(k) THEN [prop[k] EXCEPT !.state = "obsolete"] ELSE prop[k]]
    BY <1>1 DEF begin, PassOnly
<1>3. c \in {"hourly", "daily"} /\ mark[c] \in 0 .. N
    BY CleanupAssumption, StateIs
<1>4. /\ x \in PassT /\ x.pc = "exact" /\ x.cadence = c /\ x.since = mark[c] /\ x.newest = newest_in_scope
      /\ x.seen = 0 /\ x.todo = {} /\ x.claimed = {}
    BY <1>1, <1>3, NewestIs, IdleIs DEF PassT
<1>5. ps' \in [Passes -> PassT] /\ ps'[p] = x /\ \A q \in Passes : q # p => ps'[q] = ps[q]
    BY <1>2, <1>4, StateIs
<1>6. PassHolds(p)'
    <2>1. \A n \in {x.newest, x.seen} : n = 0 \/ Known(n)'
        BY <1>2, <1>4, NewestIs DEF Known
    <2>2. x.since <= mark'[c]
        BY <1>2, <1>3, <1>4, RowsAre
    <2> QED BY <1>4, <1>5, <2>1, <2>2, NoPairs DEF PassHolds
<1>7. ASSUME NEW k \in Keys PROVE prop'[k] \in PropT /\ (prop'[k] = prop[k] \/ Restated(k))
    <2>1. prop[k] \in PropT
        BY StateIs
    <2>2. CASE Closed(k)
        BY <1>2, <2>1, <2>2 DEF Closed, PropT, Restated
    <2>3. CASE ~Closed(k)
        BY <1>2, <2>1, <2>3
    <2> QED BY <2>2, <2>3
<1>8. prop' \in [Keys -> PropT]
    BY <1>2, <1>7
<1>9. rq' \in [Reqs -> ReqT] /\ \A r \in Reqs : rq'[r] = rq[r]
    BY <1>2, StateIs
<1> QED BY <1>2, <1>5, <1>6, <1>7, <1>8, <1>9, PropStep

\* Two rows are the younger and the older of them.
LEMMA TwoAre ==
    ASSUME NEW S \in SUBSET Rows, NEW P \in Pairing(S), NEW m \in P
    PROVE  m \in {Min(P), Max(P)}
<1>1. /\ P \in SUBSET Rows /\ P # {} /\ Cardinality(P) = 2 /\ Min(P) \in P /\ Max(P) \in P
      /\ \A n \in P : n <= Max(P) /\ Min(P) <= n
    BY PairIs, SmallestIs
<1>2. SUFFICES ASSUME m # Min(P), m # Max(P) PROVE FALSE
    OBVIOUS
<1>3. Min(P) # Max(P)
    <2>1. m \in Nat /\ Min(P) \in Nat /\ Max(P) \in Nat
        BY <1>1, RowsAre
    <2>2. m <= Max(P) /\ Min(P) <= m
        BY <1>1
    <2> QED BY <1>2, <2>1, <2>2
<1>4. IsFiniteSet(P) /\ IsFiniteSet(P \ {m}) /\ IsFiniteSet((P \ {m}) \ {Min(P)})
    BY <1>1, RowsFinite
<1>5. Cardinality(P \ {m}) = 1
    BY <1>1, <1>4, FS_RemoveElement
<1>6. Cardinality((P \ {m}) \ {Min(P)}) = 0
    <2>1. PICK Q : Q = P \ {m}
        OBVIOUS
    <2>2. PICK a \in Q : a = Min(P)
        BY <1>1, <1>2, <2>1
    <2>3. IsFiniteSet(Q) /\ Cardinality(Q) = 1
        BY <1>4, <1>5, <2>1
    <2>4. Cardinality(Q \ {a}) = Cardinality(Q) - 1
        BY <2>3, FS_RemoveElement
    <2> QED BY <2>1, <2>2, <2>3, <2>4
<1>7. (P \ {m}) \ {Min(P)} = {}
    BY <1>4, <1>6, FS_EmptySet
<1> QED BY <1>1, <1>2, <1>3, <1>7

\* The groups of one text are disjoint, of two rows or more, and of live rows.
LEMMA ExactIs ==
    ASSUME CleanupInv, NEW since
    PROVE  /\ \A g \in exact_duplicates(since) :
                 /\ g \subseteq LiveRows /\ Cardinality(g) > 1
                 /\ \A a, b \in g : row[a].text = row[b].text
           /\ \A g, h \in exact_duplicates(since) : \A a \in g, b \in h : row[a].text = row[b].text => g = h
<1> DEFINE Same(m) == {n \in LiveRows : row[n].text = row[m].text}
<1>1. \A g \in exact_duplicates(since) : Cardinality(g) > 1
    BY DEF exact_duplicates
<1>2. PICK T : \A g \in exact_duplicates(since) : \E m \in T : g = Same(m) \cap T
    BY Zenon DEF exact_duplicates
<1>3. ASSUME NEW g \in exact_duplicates(since)
      PROVE  g \subseteq LiveRows /\ \A a, b \in g : row[a].text = row[b].text
    BY <1>2
<1>4. ASSUME NEW g \in exact_duplicates(since), NEW h \in exact_duplicates(since), NEW a \in g, NEW b \in h,
             row[a].text = row[b].text
      PROVE  g = h
    <2>1. PICK m \in T : g = Same(m) \cap T
        BY <1>2
    <2>2. PICK n \in T : h = Same(n) \cap T
        BY <1>2
    <2>3. row[m].text = row[n].text
        BY <1>4, <2>1, <2>2
    <2> QED BY <2>1, <2>2, <2>3
<1> QED BY <1>1, <1>3, <1>4

\* The newest row seen so far.
LEMMA SeenIs ==
    ASSUME CleanupInv, NEW p \in Passes, NEW S \in SUBSET LiveRows
    PROVE  Seen(p, S) \in 0 .. N /\ (Seen(p, S) = 0 \/ Known(Seen(p, S)))
<1>1. ps[p].seen \in 0 .. N /\ (ps[p].seen = 0 \/ Known(ps[p].seen))
    BY StateIs DEF PassHolds, PassT
<1>2. {ps[p].seen} \cup S \in SUBSET (0 .. N) /\ {ps[p].seen} \cup S # {}
    BY <1>1, RowsAre DEF LiveRows
<1>3. Seen(p, S) \in {ps[p].seen} \cup S
    BY <1>2, LargestIs DEF Seen
<1>4. \A m \in S : Known(m)
    BY DEF LiveRows, Live, Stored, Known
<1> QED BY <1>1, <1>2, <1>3, <1>4

LEMMA ReadExactInv == ASSUME CleanupInv, NEW p \in Passes, read_exact(p) PROVE CleanupInv'
<1> DEFINE groups == exact_duplicates(ps[p].since)
           rows == UNION groups
           Todo == {Finding("exact", g, Min(g)) : g \in groups}
<1>0. PICK full : full = (Cardinality(rows) >= Limit)
    OBVIOUS
<1>1. PICK x : x = [ps[p] EXCEPT !.pc = "queue_exact", !.claimed = rows, !.seen = Seen(p, rows),
                                 !.cut = full, !.todo = Todo]
    OBVIOUS
<1>2. ps' = [ps EXCEPT ![p] = x] /\ UNCHANGED <<row, prop, revived, filled, mark, pairs, cut, rq>> /\ ps[p].pc = "exact"
    BY <1>0, <1>1, Zenon DEF read_exact, PassOnly
<1>3. /\ \A g \in groups : g \subseteq LiveRows /\ Cardinality(g) > 1 /\ \A a, b \in g : row[a].text = row[b].text
      /\ \A g, h \in groups : \A a \in g, b \in h : row[a].text = row[b].text => g = h
    BY ExactIs
<1> HIDE DEF groups
<1>4. LiveRows \subseteq Rows /\ rows \subseteq LiveRows
    BY <1>3 DEF LiveRows
<1>5. \A g \in groups : Finding("exact", g, Min(g)) \in Findings /\ Sound(Finding("exact", g, Min(g)))
    <2> SUFFICES ASSUME NEW g \in groups
                 PROVE  Finding("exact", g, Min(g)) \in Findings /\ Sound(Finding("exact", g, Min(g)))
        OBVIOUS
    <2>1. g \in SUBSET Rows /\ Cardinality(g) > 1
        BY <1>3, <1>4
    <2>2. g # {}
        BY <2>1, FS_EmptySet
    <2>3. Min(g) \in g /\ Min(g) \in 0 .. N
        BY <2>1, <2>2, SmallestIs, RowsAre
    <2>4. <<"exact", g>> \in Keys
        BY <2>1, <2>2 DEF Keys, Kinds
    <2> QED BY <2>1, <2>3, <2>4 DEF Finding, Findings, Sound, KeyOf, has_keep, Kinds
<1>6. Todo \in SUBSET Findings /\ \A y \in Todo : Sound(y)
    BY <1>5
<1> HIDE DEF Todo
<1>7. ps[p] \in PassT /\ PassHolds(p)
    BY StateIs
<1>8. /\ x \in PassT /\ x.pc = "queue_exact" /\ x.claimed = rows /\ x.seen = Seen(p, rows) /\ x.todo = Todo
      /\ x.newest = ps[p].newest /\ x.since = ps[p].since /\ x.cadence = ps[p].cadence
    <2>1. full \in BOOLEAN
        BY <1>0
    <2>2. Seen(p, rows) \in 0 .. N /\ rows \subseteq Rows
        BY <1>4, SeenIs
    <2> HIDE DEF rows
    <2> QED BY <1>1, <1>6, <1>7, <2>1, <2>2 DEF PassT
<1>9. ps'[p] = x
    BY <1>2, StateIs
<1>10. ASSUME NEW m \in rows PROVE Known(m)' /\ ~Alone(m)'
    <2>1. PICK g \in groups : m \in g
        BY <1>10
    <2>2. g \in SUBSET Rows /\ Cardinality(g) > 1 /\ g \subseteq LiveRows
        BY <1>3, <1>4, <2>1
    <2>3. g # {m}
        <3>1. Cardinality({m}) = 1
            BY FS_Singleton
        <3> QED BY <2>2, <3>1
    <2>4. PICK n \in g : n # m
        BY <2>1, <2>3
    <2>5. Known(m) /\ Known(n) /\ row[n].text = row[m].text /\ n \in Rows
        BY <1>3, <2>1, <2>2, <2>4 DEF LiveRows, Live, Stored, Known
    <2> QED BY <1>2, <2>4, <2>5 DEF Known, Alone
<1>11. ASSUME NEW P \in Pairing(rows), row'[Min(P)].text = row'[Max(P)].text PROVE Covered(p, P)'
    <2>1. P \subseteq rows /\ Min(P) \in P /\ Max(P) \in P
        BY <1>4, PairIs
    <2>2. PICK g \in groups : Min(P) \in g
        BY <2>1
    <2>3. PICK h \in groups : Max(P) \in h
        BY <2>1
    <2>4. g = h
        BY <1>2, <1>3, <1>11, <2>2, <2>3
    <2>5. P \subseteq g
        BY <1>4, <2>2, <2>3, <2>4, TwoAre
    <2>6. Finding("exact", g, Min(g)) \in Todo /\ Finding("exact", g, Min(g)).members = g
        BY DEF Todo, Finding
    <2> QED BY <1>8, <1>9, <2>5, <2>6 DEF Covered
<1>12. PassHolds(p)'
    <2>1. \A n \in {x.newest, x.seen} : n = 0 \/ Known(n)'
        BY <1>2, <1>4, <1>7, <1>8, SeenIs DEF PassHolds, Known
    <2>2. x.cadence \in Cadences /\ x.since <= mark'[x.cadence]
        BY <1>2, <1>7, <1>8 DEF PassHolds
    <2> QED BY <1>6, <1>8, <1>9, <1>10, <1>11, <2>1, <2>2 DEF PassHolds
<1> QED BY <1>2, <1>8, <1>12, PassMoves

\* Under the limit the query returns every pair there is.
LEMMA SimilarIs ==
    ASSUME CleanupInv, NEW since, NEW S \in similar_pairs(since)
    PROVE  /\ S \subseteq Pairing(LiveRows)
           /\ ~(Cardinality(S) >= Limit) => \A P \in Pairing(LiveRows) : Band(P) > 0 /\ Max(P) >= since => P \in S
<1> DEFINE Found == {P \in Pairing(LiveRows) : Band(P) > 0 /\ Max(P) >= since}
<1>1. S \in SUBSET Found /\ Cardinality(S) = IF Cardinality(Found) < Limit THEN Cardinality(Found) ELSE Limit
    BY DEF similar_pairs
<1>2. IsFiniteSet(Found)
    <2>1. IsFiniteSet(SUBSET Rows)
        BY RowsFinite, FS_SUBSET
    <2>2. Found \in SUBSET (SUBSET Rows)
        BY DEF Pairing, LiveRows
    <2> QED BY <2>1, <2>2, FS_Subset
<1> HIDE DEF Found
<1>3. Cardinality(Found) \in Nat /\ Limit \in Nat
    BY <1>2, FS_CardinalityType, CleanupAssumption
<1>4. ~(Cardinality(S) >= Limit) => S = Found
    BY <1>1, <1>2, <1>3, FS_Subset
<1> QED BY <1>1, <1>4 DEF Found

LEMMA ReadSimilarInv == ASSUME CleanupInv, NEW p \in Passes, read_similar(p) PROVE CleanupInv'
<1>1. PICK S \in similar_pairs(ps[p].since) :
          LET sure == {P \in S : Band(P) = 2 /\ ~(P \subseteq ps[p].claimed)}
          IN  ps' = [ps EXCEPT ![p] =
                       [ps[p] EXCEPT !.pc = "queue_similar", !.since = 0, !.claimed = {}, !.seen = Seen(p, UNION S),
                                     !.cut = ps[p].cut \/ Cardinality(S) >= Limit,
                                     !.todo = {Finding("paraphrase", P, Max(P)) : P \in sure}]]
    BY Zenon DEF read_similar
<1> DEFINE sure == {P \in S : Band(P) = 2 /\ ~(P \subseteq ps[p].claimed)}
           Todo == {Finding("paraphrase", P, Max(P)) : P \in sure}
           c == ps[p].cadence
<1>2. PICK full : full = (ps[p].cut \/ Cardinality(S) >= Limit)
    OBVIOUS
<1>3. PICK x : x = [ps[p] EXCEPT !.pc = "queue_similar", !.since = 0, !.claimed = {}, !.seen = Seen(p, UNION S),
                                 !.cut = full, !.todo = Todo]
    OBVIOUS
<1>4. /\ ps' = [ps EXCEPT ![p] = x] /\ UNCHANGED <<row, prop, revived, filled, mark, pairs, cut, rq>>
      /\ ps[p].pc = "queue_exact" /\ ps[p].todo = {}
    <2>1. ps' = [ps EXCEPT ![p] = x]
        BY <1>1, <1>2, <1>3, Zenon
    <2> QED BY <2>1 DEF read_similar, PassOnly
<1>5. /\ S \subseteq Pairing(LiveRows) /\ LiveRows \in SUBSET Rows /\ UNION S \in SUBSET LiveRows
      /\ ~(Cardinality(S) >= Limit) =>
            \A P \in Pairing(LiveRows) : Band(P) > 0 /\ Max(P) >= ps[p].since => P \in S
    BY SimilarIs DEF Pairing, LiveRows
<1>6. ASSUME NEW P \in sure
      PROVE  /\ Finding("paraphrase", P, Max(P)) \in Findings /\ Sound(Finding("paraphrase", P, Max(P)))
             /\ Finding("paraphrase", P, Max(P)).members = P
    <2>1. P \in SUBSET Rows /\ P # {} /\ Cardinality(P) = 2 /\ Max(P) \in P
        BY <1>5, PairIs
    <2>2. Max(P) \in 0 .. N
        BY <2>1, RowsAre
    <2>3. <<"paraphrase", P>> \in Keys
        BY <2>1 DEF Keys, Kinds
    <2> QED BY <2>1, <2>2, <2>3 DEF Finding, Findings, Sound, KeyOf, has_keep, Kinds
<1>7. Todo \in SUBSET Findings /\ \A y \in Todo : Sound(y)
    BY <1>6
<1>8. \A P \in sure : \E y \in Todo : P \subseteq y.members
    BY <1>6
<1> HIDE DEF Todo
<1>9. ps[p] \in PassT /\ PassHolds(p) /\ mark \in [Cadences -> 0 .. N]
    BY StateIs
<1>10. /\ x \in PassT /\ x.pc = "queue_similar" /\ x.claimed = {} /\ x.seen = Seen(p, UNION S) /\ x.todo = Todo
       /\ x.newest = ps[p].newest /\ x.since = 0 /\ x.cadence = c
       /\ ~x.cut => ~ps[p].cut /\ ~(Cardinality(S) >= Limit)
    <2>1. full \in BOOLEAN
        BY <1>2
    <2>2. Seen(p, UNION S) \in 0 .. N
        BY <1>5, SeenIs
    <2>3. 0 \in 0 .. N
        BY RowsAre
    <2>4. x \in PassT /\ x.cut = full
        BY <1>3, <1>7, <1>9, <2>1, <2>2, <2>3 DEF PassT
    <2>5. ~full => ~ps[p].cut /\ ~(Cardinality(S) >= Limit)
        BY <1>2
    <2>6. /\ x.pc = "queue_similar" /\ x.claimed = {} /\ x.seen = Seen(p, UNION S) /\ x.todo = Todo
          /\ x.newest = ps[p].newest /\ x.since = 0 /\ x.cadence = c
        BY <1>3, <1>9 DEF PassT
    <2> QED BY <2>4, <2>5, <2>6
<1>11. ps'[p] = x
    BY <1>4, StateIs
<1>12. c \in Cadences /\ ps[p].since <= mark[c] /\ mark[c] \in 0 .. N /\ ps[p].since \in 0 .. N
    BY <1>4, <1>9 DEF PassHolds, PassT
<1>13. ASSUME ~x.cut, c \notin cut, NEW b, NEW P \in PromisedTo(b) PROVE P \in pairs \/ \E y \in Todo : P \subseteq y.members
    <2>1. /\ P \in Pairing({m \in LiveRows : m <= b} \ revived) /\ Band(P) = 2
          /\ row[Min(P)].text = row[Max(P)].text \/ \E m \in P : Alone(m)
        BY <1>13 DEF PromisedTo
    <2>2. P \in Pairing(LiveRows) /\ P \subseteq LiveRows \ revived
        BY <2>1 DEF Pairing
    <2>3. P \in SUBSET Rows /\ Min(P) \in P /\ Max(P) \in P /\ \A m \in P : m <= Max(P)
        BY <1>5, <2>2, PairIs
    <2>4. CASE Max(P) >= ps[p].since
        <3>1. P \in S
            BY <1>5, <1>10, <1>13, <2>1, <2>2, <2>4
        <3>2. CASE P \subseteq ps[p].claimed
            <4>1. \A m \in P : ~Alone(m)
                BY <1>9, <3>2 DEF PassHolds
            <4>2. P \in Pairing(ps[p].claimed)
                BY <2>2, <3>2 DEF Pairing
            <4>3. Covered(p, P)
                BY <1>9, <2>1, <4>1, <4>2 DEF PassHolds
            <4> QED BY <1>4, <4>3 DEF Covered
        <3>3. CASE ~(P \subseteq ps[p].claimed)
            BY <1>8, <2>1, <3>1, <3>3
        <3> QED BY <3>2, <3>3
    <2>5. CASE ~(Max(P) >= ps[p].since)
        <3>1. \A m \in P : m <= mark[c]
            <4>0. mark[c] \in Nat /\ ps[p].since \in Nat
                BY <1>12, RowsAre
            <4>1. Max(P) \in Nat /\ mark[c] \in Nat /\ ps[p].since \in Nat /\ \A m \in P : m \in Nat
                <5>1. \A m \in P : m \in Nat
                    BY <2>3, RowsAre
                <5> QED BY <2>3, <4>0, <5>1
            <4>2. PICK u \in Nat : u = Max(P)
                BY <4>1
            <4>3. u < mark[c]
                BY <1>12, <2>5, <4>1, <4>2
            <4>4. \A m \in P : m <= u
                BY <2>3, <4>2
            <4> QED BY <4>1, <4>3, <4>4
        <3>2. P \in Pairing({m \in LiveRows : m <= mark[c]} \ revived)
            BY <2>2, <3>1 DEF Pairing
        <3>3. P \in PromisedTo(mark[c])
            BY <2>1, <3>2 DEF PromisedTo
        <3> QED BY <1>9, <1>12, <1>13, <3>3 DEF CleanupInv, NothingMissed
    <2> QED BY <2>4, <2>5
<1>14. PassHolds(p)'
    <2>1. \A n \in {x.newest, x.seen} : n = 0 \/ Known(n)'
        BY <1>4, <1>5, <1>9, <1>10, SeenIs DEF PassHolds, Known
    <2>2. x.cadence \in Cadences /\ x.since <= mark'[x.cadence]
        BY <1>4, <1>10, <1>12, RowsAre
    <2>3. ASSUME ~x.cut, x.cadence \notin cut' PROVE \A P \in PromisedTo(Through(p))' : Covered(p, P)'
        <3>1. PICK b : b = Through(p)'
            OBVIOUS
        <3>2. PromisedTo(Through(p))' = PromisedTo(b)
            <4>1. PromisedTo(b)' = PromisedTo(b)
                BY <1>4, PromisedSame
            <4> QED BY <3>1, <4>1
        <3> QED BY <1>4, <1>10, <1>11, <1>13, <2>3, <3>2 DEF Covered
    <2> QED BY <1>7, <1>10, <1>11, <2>1, <2>2, <2>3, NoPairs DEF PassHolds
<1> QED BY <1>4, <1>10, <1>14, PassMoves

\* Between reads a pass carries over what it covered.
LEMMA ReadUnreadInv == ASSUME CleanupInv, NEW p \in Passes, read_unread(p) PROVE CleanupInv'
<1>1. PICK R \in SUBSET Aged :
          ps' = [ps EXCEPT ![p] =
                   [ps[p] EXCEPT !.pc = "queue_stale", !.cut = ps[p].cut \/ Cardinality(unread(R)) >= Limit,
                                 !.todo = {Finding("stale", {m}, 0) : m \in unread(R)}]]
    BY Zenon DEF read_unread
<1> DEFINE Todo == {Finding("stale", {m}, 0) : m \in unread(R)}
<1>2. PICK full : full = (ps[p].cut \/ Cardinality(unread(R)) >= Limit)
    OBVIOUS
<1>3. PICK x : x = [ps[p] EXCEPT !.pc = "queue_stale", !.cut = full, !.todo = Todo]
    OBVIOUS
<1>4. /\ ps' = [ps EXCEPT ![p] = x] /\ UNCHANGED <<row, prop, revived, filled, mark, pairs, cut, rq>>
      /\ ps[p].pc = "queue_similar" /\ ps[p].todo = {}
    <2>1. ps' = [ps EXCEPT ![p] = x]
        BY <1>1, <1>2, <1>3, Zenon
    <2> QED BY <2>1 DEF read_unread, PassOnly
<1>5. \A m \in unread(R) : m \in Rows
    BY DEF unread, Top, LiveRows
<1>6. ASSUME NEW m \in Rows PROVE Finding("stale", {m}, 0) \in Findings /\ Sound(Finding("stale", {m}, 0))
    <2>0. 0 \in 0 .. N
        BY RowsAre
    <2>2. <<"stale", {m}>> \in Keys
        BY DEF Keys, Kinds, has_keep
    <2> QED BY <2>0, <2>2 DEF Finding, Findings, Sound, KeyOf, has_keep, Kinds
<1>7. Todo \in SUBSET Findings /\ \A y \in Todo : Sound(y)
    BY <1>5, <1>6
<1> HIDE DEF Todo
<1>8. ps[p] \in PassT /\ PassHolds(p)
    BY StateIs
<1>9. /\ x \in PassT /\ x.pc = "queue_stale" /\ x.todo = Todo /\ (~x.cut => ~ps[p].cut)
      /\ x.claimed = ps[p].claimed /\ x.newest = ps[p].newest /\ x.seen = ps[p].seen
      /\ x.since = ps[p].since /\ x.cadence = ps[p].cadence
    <2>1. full \in BOOLEAN /\ (~full => ~ps[p].cut)
        BY <1>2
    <2>2. x \in PassT /\ x.cut = full
        BY <1>3, <1>7, <1>8, <2>1 DEF PassT
    <2>3. /\ x.pc = "queue_stale" /\ x.todo = Todo
          /\ x.claimed = ps[p].claimed /\ x.newest = ps[p].newest /\ x.seen = ps[p].seen
          /\ x.since = ps[p].since /\ x.cadence = ps[p].cadence
        BY <1>3, <1>8 DEF PassT
    <2> QED BY <2>1, <2>2, <2>3
<1>10. ps'[p] = x
    BY <1>4, StateIs
<1>11. \A P : Covered(p, P) => Covered(p, P)'
    BY <1>4 DEF Covered
<1>12. PassHolds(p)'
    <2>1. \A n \in {x.newest, x.seen} : n = 0 \/ Known(n)'
        BY <1>4, <1>8, <1>9 DEF PassHolds, Known
    <2>2. x.cadence \in Cadences /\ x.since <= mark'[x.cadence]
        BY <1>4, <1>8, <1>9 DEF PassHolds
    <2>3. ASSUME ~x.cut, x.cadence \notin cut' PROVE \A P \in PromisedTo(Through(p))' : Covered(p, P)'
        <3>1. PICK b : b = Through(p) /\ b = Through(p)'
            BY <1>9, <1>10 DEF Through
        <3>2. PromisedTo(b)' = PromisedTo(b)
            BY <1>4, PromisedSame
        <3>3. PromisedTo(Through(p))' = PromisedTo(Through(p))
            BY <3>1, <3>2
        <3> QED BY <1>4, <1>8, <1>9, <1>11, <2>3, <3>3 DEF PassHolds
    <2>4. \A m \in x.claimed : Known(m)' /\ ~Alone(m)'
        BY <1>4, <1>8, <1>9 DEF PassHolds, Known, Alone
    <2>5. \A P \in Pairing(x.claimed) : row'[Min(P)].text = row'[Max(P)].text => Covered(p, P)'
        BY <1>4, <1>8, <1>9, <1>11 DEF PassHolds
    <2> QED BY <1>7, <1>9, <1>10, <2>1, <2>2, <2>3, <2>4, <2>5 DEF PassHolds
<1> QED BY <1>4, <1>9, <1>12, PassMoves

LEMMA IdlePass ==
    ASSUME CleanupInv, UNCHANGED <<row, prop, revived, filled, mark, pairs, cut, rq>>,
           NEW p \in Passes, ps' = [ps EXCEPT ![p] = Idle]
    PROVE  CleanupInv'
<1>1. PassHolds(p)'
    BY IdleHolds, StateIs
<1> QED BY <1>1, IdleIs, PassMoves

LEMMA QueueOneInv == ASSUME CleanupInv, NEW p \in Passes, queue_one(p) PROVE CleanupInv'
<1>1. PICK y \in ps[p].todo : y = CHOOSE z \in ps[p].todo : TRUE
    BY DEF queue_one
<1>2. y \in Findings /\ Sound(y) /\ ps[p] \in PassT /\ PassHolds(p)
    BY StateIs DEF PassT, PassHolds
<1>3. CASE ps' = [ps EXCEPT ![p] = Idle] /\ UNCHANGED <<prop, pairs>>
    BY <1>3, IdlePass DEF queue_one, PassOnly
<1>4. CASE /\ prop[KeyOf(y)] # Absent \/ \A m \in References(y) : Stored(m)
           /\ queue_checked(y) /\ ps' = [ps EXCEPT ![p].todo = @ \ {y}]
    <2>1. PICK x : x = [ps[p] EXCEPT !.todo = ps[p].todo \ {y}]
        OBVIOUS
    <2>2. ps' = [ps EXCEPT ![p] = x] /\ UNCHANGED <<row, revived, filled, mark, cut, rq>>
        BY <1>4, <2>1 DEF queue_one, PassOnly
    <2>3. /\ x \in PassT /\ x.todo = ps[p].todo \ {y} /\ x.pc = ps[p].pc /\ x.cut = ps[p].cut
          /\ x.claimed = ps[p].claimed /\ x.newest = ps[p].newest /\ x.seen = ps[p].seen
          /\ x.since = ps[p].since /\ x.cadence = ps[p].cadence
        BY <1>2, <2>1 DEF PassT
    <2>4. ps' \in [Passes -> PassT] /\ ps'[p] = x /\ \A q \in Passes : q # p => ps'[q] = ps[q]
        BY <2>2, <2>3, StateIs
    <2>5. pairs' = pairs \cup Pairing(y.members)
        BY <1>2, <1>4, <2>2, QueueIs
    <2>6. ASSUME NEW P, Cardinality(P) = 2, Covered(p, P) PROVE Covered(p, P)'
        <3>1. P \subseteq y.members => P \in pairs'
            BY <2>5, <2>6 DEF Pairing
        <3> QED BY <2>3, <2>4, <2>5, <2>6, <3>1 DEF Covered
    <2>7. PassHolds(p)'
        <3>1. \A n \in {x.newest, x.seen} : n = 0 \/ Known(n)'
            BY <1>2, <2>2, <2>3 DEF PassHolds, Known
        <3>2. x.pc # "idle" => x.cadence \in Cadences /\ x.since <= mark'[x.cadence]
            BY <1>2, <2>2, <2>3 DEF PassHolds
        <3>3. ASSUME x.pc \in {"queue_similar", "queue_stale"}, ~x.cut, x.cadence \notin cut'
              PROVE  \A P \in PromisedTo(Through(p))' : Covered(p, P)'
            <4>0. PICK b : b = Through(p) /\ b = Through(p)'
                BY <2>3, <2>4 DEF Through
            <4>1. PromisedTo(Through(p))' = PromisedTo(Through(p))
                <5>1. PromisedTo(b)' = PromisedTo(b)
                    BY <2>2, PromisedSame
                <5> QED BY <4>0, <5>1
            <4>2. \A P \in PromisedTo(Through(p)) : Cardinality(P) = 2
                BY DEF PromisedTo, Pairing
            <4> QED BY <1>2, <2>2, <2>3, <2>6, <3>3, <4>1, <4>2 DEF PassHolds
        <3>4. \A m \in x.claimed : Known(m)' /\ ~Alone(m)'
            BY <1>2, <2>2, <2>3 DEF PassHolds, Known, Alone
        <3>5. \A P \in Pairing(x.claimed) : row'[Min(P)].text = row'[Max(P)].text => Covered(p, P)'
            <4>1. \A P \in Pairing(x.claimed) : Cardinality(P) = 2
                BY DEF Pairing
            <4> QED BY <1>2, <2>2, <2>3, <2>6, <4>1 DEF PassHolds
        <3>6. \A z \in x.todo : Sound(z)
            BY <1>2, <2>3 DEF PassHolds
        <3> QED BY <2>3, <2>4, <3>1, <3>2, <3>3, <3>4, <3>5, <3>6 DEF PassHolds
    <2> QED BY <1>2, <1>4, <2>2, <2>4, <2>7, QueueStep
<1> QED BY <1>1, <1>3, <1>4 DEF queue_one

LEMMA AdvanceInv == ASSUME CleanupInv, NEW p \in Passes, advance(p) PROVE CleanupInv'
<1> DEFINE s == ps[p]
           c == s.cadence
           to == IF s.cut THEN s.seen ELSE s.newest
<1>1. PICK b : b = IF to = 0 /\ ~s.cut THEN s.seen ELSE to
    OBVIOUS
<1>2. /\ mark' = [mark EXCEPT ![c] = Max({mark[c], b})] /\ cut' = cut \cup (IF s.cut THEN {c} ELSE {})
      /\ ps' = [ps EXCEPT ![p] = Idle] /\ UNCHANGED <<row, prop, rq, revived, filled, pairs>>
      /\ s.todo = {} /\ s.pc \in {"queue_similar", "queue_stale"}
    BY <1>1 DEF advance
<1>3. s \in PassT /\ PassHolds(p) /\ mark \in [Cadences -> 0 .. N]
    BY StateIs
<1>4. b \in 0 .. N /\ (b = 0 \/ Known(b)) /\ (~s.cut => b = Through(p)) /\ c \in Cadences /\ mark[c] \in 0 .. N
    BY <1>1, <1>2, <1>3 DEF PassHolds, PassT, Through
<1>5. PICK d : d = Max({mark[c], b})
    OBVIOUS
<1>6. d \in {mark[c], b} /\ d \in 0 .. N /\ d >= mark[c]
    BY <1>4, <1>5, MaxIs, RowsAre
<1>7. mark' \in [Cadences -> 0 .. N] /\ mark'[c] = d /\ \A e \in Cadences : e # c => mark'[e] = mark[e]
    BY <1>2, <1>3, <1>4, <1>5, <1>6
<1>8. ps' \in [Passes -> PassT] /\ \A q \in Passes : ps'[q] = ps[q] \/ PassHolds(q)'
    BY <1>2, IdleIs, IdleHolds, StateIs
<1>9. CleanupTypeOK'
    BY <1>2, <1>7, <1>8, StateIs, TypesNext
<1>10. Evolves
    <2>1. \A e \in Cadences : mark'[e] >= mark[e]
        BY <1>3, <1>6, <1>7, RowsAre
    <2> QED BY <1>2, <2>1, RowsRest, FindingsRest DEF Evolves
<1>11. ASSUME NEW k \in Keys PROVE FindingHolds(k)'
    <2>1. FindingHolds(k)
        BY StateIs
    <2> QED BY <1>2, <2>1 DEF FindingHolds, Stored
<1>12. MarksHold'
    <2>1. \A e \in Cadences : mark'[e] = 0 \/ Known(mark'[e])
        BY <1>4, <1>6, <1>7 DEF CleanupInv, MarksHold
    <2> QED BY <1>2, <2>1 DEF CleanupInv, MarksHold, Known
<1>13. ASSUME NEW e \in Cadences PROVE mark'[e] = mark[e] \/ e \in cut' \/ PromisedTo(mark[e])' \subseteq pairs'
    <2> SUFFICES ASSUME mark'[e] # mark[e], e \notin cut' PROVE PromisedTo(mark[e])' \subseteq pairs'
        OBVIOUS
    <2>1. e = c /\ mark'[e] = b /\ ~s.cut /\ c \notin cut
        BY <1>2, <1>6, <1>7
    <2>2. PromisedTo(mark[e])' = PromisedTo(b)
        <3>1. PromisedTo(b)' = PromisedTo(b)
            BY <1>2, PromisedSame
        <3> QED BY <2>1, <3>1
    <2>3. \A P \in PromisedTo(b) : Covered(p, P)
        BY <1>2, <1>3, <1>4, <2>1 DEF PassHolds
    <2> QED BY <1>2, <2>2, <2>3 DEF Covered
<1>14. \A r \in Reqs : rq'[r] = rq[r]
    BY <1>2
<1> QED BY <1>8, <1>9, <1>10, <1>11, <1>12, <1>13, <1>14, StepInv

LEMMA FaultInv == ASSUME CleanupInv, Fault PROVE CleanupInv'
<1>1. UNCHANGED <<row, prop, mark, revived, filled, pairs, cut>>
    BY DEF Fault
<1>2. ASSUME NEW p \in Passes, ps' = [ps EXCEPT ![p] = Idle], UNCHANGED rq PROVE CleanupInv'
    BY <1>1, <1>2, IdlePass
<1>3. ASSUME NEW r \in Reqs, rq' = [rq EXCEPT ![r] = Rest], UNCHANGED ps PROVE CleanupInv'
    <2>1. rq'[r] = Rest
        BY <1>3, StateIs
    <2> QED BY <1>1, <1>3, <2>1, RestHolds, RestType, RequestStep
<1> QED BY <1>2, <1>3 DEF Fault

-----------------------------------------------------------------------------
(* The theorems.                                                           *)

LEMMA InitInv == Init => CleanupInv
<1> SUFFICES ASSUME Init PROVE CleanupInv
    OBVIOUS
<1>1. NoRow \in RowT /\ NoRow.state = "none"
    <2>1. 0 \in 0 .. N
        BY RowsAre
    <2>2. Null \in Nat \cup {Null} /\ 0 \in Nat
        OBVIOUS
    <2> QED BY <2>1, <2>2 DEF NoRow, RowT
<1>2. CleanupTypeOK
    <2>1. row \in [Rows -> RowT] /\ prop \in [Keys -> PropT] /\ rq \in [Reqs -> ReqT] /\ ps \in [Passes -> PassT]
        BY <1>1, AbsentType, RestType, IdleIs DEF Init
    <2>2. mark \in [Cadences -> 0 .. N]
        BY RowsAre DEF Init
    <2> QED BY <2>1, <2>2, TypesAre DEF Init
<1>3. MarksHold
    BY <1>1 DEF Init, MarksHold, Known
<1>4. PromisedTo(0) = {}
    <2>1. LiveRows = {}
        BY <1>1 DEF Init, LiveRows, Live, Stored
    <2> QED BY <2>1, NoPairs DEF PromisedTo
<1>5. NothingMissed
    BY <1>4 DEF Init, NothingMissed
<1>6. \A k \in Keys : FindingHolds(k)
    BY AbsentType DEF Init, FindingHolds
<1>7. \A r \in Reqs : RequestHolds(r)
    BY DEF Init, RequestHolds, Rest
<1>8. \A p \in Passes : PassHolds(p)
    BY IdleIs, NoPairs DEF Init, PassHolds
<1> QED BY <1>2, <1>3, <1>5, <1>6, <1>7, <1>8 DEF CleanupInv

LEMMA NextInv == ASSUME CleanupInv, Next PROVE CleanupInv'
<1>1. ASSUME NEW m \in Rows, write(m) \/ expire(m) \/ unexpire(m) \/ fill_date(m) \/ forget(m) PROVE CleanupInv'
    BY <1>1, WriteInv, ExpireInv, UnexpireInv, FillInv, ForgetInv
<1>2. ASSUME NEW p \in Passes, PassStep(p) PROVE CleanupInv'
    BY <1>2, BeginInv, ReadExactInv, ReadSimilarInv, ReadUnreadInv, QueueOneInv, AdvanceInv DEF PassStep
<1>3. ASSUME NEW r \in Reqs, NEW m \in Rows, retire(r, m) \/ refused(r, m) PROVE CleanupInv'
    BY <1>3, RetireInv, RefusedInv
<1>4. ASSUME NEW r \in Reqs, NEW k \in Keys, apply(r, k) \/ \E n \in Rows : resolve(r, k, n) PROVE CleanupInv'
    BY <1>4, ApplyInv, ResolveInv
<1>5. ASSUME NEW r \in Reqs, finish(r) PROVE CleanupInv'
    BY <1>5, FinishInv
<1>6. ASSUME NEW k \in Keys, reject(k) \/ unreject(k) PROVE CleanupInv'
    BY <1>6, RejectInv
<1>7. ASSUME NEW x \in Posts, queue_posted(x) PROVE CleanupInv'
    BY <1>7, PostedInv
<1>8. ASSUME NEW m \in Rows, NEW n \in Rows, supersede(m, n) PROVE CleanupInv'
    BY <1>8, SupersedeInv
<1> QED BY <1>1, <1>2, <1>3, <1>4, <1>5, <1>6, <1>7, <1>8, FaultInv DEF Next

LEMMA StutterInv == ASSUME CleanupInv, UNCHANGED vars PROVE CleanupInv'
<1>1. UNCHANGED <<row, prop, revived, filled, mark, ps, pairs, cut, rq>>
    BY DEF vars
<1> QED BY <1>1, StateIs, PropStep

(***************************************************************************)
(* What findings, requests, marks and passes rely on always holds.         *)
(***************************************************************************)
THEOREM CleanupInvariant == Spec => []CleanupInv
<1>1. CleanupInv /\ [Next]_vars => CleanupInv'
    BY NextInv, StutterInv
<1> QED BY InitInv, <1>1, PTL DEF Spec

(***************************************************************************)
(* No pair that a run should have put before the owner falls between two   *)
(* watermarks, for any number of passes of any cadence over one mark and   *)
(* any limit of the candidate queries.                                     *)
(***************************************************************************)
THEOREM NoPairFallsBetween == Spec => []NothingMissed
<1>1. CleanupInv => NothingMissed
    BY DEF CleanupInv
<1> QED BY CleanupInvariant, <1>1, PTL

(***************************************************************************)
(* No row a waiting finding retires became true after its survivor, unless *)
(* a start was filled in since it was queued.                              *)
(***************************************************************************)
THEOREM WaitingFindingsApply == Spec => []QueuedApplies
<1>1. CleanupInv => QueuedApplies
    <2> SUFFICES ASSUME CleanupInv, NEW k \in Keys, prop[k].state = "proposed", has_keep(k[1]), k[2] \cap filled = {}
                 PROVE  \A m \in prop[k].members : ~Earlier(row[prop[k].keep].at, row[m].at)
        BY DEF QueuedApplies
    <2> QED BY StateIs DEF FindingHolds
<1> QED BY CleanupInvariant, <1>1, PTL

(***************************************************************************)
(* A finding reads applied only once every row it was to retire is         *)
(* replaced or gone.                                                       *)
(***************************************************************************)
THEOREM AppliedMeansDone == Spec => AppliedIsDone
<1>1. ASSUME CleanupInv, [Next]_vars, NEW r \in Reqs, NEW k, k = rq[r].key, k # Null, prop[k].state = "proposed",
             prop'[k].state = "applied", rq'[r] = Rest
      PROVE  \/ ~has_keep(k[1]) /\ rq[r].keep # 0 /\ ~Stored(rq[r].keep)
             \/ \A m \in prop[k].members \ {rq[r].keep} : row[m].by # 0
    <2>1. k \in Keys /\ RequestHolds(r) /\ prop \in [Keys -> PropT] /\ rq \in [Reqs -> ReqT]
        BY <1>1, StateIs DEF ReqT
    <2>2. PICK q \in Reqs : finish(q) /\ rq[q].key = k
        <3>1. prop' # prop
            BY <1>1
        <3>2. ASSUME NEW m \in Rows, Deleted(m) PROVE prop'[k].state # "applied"
            BY <1>1, <2>1, <3>2, AbsentType DEF Deleted, PropT
        <3>3. ASSUME NEW x \in Findings, Sound(x), queue_checked(x) PROVE prop'[k].state # "applied"
            <4>1. PICK keep \in Survivor(x) : queue([x EXCEPT !.keep = keep])
                BY <3>3 DEF queue_checked
            <4>2. PICK y : y = [x EXCEPT !.keep = keep]
                OBVIOUS
            <4>3. KeyOf(y) = KeyOf(x) /\ KeyOf(x) \in Keys
                BY <3>3, <4>2 DEF KeyOf, Findings, Sound
            <4>4. \/ prop' = prop
                  \/ prop' = [prop EXCEPT ![KeyOf(x)] = [state |-> "proposed", keep |-> y.keep, members |-> y.members]]
                BY <4>1, <4>2, <4>3 DEF queue
            <4> QED BY <1>1, <2>1, <4>3, <4>4
        <3>4. ASSUME NEW p \in Passes, PassStep(p) PROVE prop'[k].state # "applied"
            <4>1. CASE queue_one(p)
                <5>1. PICK y \in ps[p].todo : y = CHOOSE z \in ps[p].todo : TRUE
                    BY <4>1 DEF queue_one
                <5>2. y \in Findings /\ Sound(y)
                    BY <1>1, <5>1, StateIs DEF PassT, PassHolds
                <5>3. prop' = prop \/ queue_checked(y)
                    BY <4>1, <5>1 DEF queue_one
                <5> QED BY <1>1, <3>3, <5>2, <5>3
            <4>2. CASE \E c \in Cadences : begin(p, c)
                BY <1>1, <2>1, <4>2 DEF begin, PropT
            <4>3. CASE read_exact(p) \/ read_similar(p) \/ read_unread(p) \/ advance(p)
                BY <3>1, <4>3 DEF read_exact, read_similar, read_unread, advance
            <4> QED BY <3>4, <4>1, <4>2, <4>3 DEF PassStep
        <3>5. ASSUME NEW x \in Posts, queue_posted(x) PROVE prop'[k].state # "applied"
            BY <3>3, <3>5, CleanupAssumption DEF queue_posted
        <3>6. ASSUME NEW q \in Reqs, finish(q) PROVE rq[q].key = k
            BY <1>1, <2>1, <3>6 DEF finish
        <3>7. ASSUME NEW j \in Keys, reject(j) \/ unreject(j) PROVE prop'[k].state # "applied"
            <4>1. prop \in [Keys -> PropT] /\ k \in Keys /\ prop[k].state = "proposed"
                BY <1>1, <2>1
            <4>2. PICK s \in {"rejected", "proposed"} : prop' = [prop EXCEPT ![j].state = s]
                BY <3>7 DEF reject, unreject
            <4>3. CASE j = k
                BY <4>1, <4>2, <4>3 DEF PropT
            <4>4. CASE j # k
                BY <4>1, <4>2, <4>4 DEF PropT
            <4> QED BY <4>3, <4>4
        <3>8. ASSUME NEW q \in Reqs, NEW m \in Rows, retire(q, m) \/ refused(q, m) PROVE prop'[k].state # "applied"
            BY <1>1, <3>1, <3>2, <3>8 DEF retire, refused, Retired
        <3>9. ASSUME NEW m \in Rows, write(m) \/ expire(m) \/ unexpire(m) \/ fill_date(m) \/ forget(m)
              PROVE  prop'[k].state # "applied"
            BY <3>1, <3>2, <3>9 DEF write, expire, unexpire, fill_date, forget
        <3>10. ~Fault /\ ~(\E m, n \in Rows : supersede(m, n))
               /\ ~(\E q \in Reqs, j \in Keys : apply(q, j) \/ \E n \in Rows : resolve(q, j, n))
            BY <3>1 DEF Fault, supersede, Retired, apply, resolve
        <3> QED BY <1>1, <3>1, <3>4, <3>5, <3>6, <3>7, <3>8, <3>9, <3>10 DEF Next, vars
    <2>3. q = r
        BY <1>1, <2>1, <2>2 DEF finish, Rest
    <2>4. rq[r].todo = {}
        BY <2>2, <2>3 DEF finish
    <2>5. /\ prop[k].members \subseteq k[2] /\ \A m \in prop[k].members : Stored(m)
          /\ prop[k].keep # 0 => Stored(prop[k].keep)
        BY <1>1, <2>1, StateIs DEF FindingHolds
    <2>6. CASE rq[r].keep # 0 /\ row[rq[r].keep].state = "gone"
        <3>1. has_keep(k[1]) => rq[r].keep = prop[k].keep
            BY <1>1, <2>1 DEF RequestHolds
        <3> QED BY <2>5, <2>6, <3>1 DEF Stored
    <2>7. CASE \A m \in k[2] \ {rq[r].keep} : row[m].state = "gone" \/ (rq[r].keep # 0 /\ row[m].by = rq[r].keep)
        BY <2>5, <2>7 DEF Stored
    <2> QED BY <1>1, <2>1, <2>4, <2>6, <2>7 DEF RequestHolds
<1>2. CleanupInv /\ [Next]_vars
      => [\A r \in Reqs : LET k == rq[r].key IN
            k # Null /\ prop[k].state = "proposed" /\ prop'[k].state = "applied" /\ rq'[r] = Rest =>
               \/ ~has_keep(k[1]) /\ rq[r].keep # 0 /\ ~Stored(rq[r].keep)
               \/ \A m \in prop[k].members \ {rq[r].keep} : row[m].by # 0]_vars
    BY <1>1
<1> QED BY CleanupInvariant, <1>2, PTL DEF Spec, AppliedIsDone
================================================================================
