---------------------------- MODULE IngestRunProofs ----------------------------
(***************************************************************************)
(* Ingestion reads no line twice for nothing, leaves none behind and never *)
(* reads itself, for any transcripts, runs and extract processes.          *)
(*                                                                         *)
(* A mark is judged by its own hash, which holds the lines it covers: it   *)
(* stays good whatever becomes of the file or of the run that asked for    *)
(* it.  The recursive functions of the model are shown by minimal          *)
(* counterexample to have the values that their equations give.            *)
(***************************************************************************)
EXTENDS IngestRun, FiniteSetTheorems, SequenceTheorems, WellFoundedInduction, TLAPS

\* A line that is a marker names the run that printed it.
Signed == {l \in Lines : l.kind \in {"begin", "end"} => l.by \in Runs}

Hash == [of : Seq(Signed), bytes : Nat]

RunDirs ==
    [phase : Phases, scope : SUBSET Files, ceil : UNION {[S -> Nat] : S \in SUBSET Files},
     pieces : SUBSET Pieces, chunks : Nat, spans : BOOLEAN,
     out : SUBSET Nat, failed : SUBSET Nat, got : SUBSET Nat, unext : SUBSET Nat]

Extracts == [of : Runs \cup {None}, todo : SUBSET Nat, wrote : SUBSET Nat, failed : SUBSET Nat]

Advances == [run : Runs, file : Files, off : Nat, hash : Hash, live : BOOLEAN]

Even(n) == n \in Nat /\ n = 2 * (n \div 2)

Shape ==
    /\ text \in [Files -> Seq(Signed)]
    /\ torn \in [Files -> BOOLEAN]
    /\ cut \in [Files -> BOOLEAN]
    /\ written \in 0 .. MaxWindows
    /\ marks \in [Files -> [off : Nat, hash : Hash]]
    /\ lock \in Runs \cup {None}
    /\ run \in [Runs -> RunDirs]
    /\ ext \in [Extractors -> Extracts]
    /\ flight \subseteq Advances
    /\ faults \in 0 .. MaxFaults
    /\ posted \subseteq (1 .. MaxWindows) \X {1, 2}
    /\ screened \subseteq 1 .. MaxWindows

\* Only a last line that there is can lack its newline, and no line has the
\* number of one that is still to come.
LinesAreCounted ==
    \A f \in Files :
        /\ torn[f] => text[f] # <<>>
        /\ \A i \in 1 .. Len(text[f]) : text[f][i].id <= written

WindowsOf(d, chunks) == {<<p.line, p.win>> : p \in {q \in d.pieces : q.chunk \in chunks}}

\* A run directory lists chunks it has, and nothing before it is planned.
ListsAreOfChunks(d) ==
    /\ d.out \cup d.failed \cup d.got \cup d.unext \subseteq 1 .. d.chunks
    /\ d.phase \in {"none", "planning"} =>
            DOMAIN d.ceil = {} /\ d.pieces = {} /\ d.chunks = 0 /\ ~d.spans
    /\ DOMAIN d.ceil \subseteq Files

\* A submit has every chunk either at hand or on the list it holds back for,
\* and posts the first before it looks at the second.
SubmitIsComplete(d) ==
    /\ d.phase \in {"posting", "posted", "advancing"} => 1 .. d.chunks \subseteq d.got \cup d.unext
    /\ d.phase \in {"posted", "advancing"} => WindowsOf(d, d.got) \subseteq posted

DirIsSpent(d) ==
    d.phase \notin {"none", "planning"} /\ ~d.spans => WindowsOf(d, 1 .. d.chunks) \subseteq posted

\* Every offset lies between two lines.
OffsetsAreEven ==
    /\ \A f \in Files : Even(marks[f].off)
    /\ \A m \in flight : Even(m.off)

DirIsEven(d) ==
    /\ \A f \in DOMAIN d.ceil : Even(d.ceil[f])
    /\ \A p \in d.pieces : Even(p.start)

DirIsSound(d) == ListsAreOfChunks(d) /\ SubmitIsComplete(d) /\ DirIsSpent(d) /\ DirIsEven(d)

\* An extract works on the chunks of a run that is planned.
ExtractIsWired(x) ==
    /\ x.wrote \subseteq x.todo
    /\ x.of = None => x.todo = {}
    /\ x.of # None =>
          /\ run[x.of].phase \notin {"none", "planning"}
          /\ x.todo \cup x.failed \subseteq 1 .. run[x.of].chunks

Stored(f, m) == m.off <= Size(f) /\ m.hash = prefix_sha256(f, m.off)

\* Of a file that was only appended to, every offset lies inside the file and
\* every hash is still the one of its beginning.
HashesHold ==
    \A f \in Files : ~cut[f] => Stored(f, marks[f]) /\ \A m \in flight : m.file = f => Stored(f, m)

CeilsFit(d) == \A f \in DOMAIN d.ceil : ~cut[f] => d.ceil[f] <= Size(f)

RunInv ==
    /\ Shape
    /\ LinesAreCounted
    /\ OffsetsAreEven
    /\ HashesHold
    /\ \A r \in Runs : DirIsSound(run[r]) /\ CeilsFit(run[r])
    /\ \A e \in Extractors : ExtractIsWired(ext[e])

-----------------------------------------------------------------------------
\* The fence after n lines of a transcript that is read from its start.
FenceAt(lines, n) == FenceFrom(lines, 0, Len(lines))[n]

\* A line that is the owner's to be ingested.
Speaks(lines, i) == lines[i].kind \in Speech /\ ~LineFenced(lines, i)

\* A mark's own hash tells what it stands behind: lines that are dealt with,
\* and no fence open behind the last.
Settled(m) ==
    LET lines == m.hash.of
    IN  /\ m.off = 2 * Len(lines) /\ m.hash.bytes = m.off
        /\ FenceAt(lines, Len(lines)) = Closed
        /\ \A i \in 1 .. Len(lines) : Speaks(lines, i) => Handled(lines[i])

MarksAreSettled ==
    /\ \A f \in Files : Settled(marks[f])
    /\ \A m \in flight : Settled(m)

\* A worklist has window w of line i of file f, in a span that begins no later.
Holds(d, f, i, w) ==
    \E p \in d.pieces :
        p.file = f /\ p.line = text[f][i].id /\ p.win = w
            /\ p.start <= 2 * (i - 1) /\ p.chunk \in 1 .. d.chunks

\* A file that a run has planned still begins with what was planned, and of
\* that every line is dealt with or in the worklist.
CeilsAreCovered(d) ==
    \A f \in DOMAIN d.ceil :
        LET n == d.ceil[f] \div 2
        IN  /\ n <= Whole(f)
            /\ FenceAt(text[f], n) = Closed
            /\ \A i \in 1 .. n : Speaks(text[f], i) =>
                  \/ Handled(text[f][i])
                  \/ \A w \in Windows(text[f][i].kind) : Holds(d, f, i, w)

\* Spans begin outside of every fence.
SpansAreOutside(d) ==
    \A p \in d.pieces :
        /\ p.file \in DOMAIN d.ceil
        /\ p.start \div 2 <= Whole(p.file)
        /\ FenceAt(text[p.file], p.start \div 2) = Closed

\* A number is of no line still to come, and of none inside a fence.
IsOwners(id) ==
    /\ id \in Nat /\ id <= written
    /\ \A f \in Files : \A i \in 1 .. Len(text[f]) : Fenced(f, i) => text[f][i].id # id

DirIsCovered(d) ==
    /\ CeilsAreCovered(d)
    /\ SpansAreOutside(d)
    /\ \A p \in d.pieces : IsOwners(p.line)

IdsAreDistinct ==
    \A f, g \in Files : \A i \in 1 .. Len(text[f]), j \in 1 .. Len(text[g]) :
        text[f][i].id = text[g][j].id => f = g /\ i = j

SpeechInv ==
    /\ MarksAreSettled
    /\ IdsAreDistinct
    /\ \A x \in posted : IsOwners(x[1])
    /\ \A r \in Runs : DirIsCovered(run[r])

-----------------------------------------------------------------------------
(* Numbers and sequences.                                                  *)

LEMMA LeastNat ==
    ASSUME NEW T \in SUBSET Nat, T # {}
    PROVE  \E x \in T : \A y \in T : x <= y
<1>1. PICK x \in T : \A y \in T : ~(<<y, x>> \in OpToRel(<, Nat))
    BY NatLessThanWellFounded, WFMin
<1>2. \A y \in T : ~(y < x)
    BY <1>1 DEF OpToRel
<1> QED BY <1>2

LEMMA LeastIs ==
    ASSUME NEW T \in SUBSET Nat, T # {}
    PROVE  Least(T) \in T /\ \A y \in T : Least(T) <= y
<1>1. \E x \in T : \A y \in T : x <= y
    BY LeastNat
<1> QED BY <1>1 DEF Least

LEMMA HalfIs ==
    /\ \A n \in Nat : Even(2 * n) /\ (2 * n) \div 2 = n /\ (2 * n + 1) \div 2 = n
    /\ \A n : Even(n) => n \in Nat /\ n \div 2 \in Nat /\ n = 2 * (n \div 2) /\ (n + 1) \div 2 = n \div 2
<1>1. \A n \in Nat : (2 * n) \div 2 = n /\ (2 * n + 1) \div 2 = n
    OBVIOUS
<1>2. \A n \in Nat : n \div 2 \in Nat
    OBVIOUS
<1>3. \A n \in Nat : Even(2 * n)
    BY <1>1 DEF Even
<1> QED BY <1>1, <1>2, <1>3 DEF Even

-----------------------------------------------------------------------------
(* The fence.                                                              *)

Fences == [open : Runs \cup {None}, since : Nat]

\* The equation of FenceFrom.
FenceEq(h, lines, s, n) ==
    h = [i \in s .. n |-> IF i = s THEN Closed ELSE Observe(h[i - 1], lines[i], i)]

LEMMA FenceExists ==
    ASSUME NEW lines, NEW s \in Nat, NEW n \in Nat, s <= n
    PROVE  \E h : FenceEq(h, lines, s, n)
<1> DEFINE Bad == {m \in Nat : s <= m /\ ~\E h : FenceEq(h, lines, s, m)}
<1>1. SUFFICES ASSUME Bad # {} PROVE FALSE
    OBVIOUS
<1>2. PICK m \in Bad : \A y \in Bad : m <= y
    BY <1>1, LeastNat
<1>3. CASE m = s
    <2> DEFINE h == [i \in s .. s |-> Closed]
    <2>1. FenceEq(h, lines, s, s)
        BY DEF FenceEq
    <2> QED BY <1>3, <2>1
<1>4. CASE m # s
    <2>1. m - 1 \in Nat /\ s <= m - 1 /\ m - 1 \notin Bad
        BY <1>2, <1>4
    <2>2. PICK h : FenceEq(h, lines, s, m - 1)
        BY <2>1
    <2> DEFINE g == [i \in s .. m |-> IF i = m THEN Observe(h[m - 1], lines[m], m) ELSE h[i]]
    <2>3. \A i \in s .. m : i # m => i \in s .. (m - 1)
        OBVIOUS
    <2>4. \A i \in s .. m : g[i] = IF i = s THEN Closed ELSE Observe(g[i - 1], lines[i], i)
        <3> SUFFICES ASSUME NEW i \in s .. m
                     PROVE  g[i] = IF i = s THEN Closed ELSE Observe(g[i - 1], lines[i], i)
            OBVIOUS
        <3>1. CASE i = s
            BY <1>4, <2>2, <3>1, <2>1 DEF FenceEq
        <3>2. CASE i # s /\ i # m
            <4>1. i \in s .. (m - 1) /\ i - 1 \in s .. (m - 1) /\ i - 1 \in s .. m /\ i - 1 # m
                BY <3>2
            <4> HIDE DEF g
            <4>2. g[i] = h[i] /\ g[i - 1] = h[i - 1]
                BY <3>2, <4>1 DEF g
            <4>3. h[i] = Observe(h[i - 1], lines[i], i)
                BY <2>2, <3>2, <4>1 DEF FenceEq
            <4> QED BY <3>2, <4>2, <4>3
        <3>3. CASE i = m
            <4>1. m - 1 \in s .. m /\ m - 1 # m
                BY <2>1
            <4>2. g[m - 1] = h[m - 1]
                BY <4>1
            <4> QED BY <1>4, <3>3, <4>2
        <3> QED BY <3>1, <3>2, <3>3
    <2>5. FenceEq(g, lines, s, m)
        BY <2>4 DEF FenceEq
    <2> QED BY <2>5
<1> QED BY <1>3, <1>4

\* A function that follows the fence of some lines.
Follows(g, lines, s, n) == \A i \in (s + 1) .. n : g[i] = Observe(g[i - 1], lines[i], i)

Alike(L, M, s, n) == \A i \in (s + 1) .. n : L[i] = M[i]

LEMMA FenceIs ==
    ASSUME NEW lines, NEW s \in Nat, NEW n \in Nat, s <= n
    PROVE  FenceFrom(lines, s, n)[s] = Closed /\ Follows(FenceFrom(lines, s, n), lines, s, n)
<1>1. FenceFrom(lines, s, n) = CHOOSE h : FenceEq(h, lines, s, n)
    BY DEF FenceFrom, FenceEq
<1>2. FenceEq(FenceFrom(lines, s, n), lines, s, n)
    BY <1>1, FenceExists
<1> DEFINE g == FenceFrom(lines, s, n)
<1> HIDE DEF g
<1>3. g = [i \in s .. n |-> IF i = s THEN Closed ELSE Observe(g[i - 1], lines[i], i)]
    BY <1>2 DEF FenceEq, g
<1>4. g[s] = Closed
    BY <1>3
<1>5. Follows(g, lines, s, n)
    BY <1>3 DEF Follows
<1> QED BY <1>4, <1>5 DEF g

LEMMA FenceSame ==
    ASSUME NEW g, NEW h, NEW L, NEW M, NEW a \in Nat, NEW b \in Nat, g[a] = h[a],
           Follows(g, L, a, b), Follows(h, M, a, b), Alike(L, M, a, b)
    PROVE  \A i \in a .. b : g[i] = h[i]
<1> DEFINE Bad == {i \in Nat : i \in a .. b /\ g[i] # h[i]}
<1>1. SUFFICES ASSUME Bad # {} PROVE FALSE
    OBVIOUS
<1>2. PICK i \in Bad : \A y \in Bad : i <= y
    BY <1>1, LeastNat
<1>3. i # a /\ i \in (a + 1) .. b /\ i - 1 \in Nat /\ i - 1 \in a .. b /\ ~(i <= i - 1)
    BY <1>2
<1>4. g[i - 1] = h[i - 1]
    BY <1>2, <1>3
<1> QED BY <1>2, <1>3, <1>4 DEF Follows, Alike

\* A fence is closed, or open since the line that opened it.
LEMMA FenceShape ==
    ASSUME NEW lines, NEW s \in Nat, NEW n \in Nat, s <= n,
           \A i \in (s + 1) .. n : lines[i] \in Signed
    PROVE  LET g == FenceFrom(lines, s, n)
           IN  \A i \in s .. n :
                  \/ g[i] = Closed
                  \/ g[i].open \in Runs /\ \E j \in (s + 1) .. i : g[i].since = 2 * (j - 1) /\ g[j - 1] = Closed
<1> DEFINE g == FenceFrom(lines, s, n)
           Good(i) == \/ g[i] = Closed
                      \/ g[i].open \in Runs /\ \E j \in (s + 1) .. i : g[i].since = 2 * (j - 1) /\ g[j - 1] = Closed
           Bad == {i \in Nat : i \in s .. n /\ ~Good(i)}
<1>1. SUFFICES ASSUME Bad # {} PROVE FALSE
    OBVIOUS
<1>2. PICK i \in Bad : \A y \in Bad : i <= y
    BY <1>1, LeastNat
<1>3. g[s] = Closed /\ \A k \in (s + 1) .. n : g[k] = Observe(g[k - 1], lines[k], k)
    BY FenceIs DEF Follows
<1> HIDE DEF g
<1>4. i # s /\ i \in (s + 1) .. n /\ i - 1 \in s .. n /\ i - 1 \in Nat /\ ~(i <= i - 1)
    BY <1>2, <1>3
<1>5. Good(i - 1)
    <2> HIDE DEF Good
    <2> QED BY <1>2, <1>4
<1>6. g[i] = Observe(g[i - 1], lines[i], i) /\ lines[i] \in Signed
    BY <1>3, <1>4
<1>7. g[i] = Closed \/ g[i] = g[i - 1] \/ (g[i - 1].open = None /\ g[i] = [open |-> lines[i].by, since |-> 2 * (i - 1)] /\ lines[i].by \in Runs)
    BY <1>6 DEF Observe, Signed
<1>8. CASE g[i] = g[i - 1]
    <2>1. (s + 1) .. (i - 1) \subseteq (s + 1) .. i
        BY <1>4
    <2>2. Good(i)
        BY <1>5, <1>8, <2>1
    <2> QED BY <1>2, <2>2
<1>9. CASE g[i - 1].open = None /\ g[i] = [open |-> lines[i].by, since |-> 2 * (i - 1)] /\ lines[i].by \in Runs
    <2>1. g[i - 1] = Closed
        BY <1>5, <1>9, IngestAssumption
    <2>2. Good(i)
        BY <1>4, <1>9, <2>1
    <2> QED BY <1>2, <2>2
<1> QED BY <1>2, <1>7, <1>8, <1>9

\* Two transcripts that begin alike are fenced alike there.
LEMMA FencePrefix ==
    ASSUME NEW S, NEW L \in Seq(S), NEW M \in Seq(S), NEW k \in 0 .. Len(L), k <= Len(M),
           \A i \in 1 .. k : L[i] = M[i]
    PROVE  /\ \A i \in 0 .. k : FenceAt(L, i) = FenceAt(M, i)
           /\ \A i \in 1 .. k : (LineFenced(L, i) <=> LineFenced(M, i)) /\ (Speaks(L, i) <=> Speaks(M, i))
<1>1. Len(L) \in Nat /\ Len(M) \in Nat
    BY LenProperties
<1> DEFINE g == FenceFrom(L, 0, Len(L))
           h == FenceFrom(M, 0, Len(M))
<1>2. g[0] = Closed /\ Follows(g, L, 0, Len(L)) /\ h[0] = Closed /\ Follows(h, M, 0, Len(M))
    BY <1>1, 0 \in Nat, 0 <= Len(L), 0 <= Len(M), FenceIs
<1> HIDE DEF g, h
<1>3. Follows(g, L, 0, k) /\ Follows(h, M, 0, k) /\ Alike(L, M, 0, k)
    <2>1. \A i \in (0 + 1) .. k : i \in (0 + 1) .. Len(L) /\ i \in (0 + 1) .. Len(M) /\ i \in 1 .. k
        BY <1>1
    <2> QED BY <1>2, <2>1 DEF Follows, Alike
<1>4. \A i \in 0 .. k : g[i] = h[i]
    <2> DEFINE z == 0
    <2>1. z \in Nat /\ k \in Nat /\ g[z] = h[z] /\ Follows(g, L, z, k) /\ Follows(h, M, z, k) /\ Alike(L, M, z, k)
        BY <1>1, <1>2, <1>3
    <2> HIDE DEF z
    <2>2. \A i \in z .. k : g[i] = h[i]
        BY <2>1, FenceSame
    <2> QED BY <2>2 DEF z
<1>5. \A i \in 1 .. k : i - 1 \in 0 .. k
    BY <1>1
<1>6. \A i \in 1 .. k : LineFenced(L, i) <=> LineFenced(M, i)
    BY <1>1, <1>4, <1>5 DEF LineFenced, Outside, g, h
<1> QED BY <1>4, <1>6 DEF FenceAt, Speaks, g, h

\* Whoever starts where no fence is open sees the fences that there are.
LEMMA FenceRestart ==
    ASSUME NEW L \in Seq(Signed), NEW s \in Nat, NEW n \in Nat, s <= n, n <= Len(L),
           FenceAt(L, s) = Closed
    PROVE  \A i \in s .. n : FenceFrom(L, s, n)[i] = FenceAt(L, i)
<1>1. Len(L) \in Nat
    BY LenProperties
<1> DEFINE g == FenceFrom(L, s, n)
           h == FenceFrom(L, 0, Len(L))
<1>2. g[s] = Closed /\ Follows(g, L, s, n)
    BY FenceIs
<1>3. h[s] = Closed /\ Follows(h, L, 0, Len(L))
    BY <1>1, 0 \in Nat, 0 <= Len(L), FenceIs DEF FenceAt
<1> HIDE DEF g, h
<1>4. Follows(h, L, s, n) /\ Alike(L, L, s, n)
    <2>1. \A i \in (s + 1) .. n : i \in (0 + 1) .. Len(L)
        BY <1>1
    <2> QED BY <1>3, <2>1 DEF Follows, Alike
<1>5. \A i \in s .. n : g[i] = h[i]
    BY <1>2, <1>3, <1>4, FenceSame
<1> QED BY <1>5 DEF g, h, FenceAt

-----------------------------------------------------------------------------
(* Reading a file.                                                         *)

LEMMA FileIs ==
    ASSUME NEW f \in Files, text[f] \in Seq(Signed), torn[f] \in BOOLEAN, torn[f] => text[f] # <<>>
    PROVE  /\ Len(text[f]) \in Nat /\ Size(f) \in Nat /\ Whole(f) \in 0 .. Len(text[f])
           /\ 2 * Whole(f) <= Size(f) /\ Size(f) <= 2 * Len(text[f])
           /\ Size(f) <= 2 * Whole(f) + 1
           /\ \A i \in 1 .. Len(text[f]) : text[f][i] \in Signed
<1>1. Len(text[f]) \in Nat /\ \A i \in 1 .. Len(text[f]) : text[f][i] \in Signed
    BY LenProperties, ElementOfSeq
<1>2. torn[f] => Len(text[f]) # 0
    BY EmptySeq
<1>3. CASE torn[f]
    <2>1. Size(f) = 2 * Len(text[f]) - 1 /\ Whole(f) = Len(text[f]) - 1
        BY <1>3 DEF Size, Whole
    <2> QED BY <1>1, <1>2, <1>3, <2>1
<1>4. CASE ~torn[f]
    <2>1. Size(f) = 2 * Len(text[f]) /\ Whole(f) = Len(text[f])
        BY <1>1, <1>4 DEF Size, Whole
    <2> QED BY <1>1, <2>1
<1> QED BY <1>3, <1>4

LEMMA ParseIs ==
    ASSUME NEW f \in Files, text[f] \in Seq(Signed), torn[f] \in BOOLEAN, torn[f] => text[f] # <<>>,
           NEW s, Even(s), s < Size(f)
    PROVE  LET from == s \div 2
               p == parse_file(f, s)
           IN  /\ from \in 0 .. Whole(f)
               /\ p.entries \subseteq 1 .. Whole(f)
               /\ \A i \in p.entries : text[f][i].kind \in Speech
               /\ Even(p.read_to) /\ p.read_to <= 2 * Whole(f)
               /\ FenceAt(text[f], from) = Closed =>
                    /\ FenceAt(text[f], p.read_to \div 2) = Closed
                    /\ p.entries = {i \in (from + 1) .. Whole(f) : Speaks(text[f], i)}
                    /\ \A i \in p.entries : FenceAt(text[f], i - 1) = Closed
<1> DEFINE from == s \div 2
           L == text[f]
           w == Whole(f)
           g == FenceFrom(L, from, w)
           p == parse_file(f, s)
<1>1. Len(L) \in Nat /\ Size(f) \in Nat /\ w \in 0 .. Len(L) /\ Size(f) <= 2 * w + 1 /\ \A i \in 1 .. Len(L) : L[i] \in Signed
    BY FileIs
<1>2. from \in Nat /\ s = 2 * from
    BY HalfIs
<1>3. from \in 0 .. w
    BY <1>1, <1>2
<1>4. p.entries = {i \in from + 1 .. w : Outside(g, L, i) /\ L[i].kind \in Speech}
    BY DEF parse_file
<1>5. p.read_to = IF g[w].open # None THEN g[w].since ELSE 2 * w
    BY DEF parse_file
<1> HIDE DEF from, w, L, p
<1>6. \A i \in (from + 1) .. w : L[i] \in Signed
    BY <1>1, <1>3
<1>7. \/ g[w] = Closed
      \/ g[w].open \in Runs /\ \E j \in (from + 1) .. w : g[w].since = 2 * (j - 1) /\ g[j - 1] = Closed
    <2>1. from \in Nat /\ w \in Nat /\ from <= w /\ w \in from .. w
        BY <1>1, <1>2, <1>3
    <2> QED BY <1>6, <2>1, FenceShape
<1>8. PICK n \in from .. w : p.read_to = 2 * n /\ g[n] = Closed
    <2>1. CASE g[w] = Closed
        BY <1>1, <1>3, <1>5, <2>1 DEF Closed
    <2>2. CASE g[w].open \in Runs /\ \E j \in (from + 1) .. w : g[w].since = 2 * (j - 1) /\ g[j - 1] = Closed
        <3>1. PICK j \in (from + 1) .. w : g[w].since = 2 * (j - 1) /\ g[j - 1] = Closed
            BY <2>2
        <3>2. g[w].open # None
            BY <2>2, IngestAssumption
        <3>3. p.read_to = 2 * (j - 1)
            BY <1>5, <3>1, <3>2
        <3>4. j - 1 \in from .. w
            BY <1>1, <1>2, <1>3
        <3> QED BY <3>1, <3>3, <3>4
    <2> QED BY <1>7, <2>1, <2>2
<1>9. n \in Nat /\ n <= w
    BY <1>1, <1>3, <1>8
<1>10. Even(p.read_to) /\ p.read_to <= 2 * w /\ p.read_to \div 2 = n
    BY <1>1, <1>8, <1>9, HalfIs
<1>11. p.entries \subseteq 1 .. w /\ \A i \in p.entries : L[i].kind \in Speech
    BY <1>1, <1>3, <1>4
<1>12. ASSUME FenceAt(L, from) = Closed
       PROVE  /\ FenceAt(L, n) = Closed
              /\ p.entries = {i \in (from + 1) .. w : Speaks(L, i)}
              /\ \A i \in p.entries : FenceAt(L, i - 1) = Closed
    <2>1. \A i \in from .. w : g[i] = FenceAt(L, i)
        <3>1. L \in Seq(Signed) /\ w \in Nat /\ w <= Len(L) /\ from <= w
            BY <1>1, <1>3 DEF L
        <3> QED BY <1>2, <1>12, <3>1, FenceRestart
    <2> HIDE DEF g
    <2>2. \A i \in (from + 1) .. w : i - 1 \in from .. w /\ i \in 1 .. Len(L)
        BY <1>1, <1>3
    <2>3. \A i \in (from + 1) .. w : g[i - 1].open = FenceFrom(L, 0, Len(L))[i - 1].open
        BY <2>1, <2>2 DEF FenceAt
    <2>4. \A i \in (from + 1) .. w : Outside(g, L, i) <=> ~LineFenced(L, i)
        BY <2>3 DEF Outside, LineFenced
    <2>5. p.entries = {i \in (from + 1) .. w : Speaks(L, i)}
        BY <1>4, <2>4 DEF Speaks, g
    <2>6. ASSUME NEW i \in p.entries PROVE FenceAt(L, i - 1) = Closed
        <3>1. i \in (from + 1) .. w /\ g[i - 1].open = None
            BY <1>4, <2>6 DEF Outside, g
        <3>2. g[i - 1] = Closed
            <4>1. \/ g[i - 1] = Closed
                  \/ g[i - 1].open \in Runs
                <5>1. from \in Nat /\ w \in Nat /\ from <= w /\ i - 1 \in from .. w
                    BY <1>1, <1>2, <1>3, <2>2, <3>1
                <5> QED BY <1>6, <5>1, FenceShape DEF g
            <4> QED BY <3>1, <4>1, IngestAssumption
        <3> QED BY <2>1, <2>2, <3>1, <3>2
    <2> QED BY <1>8, <2>1, <2>5, <2>6
<1> QED BY <1>3, <1>10, <1>11, <1>12 DEF from, w, L, p

-----------------------------------------------------------------------------
(* Sequences laid end to end.                                              *)

\* Element k of w is element at[k] of part home[k], in order and complete.
Laid(w, parts, n, home, at) ==
    /\ \A k \in 1 .. Len(w) : /\ home[k] \in 1 .. n
                              /\ at[k] \in 1 .. Len(parts[home[k]])
                              /\ w[k] = parts[home[k]][at[k]]
    /\ \A j, k \in 1 .. Len(w) : j < k =>
            home[j] < home[k] \/ (home[j] = home[k] /\ at[j] < at[k])
    /\ \A i \in 1 .. n : \A x \in 1 .. Len(parts[i]) :
            \E k \in 1 .. Len(w) : home[k] = i /\ at[k] = x

FlattenEq(h, parts, n) ==
    h = [i \in 1 .. n |-> IF i = 1 THEN parts[i] ELSE h[i - 1] \o parts[i]]

LEMMA FlattenExists ==
    ASSUME NEW parts, NEW n \in Nat
    PROVE  \E h : FlattenEq(h, parts, n)
<1> DEFINE Bad == {m \in Nat : ~\E h : FlattenEq(h, parts, m)}
<1>1. SUFFICES ASSUME Bad # {} PROVE FALSE
    OBVIOUS
<1>2. PICK m \in Bad : \A y \in Bad : m <= y
    BY <1>1, LeastNat
<1>3. CASE m = 0
    <2>1. FlattenEq([i \in 1 .. 0 |-> 0], parts, 0)
        BY DEF FlattenEq
    <2> QED BY <1>2, <1>3, <2>1
<1>4. CASE m # 0
    <2>1. m - 1 \in Nat /\ m - 1 \notin Bad
        BY <1>2, <1>4
    <2>2. PICK h : FlattenEq(h, parts, m - 1)
        BY <2>1
    <2> DEFINE g == [i \in 1 .. m |-> IF i # m THEN h[i] ELSE IF m = 1 THEN parts[m] ELSE h[m - 1] \o parts[m]]
    <2>3. \A i \in 1 .. m : g[i] = IF i = 1 THEN parts[i] ELSE g[i - 1] \o parts[i]
        <3> SUFFICES ASSUME NEW i \in 1 .. m
                     PROVE  g[i] = IF i = 1 THEN parts[i] ELSE g[i - 1] \o parts[i]
            OBVIOUS
        <3>1. CASE i # m
            <4>1. i \in 1 .. (m - 1) /\ (i # 1 => i - 1 \in 1 .. m /\ i - 1 # m)
                BY <3>1
            <4>2. h[i] = IF i = 1 THEN parts[i] ELSE h[i - 1] \o parts[i]
                BY <2>2, <4>1 DEF FlattenEq
            <4> QED BY <3>1, <4>1, <4>2
        <3>2. CASE i = m
            <4>1. m # 1 => m - 1 \in 1 .. m /\ m - 1 # m
                BY <2>1
            <4>2. m # 1 => g[m - 1] = h[m - 1]
                BY <4>1
            <4> QED BY <3>2, <4>2
        <3> QED BY <3>1, <3>2
    <2>4. FlattenEq(g, parts, m)
        BY <2>3 DEF FlattenEq
    <2> QED BY <1>2, <2>4
<1> QED BY <1>3, <1>4

LEMMA LaidNext ==
    ASSUME NEW S, NEW w \in Seq(S), NEW parts, NEW n \in Nat, n > 0, parts[n] \in Seq(S),
           NEW home, NEW at, Laid(w, parts, n - 1, home, at)
    PROVE  \E h, a : Laid(w \o parts[n], parts, n, h, a)
<1> DEFINE v == w \o parts[n]
           h == [k \in 1 .. Len(v) |-> IF k <= Len(w) THEN home[k] ELSE n]
           a == [k \in 1 .. Len(v) |-> IF k <= Len(w) THEN at[k] ELSE k - Len(w)]
<1>1. /\ Len(w) \in Nat /\ Len(parts[n]) \in Nat /\ Len(v) = Len(w) + Len(parts[n])
      /\ \A k \in 1 .. Len(v) : v[k] = IF k <= Len(w) THEN w[k] ELSE parts[n][k - Len(w)]
    BY LenProperties, ConcatProperties
<1> HIDE DEF v
<1>2. ASSUME NEW k \in 1 .. Len(v)
      PROVE  \/ k \in 1 .. Len(w) /\ h[k] = home[k] /\ a[k] = at[k] /\ v[k] = w[k]
             \/ ~(k <= Len(w)) /\ k - Len(w) \in 1 .. Len(parts[n]) /\ h[k] = n /\ a[k] = k - Len(w) /\ v[k] = parts[n][k - Len(w)]
    BY <1>1
<1>3. ASSUME NEW k \in 1 .. Len(w)
      PROVE  k \in 1 .. Len(v) /\ h[k] = home[k] /\ a[k] = at[k] /\ home[k] \in 1 .. (n - 1)
    BY <1>1 DEF Laid
<1>4. ASSUME NEW x \in 1 .. Len(parts[n])
      PROVE  Len(w) + x \in 1 .. Len(v) /\ h[Len(w) + x] = n /\ a[Len(w) + x] = x
    BY <1>1
<1> HIDE DEF h, a
<1>5. \A k \in 1 .. Len(v) : h[k] \in 1 .. n /\ a[k] \in 1 .. Len(parts[h[k]]) /\ v[k] = parts[h[k]][a[k]]
    <2> SUFFICES ASSUME NEW k \in 1 .. Len(v)
                 PROVE  h[k] \in 1 .. n /\ a[k] \in 1 .. Len(parts[h[k]]) /\ v[k] = parts[h[k]][a[k]]
        OBVIOUS
    <2>1. CASE k \in 1 .. Len(w) /\ h[k] = home[k] /\ a[k] = at[k] /\ v[k] = w[k]
        BY <1>3, <2>1 DEF Laid
    <2>2. CASE k - Len(w) \in 1 .. Len(parts[n]) /\ h[k] = n /\ a[k] = k - Len(w) /\ v[k] = parts[n][k - Len(w)]
        BY <2>2
    <2> QED BY <1>2, <2>1, <2>2
<1>6. \A j, k \in 1 .. Len(v) : j < k => h[j] < h[k] \/ (h[j] = h[k] /\ a[j] < a[k])
    <2> SUFFICES ASSUME NEW j \in 1 .. Len(v), NEW k \in 1 .. Len(v), j < k
                 PROVE  h[j] < h[k] \/ (h[j] = h[k] /\ a[j] < a[k])
        OBVIOUS
    <2>1. CASE k \in 1 .. Len(w)
        <3>1. j \in 1 .. Len(w)
            BY <1>1, <2>1
        <3>2. h[j] = home[j] /\ a[j] = at[j] /\ h[k] = home[k] /\ a[k] = at[k]
            BY <1>3, <2>1, <3>1
        <3>3. home[j] < home[k] \/ (home[j] = home[k] /\ at[j] < at[k])
            BY <2>1, <3>1 DEF Laid
        <3> QED BY <3>2, <3>3
    <2>2. CASE ~(k <= Len(w)) /\ j \in 1 .. Len(w)
        <3>1. h[k] = n /\ h[j] \in 1 .. (n - 1)
            BY <1>1, <1>2, <1>3, <2>2
        <3> QED BY <3>1
    <2>3. CASE ~(k <= Len(w)) /\ j \notin 1 .. Len(w)
        <3>1. h[k] = n /\ h[j] = n /\ a[k] = k - Len(w) /\ a[j] = j - Len(w)
            BY <1>2, <2>3
        <3> QED BY <1>1, <3>1
    <2> QED BY <1>1, <2>1, <2>2, <2>3
<1>7. \A i \in 1 .. n : \A x \in 1 .. Len(parts[i]) : \E k \in 1 .. Len(v) : h[k] = i /\ a[k] = x
    <2> SUFFICES ASSUME NEW i \in 1 .. n, NEW x \in 1 .. Len(parts[i])
                 PROVE  \E k \in 1 .. Len(v) : h[k] = i /\ a[k] = x
        OBVIOUS
    <2>1. CASE i = n
        BY <1>4, <2>1
    <2>2. CASE i # n
        <3>1. i \in 1 .. (n - 1)
            BY <2>2
        <3>2. PICK k \in 1 .. Len(w) : home[k] = i /\ at[k] = x
            BY <3>1 DEF Laid
        <3> QED BY <1>3, <3>2
    <2> QED BY <2>1, <2>2
<1>8. Laid(v, parts, n, h, a)
    BY <1>5, <1>6, <1>7 DEF Laid
<1> QED BY <1>8 DEF v

LEMMA FlattenIs ==
    ASSUME NEW S, NEW parts \in Seq(Seq(S))
    PROVE  /\ FlattenSeq(parts) \in Seq(S)
           /\ \E home, at : Laid(FlattenSeq(parts), parts, Len(parts), home, at)
<1> DEFINE n == Len(parts)
<1>1. n \in Nat /\ \A i \in 1 .. n : parts[i] \in Seq(S) /\ Len(parts[i]) \in Nat
    BY LenProperties, ElementOfSeq
<1>2. CASE n = 0
    <2>1. FlattenSeq(parts) = parts /\ parts = <<>>
        BY <1>2, EmptySeq DEF FlattenSeq
    <2>2. Laid(<<>>, parts, n, <<>>, <<>>)
        BY <1>2 DEF Laid
    <2> QED BY <2>1, <2>2, EmptySeq
<1>3. CASE n # 0
    <2> DEFINE f == CHOOSE h : FlattenEq(h, parts, n)
    <2>1. FlattenSeq(parts) = f[n]
        BY <1>3 DEF FlattenSeq, FlattenEq
    <2>2. FlattenEq(f, parts, n)
        BY <1>1, FlattenExists
    <2> HIDE DEF f, n
    <2>3. \A i \in 1 .. n : f[i] = IF i = 1 THEN parts[i] ELSE f[i - 1] \o parts[i]
        BY <2>2 DEF FlattenEq
    <2> DEFINE Good(m) == f[m] \in Seq(S) /\ \E home, at : Laid(f[m], parts, m, home, at)
               Bad == {m \in Nat : m \in 1 .. n /\ ~Good(m)}
    <2> SUFFICES Good(n)
        BY <2>1 DEF n
    <2>4. SUFFICES ASSUME Bad # {} PROVE FALSE
        BY <1>1, <1>3
    <2>5. PICK m \in Bad : \A y \in Bad : m <= y
        BY <2>4, LeastNat
    <2>6. CASE m = 1
        <3>1. f[1] = parts[1] /\ parts[1] \in Seq(S)
            BY <1>1, <2>3, <2>5, <2>6
        <3> DEFINE home == [k \in 1 .. Len(parts[1]) |-> 1]
                   at == [k \in 1 .. Len(parts[1]) |-> k]
        <3>2. Laid(parts[1], parts, 1, home, at)
            BY <1>1, <2>5, <2>6 DEF Laid
        <3> QED BY <2>5, <2>6, <3>1, <3>2
    <2>7. CASE m # 1
        <3>1. m - 1 \in Nat /\ m - 1 \in 1 .. n /\ ~(m <= m - 1) /\ m > 0
            BY <1>1, <2>5, <2>7
        <3>2. Good(m - 1)
            <4> HIDE DEF Good
            <4> QED BY <2>5, <3>1
        <3>3. f[m] = f[m - 1] \o parts[m] /\ parts[m] \in Seq(S)
            BY <1>1, <2>3, <2>5, <2>7
        <3>4. PICK home, at : Laid(f[m - 1], parts, m - 1, home, at)
            BY <3>2
        <3>5. \E h, a : Laid(f[m], parts, m, h, a)
            BY <3>1, <3>2, <3>3, <3>4, LaidNext
        <3>6. f[m] \in Seq(S)
            BY <3>2, <3>3, ConcatProperties
        <3> QED BY <2>5, <3>5, <3>6
    <2> QED BY <2>6, <2>7
<1> QED BY <1>2, <1>3

-----------------------------------------------------------------------------
(* Windows, spans and chunks.                                              *)

Wins == [file : Files, line : 1 .. MaxWindows, kind : Speech, start : Nat, win : {1, 2}]

LEMMA WindowsAre ==
    \A k : /\ IsFiniteSet(Windows(k)) /\ Windows(k) = 1 .. Cardinality(Windows(k))
           /\ Windows(k) \subseteq {1, 2} /\ 1 \in Windows(k)
<1> SUFFICES ASSUME NEW k
             PROVE  /\ IsFiniteSet(Windows(k)) /\ Windows(k) = 1 .. Cardinality(Windows(k))
                    /\ Windows(k) \subseteq {1, 2} /\ 1 \in Windows(k)
    OBVIOUS
<1>1. CASE k = "long"
    <2>1. Windows(k) = 1 .. 2
        BY <1>1 DEF Windows
    <2>2. IsFiniteSet(1 .. 2) /\ Cardinality(1 .. 2) = 2
        <3>1. 1 .. 2 = {1} \cup {2} /\ 2 \notin {1}
            OBVIOUS
        <3>2. IsFiniteSet({1}) /\ Cardinality({1}) = 1
            BY FS_Singleton
        <3>3. IsFiniteSet({1} \cup {2}) /\ Cardinality({1} \cup {2}) = Cardinality({1}) + 1
            BY <3>1, <3>2, FS_AddElement
        <3> QED BY <3>1, <3>2, <3>3
    <2> QED BY <2>1, <2>2
<1>2. CASE k # "long"
    <2>1. Windows(k) = 1 .. 1
        BY <1>2 DEF Windows
    <2>2. IsFiniteSet(1 .. 1) /\ Cardinality(1 .. 1) = 1
        <3>1. 1 .. 1 = {1}
            OBVIOUS
        <3> QED BY <3>1, FS_Singleton
    <2> QED BY <2>1, <2>2
<1> QED BY <1>1, <1>2

LEMMA WindowIs ==
    ASSUME NEW f \in Files, text[f] \in Seq(Signed), NEW i \in 1 .. Len(text[f]),
           text[f][i].kind \in Speech, NEW n \in Windows(text[f][i].kind)
    PROVE  /\ Window(f, i, n) \in Wins
           /\ Window(f, i, n).file = f /\ Window(f, i, n).line = text[f][i].id
           /\ Window(f, i, n).kind = text[f][i].kind /\ Window(f, i, n).start = 2 * (i - 1)
           /\ Window(f, i, n).win = n
<1>1. text[f][i] \in Signed
    BY ElementOfSeq
<1>2. i - 1 \in Nat /\ 2 * (i - 1) \in Nat
    BY LenProperties
<1> QED BY <1>1, <1>2, WindowsAre DEF Window, Wins, Signed, Lines

LEMMA FileWindowsIs ==
    ASSUME NEW f \in Files, text[f] \in Seq(Signed),
           NEW E \in SUBSET (1 .. Len(text[f])), \A i \in E : text[f][i].kind \in Speech
    PROVE  LET W == FileWindows(f, E)
           IN  /\ W \in Seq(Wins)
               /\ \A k \in 1 .. Len(W) : \E i \in E : \E n \in Windows(text[f][i].kind) : W[k] = Window(f, i, n)
               /\ \A j, k \in 1 .. Len(W) : j < k => W[j].start <= W[k].start
               /\ \A i \in E : \A n \in Windows(text[f][i].kind) : \E k \in 1 .. Len(W) : W[k] = Window(f, i, n)
<1> DEFINE N == Len(text[f])
           Part(i) == IF i \notin E THEN <<>>
                      ELSE [n \in 1 .. Cardinality(Windows(text[f][i].kind)) |-> Window(f, i, n)]
           parts == [i \in 1 .. N |-> Part(i)]
           W == FileWindows(f, E)
<1>1. N \in Nat
    BY LenProperties
<1>2. ASSUME NEW i \in E
      PROVE  /\ Part(i) \in Seq(Wins)
             /\ \A n : n \in 1 .. Len(Part(i)) <=> n \in Windows(text[f][i].kind)
             /\ \A n \in Windows(text[f][i].kind) : Part(i)[n] = Window(f, i, n)
    <2> DEFINE c == Cardinality(Windows(text[f][i].kind))
    <2>1. c \in Nat /\ Windows(text[f][i].kind) = 1 .. c
        BY WindowsAre, FS_CardinalityType
    <2>2. Part(i) = [n \in 1 .. c |-> Window(f, i, n)]
        OBVIOUS
    <2>3. \A n \in 1 .. c : Window(f, i, n) \in Wins
        BY <2>1, WindowIs
    <2> HIDE DEF c, Part
    <2>4. Part(i) \in Seq(Wins) /\ Len(Part(i)) = c
        BY <2>1, <2>2, <2>3, IsASeq
    <2> QED BY <2>1, <2>2, <2>4
<1>3. \A i \in 1 .. N : Part(i) \in Seq(Wins)
    <2> SUFFICES ASSUME NEW i \in 1 .. N PROVE Part(i) \in Seq(Wins)
        OBVIOUS
    <2>1. CASE i \in E
        BY <1>2, <2>1
    <2>2. CASE i \notin E
        BY <2>2, EmptySeq
    <2> QED BY <2>1, <2>2
<1>4. \A i \in 1 .. N : i \notin E => Len(Part(i)) = 0
    BY EmptySeq
<1>5. W = FlattenSeq(parts)
    BY DEF FileWindows
<1> HIDE DEF Part, W, N
<1>6. parts \in Seq(Seq(Wins)) /\ Len(parts) = N
    BY <1>1, <1>3, IsASeq
<1>7. W \in Seq(Wins) /\ Len(W) \in Nat
    BY <1>5, <1>6, FlattenIs, LenProperties
<1>8. PICK home, at : Laid(W, parts, N, home, at)
    BY <1>5, <1>6, FlattenIs
<1>9. \A i \in 1 .. N : parts[i] = Part(i)
    OBVIOUS
<1> HIDE DEF parts
<1>10. ASSUME NEW k \in 1 .. Len(W)
       PROVE  home[k] \in E /\ at[k] \in Windows(text[f][home[k]].kind) /\ W[k] = Window(f, home[k], at[k])
                /\ W[k].start = 2 * (home[k] - 1) /\ home[k] \in 1 .. N
    <2>1. home[k] \in 1 .. N /\ at[k] \in 1 .. Len(Part(home[k])) /\ W[k] = Part(home[k])[at[k]]
        BY <1>8, <1>9 DEF Laid
    <2>2. home[k] \in E
        BY <1>4, <2>1
    <2>3. at[k] \in Windows(text[f][home[k]].kind) /\ W[k] = Window(f, home[k], at[k])
        BY <1>2, <2>1, <2>2
    <2>4. Window(f, home[k], at[k]).start = 2 * (home[k] - 1)
        BY DEF Window
    <2> QED BY <2>1, <2>2, <2>3, <2>4
<1>11. \A j, k \in 1 .. Len(W) : j < k => W[j].start <= W[k].start
    <2> SUFFICES ASSUME NEW j \in 1 .. Len(W), NEW k \in 1 .. Len(W), j < k
                 PROVE  W[j].start <= W[k].start
        OBVIOUS
    <2>1. home[j] \in Int /\ home[k] \in Int /\ home[j] <= home[k]
        <3>1. home[j] \in 1 .. N /\ home[k] \in 1 .. N
            BY <1>10
        <3>2. home[j] < home[k] \/ home[j] = home[k]
            BY <1>8 DEF Laid
        <3> QED BY <1>1, <3>1, <3>2
    <2> QED BY <1>10, <2>1
<1>12. ASSUME NEW i \in E, NEW n \in Windows(text[f][i].kind)
       PROVE  \E k \in 1 .. Len(W) : W[k] = Window(f, i, n)
    <2>1. i \in 1 .. N /\ n \in 1 .. Len(parts[i])
        BY <1>2, <1>9 DEF N
    <2>2. PICK k \in 1 .. Len(W) : home[k] = i /\ at[k] = n
        BY <1>8, <2>1 DEF Laid
    <2> QED BY <1>10, <2>2
<1> QED BY <1>7, <1>10, <1>11, <1>12 DEF W

\* What a plan that reads every planned file from its mark cuts.
LEMMA AllWindowsIs ==
    ASSUME Shape, LinesAreCounted, OffsetsAreEven,
           NEW planned \in SUBSET Files, \A f \in planned : Grown(f)
    PROVE  LET ws == AllWindows(planned)
               E(f) == parse_file(f, ByteStart(f)).entries
           IN  /\ ws \in Seq(Wins)
               /\ \A k \in 1 .. Len(ws) : \E f \in planned : \E i \in E(f) :
                     \E n \in Windows(text[f][i].kind) : ws[k] = Window(f, i, n)
               /\ \A j, k \in 1 .. Len(ws) : j < k /\ ws[j].file = ws[k].file => ws[j].start <= ws[k].start
               /\ \A f \in planned : \A i \in E(f) : \A n \in Windows(text[f][i].kind) :
                     \E k \in 1 .. Len(ws) : ws[k] = Window(f, i, n)
<1> DEFINE E(f) == parse_file(f, ByteStart(f)).entries
           N == Len(FileOrder)
           Part(k) == IF FileOrder[k] \notin planned THEN <<>> ELSE FileWindows(FileOrder[k], E(FileOrder[k]))
           parts == [k \in 1 .. N |-> Part(k)]
           ws == AllWindows(planned)
<1>1. N \in Nat /\ \A k \in 1 .. N : FileOrder[k] \in Files
    BY IngestAssumption, LenProperties, ElementOfSeq
<1>2. \A f \in Files : text[f] \in Seq(Signed) /\ Len(text[f]) \in Nat
    BY LenProperties DEF Shape
<1>3. \A f \in planned : E(f) \in SUBSET (1 .. Len(text[f])) /\ \A i \in E(f) : text[f][i].kind \in Speech
    <2> SUFFICES ASSUME NEW f \in planned
                 PROVE  E(f) \in SUBSET (1 .. Len(text[f])) /\ \A i \in E(f) : text[f][i].kind \in Speech
        OBVIOUS
    <2>1. Even(ByteStart(f))
        <3>1. Even(0)
            BY DEF Even
        <3> QED BY <3>1 DEF ByteStart, OffsetsAreEven
    <2>2. ByteStart(f) < Size(f)
        <3>1. Size(f) > ByteStart(f) /\ Size(f) \in Nat /\ ByteStart(f) \in Nat
            BY <1>2, <2>1, FileIs DEF Grown, Even, Shape, LinesAreCounted
        <3> QED BY <3>1
    <2>3. E(f) \subseteq 1 .. Whole(f) /\ \A i \in E(f) : text[f][i].kind \in Speech
        BY <1>2, <2>1, <2>2, ParseIs DEF Shape, LinesAreCounted
    <2>4. Whole(f) \in 0 .. Len(text[f]) /\ Len(text[f]) \in Nat
        BY <1>2, FileIs DEF Shape, LinesAreCounted
    <2>5. 1 .. Whole(f) \subseteq 1 .. Len(text[f])
        BY <2>4
    <2> QED BY <2>3, <2>5
<1>4. ws = FlattenSeq(parts)
    BY DEF AllWindows
<1>5. \A k \in 1 .. N : Part(k) \in Seq(Wins) /\ (FileOrder[k] \notin planned => Len(Part(k)) = 0)
    <2> HIDE DEF E
    <2> QED BY <1>2, <1>3, EmptySeq, FileWindowsIs
<1>6. \A k \in 1 .. N : FileOrder[k] \in planned => Part(k) = FileWindows(FileOrder[k], E(FileOrder[k]))
    OBVIOUS
<1> HIDE DEF Part, E, ws, N
<1>7. parts \in Seq(Seq(Wins)) /\ Len(parts) = N
    BY <1>1, <1>5, IsASeq
<1>8. ws \in Seq(Wins) /\ Len(ws) \in Nat
    BY <1>4, <1>7, FlattenIs, LenProperties
<1>9. PICK home, at : Laid(ws, parts, N, home, at)
    BY <1>4, <1>7, FlattenIs
<1>10. \A k \in 1 .. N : parts[k] = Part(k)
    OBVIOUS
<1> HIDE DEF parts
<1>11. ASSUME NEW k \in 1 .. Len(ws)
       PROVE  LET f == FileOrder[home[k]]
              IN  /\ home[k] \in 1 .. N /\ f \in planned
                  /\ at[k] \in 1 .. Len(FileWindows(f, E(f))) /\ ws[k] = FileWindows(f, E(f))[at[k]]
                  /\ \E i \in E(f) : \E n \in Windows(text[f][i].kind) : ws[k] = Window(f, i, n)
                  /\ ws[k].file = f
    <2> DEFINE f == FileOrder[home[k]]
    <2>1. home[k] \in 1 .. N /\ at[k] \in 1 .. Len(Part(home[k])) /\ ws[k] = Part(home[k])[at[k]]
        BY <1>9, <1>10 DEF Laid
    <2>2. f \in planned
        BY <1>5, <2>1
    <2> HIDE DEF f
    <2>3. Part(home[k]) = FileWindows(f, E(f))
        BY <1>6, <2>1, <2>2 DEF f
    <2>4. PICK i \in E(f) : \E n \in Windows(text[f][i].kind) : ws[k] = Window(f, i, n)
        BY <1>2, <1>3, <2>1, <2>2, <2>3, FileWindowsIs
    <2>5. ws[k].file = f
        BY <2>4 DEF Window
    <2> QED BY <2>1, <2>2, <2>3, <2>4, <2>5 DEF f
<1>12. \A j, k \in 1 .. Len(ws) : j < k /\ ws[j].file = ws[k].file => ws[j].start <= ws[k].start
    <2> SUFFICES ASSUME NEW j \in 1 .. Len(ws), NEW k \in 1 .. Len(ws), j < k, ws[j].file = ws[k].file
                 PROVE  ws[j].start <= ws[k].start
        OBVIOUS
    <2>1. home[j] = home[k]
        <3>1. home[j] \in 1 .. Len(FileOrder) /\ home[k] \in 1 .. Len(FileOrder)
            BY <1>11 DEF N
        <3>2. FileOrder[home[j]] = FileOrder[home[k]]
            BY <1>11
        <3> QED BY <3>1, <3>2, IngestAssumption
    <2>2. at[j] < at[k]
        <3>1. home[j] \in Int
            BY <1>11
        <3> QED BY <1>9, <2>1, <3>1 DEF Laid
    <2> DEFINE f == FileOrder[home[k]]
               W == FileWindows(f, E(f))
    <2>3. f \in planned /\ at[j] \in 1 .. Len(W) /\ at[k] \in 1 .. Len(W) /\ ws[j] = W[at[j]] /\ ws[k] = W[at[k]]
        BY <1>11, <2>1
    <2>4. f \in Files /\ text[f] \in Seq(Signed) /\ E(f) \in SUBSET (1 .. Len(text[f])) /\ \A i \in E(f) : text[f][i].kind \in Speech
        BY <1>2, <1>3, <2>3
    <2> HIDE DEF f
    <2>5. \A a, b \in 1 .. Len(W) : a < b => W[a].start <= W[b].start
        BY <2>4, FileWindowsIs
    <2> QED BY <2>2, <2>3, <2>5
<1>13. ASSUME NEW f \in planned, NEW i \in E(f), NEW n \in Windows(text[f][i].kind)
       PROVE  \E k \in 1 .. Len(ws) : ws[k] = Window(f, i, n)
    <2>1. PICK h \in 1 .. N : FileOrder[h] = f
        BY IngestAssumption DEF N
    <2>2. PICK x \in 1 .. Len(FileWindows(f, E(f))) : FileWindows(f, E(f))[x] = Window(f, i, n)
        BY <1>2, <1>3, FileWindowsIs
    <2>3. parts[h] = FileWindows(f, E(f))
        BY <1>6, <1>10, <2>1
    <2>4. PICK k \in 1 .. Len(ws) : home[k] = h /\ at[k] = x
        BY <1>9, <2>1, <2>2, <2>3 DEF Laid
    <2>5. ws[k] = FileWindows(f, E(f))[x]
        BY <1>11, <2>1, <2>4
    <2> QED BY <2>2, <2>5
<1>14. \A k \in 1 .. Len(ws) : \E f \in planned : \E i \in E(f) : \E n \in Windows(text[f][i].kind) : ws[k] = Window(f, i, n)
    BY <1>11
<1> QED BY <1>8, <1>12, <1>13, <1>14 DEF ws, E
\* The span of a window begins at or before it, in the same file.
LEMMA SpanIs ==
    ASSUME NEW ws \in Seq(Wins), NEW S \in SpanStarts(ws), NEW k \in 1 .. Len(ws)
    PROVE  /\ SpanOf(S, k) \in S /\ SpanOf(S, k) \in 1 .. Len(ws) /\ SpanOf(S, k) <= k
           /\ ws[SpanOf(S, k)].file = ws[k].file
<1> DEFINE N == Len(ws)
           b == SpanOf(S, k)
<1>1. N \in Nat /\ k \in Nat /\ 1 \in S /\ S \subseteq 1 .. N
    BY LenProperties DEF SpanStarts
<1> DEFINE Gaps == {x \in Nat : k - x \in S}
<1>2. k - 1 \in Gaps
    BY <1>1
<1>3. PICK x \in Gaps : \A y \in Gaps : x <= y
    BY <1>2, LeastNat
<1>4. k - x \in S /\ k - x <= k
    BY <1>1, <1>3
<1>5. \A c \in S : c <= k => c <= k - x
    <2> SUFFICES ASSUME NEW c \in S, c <= k PROVE c <= k - x
        OBVIOUS
    <2>1. c \in Nat /\ k - c \in Nat /\ k - (k - c) = c
        BY <1>1
    <2>2. k - c \in Gaps
        BY <2>1
    <2>3. x \in Nat
        OBVIOUS
    <2>4. x <= k - c
        BY <1>3, <2>2
    <2> HIDE DEF Gaps
    <2> QED BY <1>1, <2>1, <2>3, <2>4
<1>6. b \in S /\ b <= k /\ \A c \in S : c <= k => c <= b
    <2>1. \E d \in S : d <= k /\ \A c \in S : c <= k => c <= d
        BY <1>4, <1>5
    <2> QED BY <2>1 DEF SpanOf
<1> HIDE DEF b, Gaps
<1>7. b \in 1 .. N
    BY <1>1, <1>6
<1> DEFINE Bad == {j \in Nat : j \in b .. k /\ ws[j].file # ws[b].file}
<1>8. ASSUME Bad # {} PROVE FALSE
    <2>1. PICK j \in Bad : \A y \in Bad : j <= y
        BY <1>8, LeastNat
    <2>2. j # b /\ j - 1 \in Nat /\ j - 1 \in b .. k /\ ~(j <= j - 1) /\ j \in 2 .. N
        BY <1>1, <1>7, <2>1
    <2>3. ws[j - 1].file = ws[b].file
        BY <2>1, <2>2
    <2>4. MustBreak(ws, j)
        BY <2>1, <2>3 DEF MustBreak
    <2>5. j \in S
        BY <2>2, <2>4 DEF SpanStarts
    <2>6. j <= k /\ ~(j <= b)
        BY <1>7, <2>1, <2>2
    <2> QED BY <1>6, <2>5, <2>6
<1>9. k \in b .. k
    BY <1>1, <1>6, <1>7
<1>10. ws[k].file = ws[b].file
    BY <1>1, <1>8, <1>9
<1> QED BY <1>6, <1>7, <1>10 DEF b

LEMMA WorklistIs ==
    ASSUME NEW ws \in Seq(Wins), NEW S \in SpanStarts(ws), NEW C \in ChunkStarts(Kept(ws, S))
    PROVE  LET P == Worklist(ws, S, C)
               Drop == {ws[k].line : k \in {j \in 1 .. Len(ws) : SpanOf(S, j) \notin Kept(ws, S)}}
           IN  /\ Cardinality(C) \in Nat /\ P \subseteq Pieces /\ Drop \subseteq 1 .. MaxWindows
               /\ \A p \in P : p.chunk \in 1 .. Cardinality(C) /\ \E k, b \in 1 .. Len(ws) :
                     /\ ws[b].file = ws[k].file /\ p.file = ws[k].file
                     /\ p.line = ws[k].line /\ p.start = ws[b].start
               /\ \A k \in 1 .. Len(ws) : ws[k].line \in Drop \/ \E p \in P :
                     /\ p.file = ws[k].file /\ p.line = ws[k].line /\ p.win = ws[k].win
                     /\ p.chunk \in 1 .. Cardinality(C)
                     /\ \E b \in 1 .. k : ws[b].file = ws[k].file /\ p.start = ws[b].start
<1> DEFINE N == Len(ws)
           K == Kept(ws, S)
           Live == {j \in 1 .. N : SpanOf(S, j) \in K}
           Chunk(k) == Cardinality({c \in C : c <= SpanOf(S, k)})
           Piece(k) == [file |-> ws[k].file, line |-> ws[k].line, win |-> ws[k].win,
                        start |-> ws[SpanOf(S, k)].start, chunk |-> Chunk(k)]
           P == Worklist(ws, S, C)
           Drop == {ws[k].line : k \in {j \in 1 .. N : SpanOf(S, j) \notin K}}
<1>1. N \in Nat /\ \A k \in 1 .. N : ws[k] \in Wins
    BY LenProperties, ElementOfSeq
<1>2. K \subseteq 1 .. N /\ C \subseteq K
    BY DEF Kept, SpanStarts, ChunkStarts
<1>3. IsFiniteSet(C) /\ Cardinality(C) \in Nat
    <2>1. C \in SUBSET Nat /\ \A c \in C : c <= N
        BY <1>1, <1>2
    <2> QED BY <1>1, <2>1, FS_BoundedSetOfNaturals, FS_CardinalityType
<1>4. P = {Piece(k) : k \in Live}
    BY DEF Worklist
<1>5. ASSUME NEW k \in Live PROVE Chunk(k) \in 1 .. Cardinality(C)
    <2> DEFINE D == {c \in C : c <= SpanOf(S, k)}
    <2>1. K # {} /\ K \subseteq Nat
        BY <1>1, <1>2
    <2>2. Least(K) \in C /\ Least(K) <= SpanOf(S, k)
        BY <2>1, LeastIs DEF ChunkStarts
    <2>3. D \in SUBSET C /\ Least(K) \in D
        BY <2>2
    <2> HIDE DEF D
    <2>4. IsFiniteSet(D) /\ Cardinality(D) <= Cardinality(C) /\ Cardinality(D) \in Nat
        BY <1>3, <2>3, FS_Subset, FS_CardinalityType
    <2>5. Cardinality(D) # 0
        BY <2>3, <2>4, FS_EmptySet
    <2>6. Cardinality(D) \in 1 .. Cardinality(C)
        BY <1>3, <2>4, <2>5
    <2> QED BY <2>6 DEF D
<1> HIDE DEF P, K, Chunk, N
<1>6. ASSUME NEW k \in 1 .. N
      PROVE  /\ SpanOf(S, k) \in 1 .. N /\ SpanOf(S, k) <= k /\ ws[SpanOf(S, k)].file = ws[k].file
             /\ ws[k] \in Wins /\ ws[SpanOf(S, k)] \in Wins
    BY <1>1, SpanIs DEF N
<1>7. ASSUME NEW k \in Live
      PROVE  /\ Piece(k) \in P /\ Piece(k) \in Pieces
             /\ Piece(k).chunk \in 1 .. Cardinality(C) /\ Piece(k).file = ws[k].file /\ Piece(k).line = ws[k].line
             /\ Piece(k).win = ws[k].win /\ Piece(k).start = ws[SpanOf(S, k)].start
    <2>1. Chunk(k) \in 1 .. Cardinality(C) /\ Chunk(k) \in Nat
        BY <1>3, <1>5
    <2>2. ws[k] \in Wins /\ ws[SpanOf(S, k)] \in Wins
        BY <1>6
    <2> QED BY <1>4, <2>1, <2>2 DEF Pieces, Wins
<1>8. P \subseteq Pieces
    BY <1>4, <1>7
<1>9. Drop \subseteq 1 .. MaxWindows
    BY <1>1 DEF Wins
<1>10. ASSUME NEW p \in P
       PROVE  p.chunk \in 1 .. Cardinality(C) /\ \E k, b \in 1 .. N :
                     /\ ws[b].file = ws[k].file /\ p.file = ws[k].file
                     /\ p.line = ws[k].line /\ p.start = ws[b].start
    <2>1. PICK k \in Live : p = Piece(k)
        BY <1>4
    <2> HIDE DEF Piece
    <2>2. k \in 1 .. N
        OBVIOUS
    <2> HIDE DEF Live
    <2> QED BY <1>6, <1>7, <2>1, <2>2
<1>11. ASSUME NEW k \in 1 .. N
       PROVE  ws[k].line \in Drop \/ \E p \in P :
                     /\ p.file = ws[k].file /\ p.line = ws[k].line /\ p.win = ws[k].win
                     /\ p.chunk \in 1 .. Cardinality(C)
                     /\ \E b \in 1 .. k : ws[b].file = ws[k].file /\ p.start = ws[b].start
    <2>1. CASE SpanOf(S, k) \notin K
        BY <2>1
    <2>2. CASE SpanOf(S, k) \in K
        <3>1. k \in Live
            BY <2>2
        <3> HIDE DEF Piece, Live
        <3>2. SpanOf(S, k) \in 1 .. k
            BY <1>1, <1>6
        <3> QED BY <1>6, <1>7, <3>1, <3>2
    <2> QED BY <2>1, <2>2
<1> QED BY <1>3, <1>8, <1>9, <1>10, <1>11 DEF P, K, N

-----------------------------------------------------------------------------
(* What the steps have in common.                                          *)

LEMMA NoRunIs ==
    /\ NoRun \in RunDirs /\ NoRun.phase = "none" /\ DOMAIN NoRun.ceil = {} /\ NoRun.pieces = {}
    /\ NoRun.chunks = 0 /\ ~NoRun.spans
    /\ NoRun.out = {} /\ NoRun.failed = {} /\ NoRun.got = {} /\ NoRun.unext = {}
<1>1. <<>> \in [{} -> Nat]
    OBVIOUS
<1>2. {} \in SUBSET Files
    OBVIOUS
<1>3. <<>> \in UNION {[S -> Nat] : S \in SUBSET Files}
    BY <1>1, <1>2
<1>4. DOMAIN <<>> = {}
    OBVIOUS
<1> QED BY <1>3, <1>4 DEF NoRun, RunDirs, Phases

LEMMA EmptyDirIsSound ==
    ASSUME NEW d, d.phase \in {"none", "planning"}, DOMAIN d.ceil = {}, d.pieces = {}, d.chunks = 0, ~d.spans,
           d.out = {}, d.failed = {}, d.got = {}, d.unext = {}
    PROVE  DirIsSound(d) /\ CeilsFit(d)
    BY DEF DirIsSound, ListsAreOfChunks, SubmitIsComplete, DirIsSpent, DirIsEven, CeilsFit

LEMMA RunIs ==
    ASSUME RunInv, NEW r \in Runs
    PROVE  run[r] \in RunDirs /\ DirIsSound(run[r]) /\ CeilsFit(run[r])
    BY DEF RunInv, Shape

LEMMA FileOf ==
    ASSUME RunInv, NEW f \in Files
    PROVE  text[f] \in Seq(Signed) /\ torn[f] \in BOOLEAN /\ (torn[f] => text[f] # <<>>)
    BY DEF RunInv, Shape, LinesAreCounted

\* A step that changes at most one run directory, and no file and no mark.
LEMMA RunStep ==
    ASSUME RunInv, NEW r \in Runs, NEW d \in RunDirs, run' = [run EXCEPT ![r] = d],
           UNCHANGED <<files, marks>>,
           lock' \in Runs \cup {None}, ext' \in [Extractors -> Extracts], faults' \in 0 .. MaxFaults,
           posted' \subseteq (1 .. MaxWindows) \X {1, 2}, screened' \subseteq 1 .. MaxWindows,
           posted \subseteq posted',
           flight' \subseteq Advances,
           \A m \in flight' : Even(m.off) /\ (~cut[m.file] => Stored(m.file, m)),
           DirIsSound(d)', CeilsFit(d),
           \A e \in Extractors : ExtractIsWired(ext[e])'
    PROVE  RunInv'
<1>1. Shape'
    BY DEF RunInv, Shape, files
<1>2. LinesAreCounted'
    BY DEF RunInv, LinesAreCounted, files
<1>3. OffsetsAreEven'
    BY DEF RunInv, OffsetsAreEven
<1>4. \A f \in Files : \A m : Stored(f, m)' <=> Stored(f, m)
    BY DEF Stored, Size, prefix_sha256, files
<1>5. HashesHold'
    BY <1>4 DEF RunInv, HashesHold, files
<1>6. \A q \in Runs : (DirIsSound(run[q]) /\ CeilsFit(run[q]))'
    <2> SUFFICES ASSUME NEW q \in Runs PROVE DirIsSound(run[q])' /\ CeilsFit(run[q])'
        OBVIOUS
    <2>1. CASE q = r
        <3>1. run'[q] = d
            BY <2>1 DEF RunInv, Shape
        <3>2. DirIsSound(run[q])'
            BY <3>1 DEF DirIsSound, ListsAreOfChunks, SubmitIsComplete, DirIsSpent, DirIsEven, WindowsOf
        <3>3. CeilsFit(run[q])'
            BY <3>1 DEF CeilsFit, Size, files
        <3> QED BY <3>2, <3>3
    <2>2. CASE q # r
        <3>1. run'[q] = run[q]
            BY <2>2 DEF RunInv, Shape
        <3>2. DirIsSound(run[q]) /\ CeilsFit(run[q])
            BY RunIs
        <3>3. DirIsSound(run[q])'
            BY <3>1, <3>2 DEF DirIsSound, ListsAreOfChunks, SubmitIsComplete, DirIsSpent, DirIsEven, WindowsOf
        <3>4. CeilsFit(run[q])'
            BY <3>1, <3>2 DEF CeilsFit, Size, files
        <3> QED BY <3>3, <3>4
    <2> QED BY <2>1, <2>2
<1> QED BY <1>1, <1>2, <1>3, <1>5, <1>6 DEF RunInv

\* Extracts are as well off as they were, if their run keeps its chunks.
LEMMA ExtractsKept ==
    ASSUME RunInv, NEW r \in Runs, NEW d, run' = [run EXCEPT ![r] = d], ext' = ext,
           \/ \A e \in Extractors : ext[e].of # r
           \/ d.chunks = run[r].chunks /\ d.phase \notin {"none", "planning"}
    PROVE  \A e \in Extractors : ExtractIsWired(ext[e])'
<1> SUFFICES ASSUME NEW e \in Extractors PROVE ExtractIsWired(ext[e])'
    OBVIOUS
<1>1. ExtractIsWired(ext[e]) /\ ext[e] \in Extracts /\ run \in [Runs -> RunDirs]
    BY DEF RunInv, Shape
<1>2. CASE ext[e].of = r
    <2>1. run'[r] = d
        BY <1>1
    <2> QED BY <1>1, <1>2, <2>1 DEF ExtractIsWired
<1>3. CASE ext[e].of # r
    <2>1. ext[e].of # None => run'[ext[e].of] = run[ext[e].of]
        BY <1>1, <1>3 DEF Extracts
    <2> QED BY <1>1, <2>1 DEF ExtractIsWired
<1> QED BY <1>2, <1>3

\* More was posted.
LEMMA SoundStays ==
    ASSUME NEW d, DirIsSound(d), posted \subseteq posted'
    PROVE  DirIsSound(d)'
    BY DEF DirIsSound, ListsAreOfChunks, SubmitIsComplete, DirIsSpent, DirIsEven, WindowsOf

LEMMA FlightIs ==
    ASSUME RunInv, NEW m \in flight
    PROVE  m \in Advances /\ Even(m.off) /\ (~cut[m.file] => Stored(m.file, m))
    BY DEF RunInv, Shape, OffsetsAreEven, HashesHold, Advances

LEMMA MoreFaults == ASSUME RunInv, faults' = faults \/ (faults < MaxFaults /\ faults' = faults + 1) PROVE faults' \in 0 .. MaxFaults
    BY IngestAssumption DEF RunInv, Shape

-----------------------------------------------------------------------------
(* Plans.                                                                  *)

LEMMA InitRun == Init => RunInv
<1> SUFFICES ASSUME Init PROVE RunInv
    OBVIOUS
<1>1. <<>> \in Seq(Signed) /\ Len(<<>>) = 0
    BY EmptySeq
<1>2. NoHash \in Hash
    BY <1>1 DEF NoHash, Hash
<1>3. NoExt \in Extracts /\ NoExt.of = None /\ NoExt.todo = {} /\ NoExt.wrote = {}
    BY DEF NoExt, Extracts
<1>4. Shape
    BY <1>1, <1>2, <1>3, NoRunIs, IngestAssumption DEF Init, Shape
<1>5. LinesAreCounted
    BY <1>1 DEF Init, LinesAreCounted
<1>6. OffsetsAreEven
    <2>1. Even(0)
        BY DEF Even
    <2> QED BY <2>1 DEF Init, OffsetsAreEven
<1>7. HashesHold
    <2> SUFFICES ASSUME NEW f \in Files PROVE Stored(f, marks[f])
        BY DEF Init, HashesHold
    <2>1. Size(f) = 0 /\ marks[f].off = 0 /\ marks[f].hash = NoHash
        BY <1>1 DEF Init, Size
    <2>2. prefix_sha256(f, 0) = NoHash
        <3>1. SubSeq(<<>>, 1, 0) = <<>>
            BY SubSeqEmpty
        <3>2. prefix_sha256(f, 0) = [of |-> SubSeq(<<>>, 1, (0 + 1) \div 2), bytes |-> 0]
            BY <2>1 DEF prefix_sha256, Init
        <3>3. (0 + 1) \div 2 = 0
            OBVIOUS
        <3> QED BY <3>1, <3>2, <3>3 DEF NoHash
    <2> QED BY <2>1, <2>2 DEF Stored
<1>8. \A r \in Runs : DirIsSound(run[r]) /\ CeilsFit(run[r])
    BY NoRunIs, EmptyDirIsSound DEF Init
<1>9. \A e \in Extractors : ExtractIsWired(ext[e])
    BY <1>3 DEF Init, ExtractIsWired
<1> QED BY <1>4, <1>5, <1>6, <1>7, <1>8, <1>9 DEF RunInv

LEMMA PlanStartRun ==
    ASSUME RunInv, NEW r \in Runs, NEW scope \in SUBSET Files, PlanStart(r, scope)
    PROVE  RunInv'
<1> DEFINE d == [NoRun EXCEPT !.phase = "planning", !.scope = scope]
<1>1. /\ d \in RunDirs /\ d.phase = "planning" /\ DOMAIN d.ceil = {} /\ d.pieces = {}
      /\ d.chunks = 0 /\ ~d.spans
      /\ d.out = {} /\ d.failed = {} /\ d.got = {} /\ d.unext = {}
    BY NoRunIs DEF RunDirs, Phases
<1>2. run' = [run EXCEPT ![r] = d] /\ lock' = r
    BY DEF PlanStart, acquire
<1> HIDE DEF d
<1>3. DirIsSound(d) /\ CeilsFit(d)
    BY <1>1, EmptyDirIsSound
<1>4. UNCHANGED <<files, marks, ext, flight, faults, ledger>> /\ \A e \in Extractors : ext[e].of # r
    BY DEF PlanStart
<1>5. DirIsSound(d)'
    BY <1>3, <1>4, SoundStays DEF ledger
<1>6. \A e \in Extractors : ExtractIsWired(ext[e])'
    BY <1>2, <1>4, ExtractsKept
<1> QED BY <1>1, <1>2, <1>3, <1>4, <1>5, <1>6, FlightIs, RunStep DEF RunInv, Shape, ledger

\* A run directory that is made anew.
LEMMA ForgetRun ==
    ASSUME RunInv, NEW r \in Runs, PlanFail(r) \/ Abandon(r)
    PROVE  RunInv'
<1>1. run' = [run EXCEPT ![r] = NoRun] /\ lock' \in {lock, None} /\ faults' \in 0 .. MaxFaults
      /\ UNCHANGED <<files, marks, ext, flight, ledger>>
    BY MoreFaults DEF PlanFail, Abandon
<1>2. \A e \in Extractors : ext[e].of # r
    <2>1. CASE PlanFail(r)
        <3>1. run[r].phase = "planning" /\ r # None
            BY <2>1, IngestAssumption DEF PlanFail
        <3> QED BY <3>1 DEF RunInv, ExtractIsWired
    <2> QED BY <2>1 DEF Abandon
<1>3. DirIsSound(NoRun) /\ CeilsFit(NoRun)
    BY NoRunIs, EmptyDirIsSound
<1>4. DirIsSound(NoRun)'
    BY <1>1, <1>3, SoundStays DEF ledger
<1>5. \A e \in Extractors : ExtractIsWired(ext[e])'
    BY <1>1, <1>2, ExtractsKept
<1> QED BY <1>1, <1>3, <1>4, <1>5, NoRunIs, FlightIs, RunStep DEF RunInv, Shape, ledger

LEMMA StartIs ==
    ASSUME RunInv, NEW f \in Files, Grown(f)
    PROVE  /\ Even(ByteStart(f)) /\ ByteStart(f) < Size(f)
           /\ Even(parse_file(f, ByteStart(f)).read_to) /\ parse_file(f, ByteStart(f)).read_to <= 2 * Whole(f)
           /\ parse_file(f, ByteStart(f)).entries \subseteq 1 .. Whole(f)
           /\ parse_file(f, ByteStart(f)).entries \subseteq 1 .. Len(text[f])
<1>1. Even(ByteStart(f))
    <2>1. Even(0)
        BY DEF Even
    <2> QED BY <2>1 DEF ByteStart, RunInv, OffsetsAreEven
<1>2. Size(f) \in Nat /\ Whole(f) \in 0 .. Len(text[f]) /\ Len(text[f]) \in Nat
    BY FileOf, FileIs
<1>3. ByteStart(f) < Size(f)
    <2>1. ByteStart(f) \in Nat /\ Size(f) > ByteStart(f)
        BY <1>1 DEF Grown, Even
    <2> QED BY <1>2, <2>1
<1>4. 1 .. Whole(f) \subseteq 1 .. Len(text[f])
    BY <1>2
<1> QED BY <1>1, <1>3, <1>4, FileOf, ParseIs

\* The worklist of a plan: where its pieces come from, and that no entry is
\* missing from it but those the tripwire dropped.
Planned(r) == {f \in run[r].scope : Grown(f)}
Entries(f) == parse_file(f, ByteStart(f)).entries

PlansAs(r, d) ==
    /\ run' = [run EXCEPT ![r] = d] /\ d \in RunDirs
    /\ d.phase = "ready" /\ d.spans /\ d.out = run[r].out /\ d.failed = run[r].failed
    /\ d.got = run[r].got /\ d.unext = run[r].unext
    /\ d.ceil = [f \in Planned(r) |-> parse_file(f, ByteStart(f)).read_to]
    /\ \A p \in d.pieces : \E f \in Planned(r) : \E i, j \in Entries(f) :
          p.file = f /\ p.line = text[f][i].id /\ p.start = 2 * (j - 1)
    /\ \A f \in Planned(r) : \A i \in Entries(f) : \A n \in Windows(text[f][i].kind) :
          \/ text[f][i].id \in screened'
          \/ \E p \in d.pieces : /\ p.file = f /\ p.line = text[f][i].id /\ p.win = n
                                 /\ p.start <= 2 * (i - 1) /\ p.chunk \in 1 .. d.chunks
    /\ screened \subseteq screened' /\ screened' \subseteq 1 .. MaxWindows

LEMMA PlanReadIs ==
    ASSUME RunInv, NEW r \in Runs, PlanRead(r)
    PROVE  \E d : PlansAs(r, d)
<1> DEFINE ws == AllWindows(Planned(r))
<1>1. Planned(r) \in SUBSET Files /\ \A f \in Planned(r) : Grown(f)
    BY RunIs DEF Planned, RunDirs
<1>2. PICK S \in SpanStarts(ws) : \E C \in ChunkStarts(Kept(ws, S)) :
              /\ run' = [run EXCEPT ![r] =
                    [@ EXCEPT
                        !.phase = "ready",
                        !.ceil = [f \in Planned(r) |-> parse_file(f, ByteStart(f)).read_to],
                        !.pieces = Worklist(ws, S, C),
                        !.chunks = Cardinality(C),
                        !.spans = TRUE]]
              /\ screened' = screened \cup
                    {ws[k].line : k \in {j \in 1 .. Len(ws) : SpanOf(S, j) \notin Kept(ws, S)}}
    BY DEF PlanRead, Planned
<1>3. PICK C \in ChunkStarts(Kept(ws, S)) :
              /\ run' = [run EXCEPT ![r] =
                    [@ EXCEPT
                        !.phase = "ready",
                        !.ceil = [f \in Planned(r) |-> parse_file(f, ByteStart(f)).read_to],
                        !.pieces = Worklist(ws, S, C),
                        !.chunks = Cardinality(C),
                        !.spans = TRUE]]
              /\ screened' = screened \cup
                    {ws[k].line : k \in {j \in 1 .. Len(ws) : SpanOf(S, j) \notin Kept(ws, S)}}
    BY <1>2
<1> DEFINE P == Worklist(ws, S, C)
           Drop == {ws[k].line : k \in {j \in 1 .. Len(ws) : SpanOf(S, j) \notin Kept(ws, S)}}
           ceil == [f \in Planned(r) |-> parse_file(f, ByteStart(f)).read_to]
           d == [run[r] EXCEPT !.phase = "ready", !.ceil = ceil, !.pieces = P, !.chunks = Cardinality(C), !.spans = TRUE]
<1>4. /\ ws \in Seq(Wins)
      /\ \A k \in 1 .. Len(ws) : \E f \in Planned(r) : \E i \in Entries(f) :
            \E n \in Windows(text[f][i].kind) : ws[k] = Window(f, i, n)
      /\ \A j, k \in 1 .. Len(ws) : j < k /\ ws[j].file = ws[k].file => ws[j].start <= ws[k].start
      /\ \A f \in Planned(r) : \A i \in Entries(f) : \A n \in Windows(text[f][i].kind) :
            \E k \in 1 .. Len(ws) : ws[k] = Window(f, i, n)
    BY <1>1, AllWindowsIs DEF RunInv, Entries
<1> HIDE DEF ws
<1>5. /\ Cardinality(C) \in Nat /\ P \subseteq Pieces /\ Drop \subseteq 1 .. MaxWindows
      /\ \A p \in P : p.chunk \in 1 .. Cardinality(C) /\ \E k, b \in 1 .. Len(ws) :
            /\ ws[b].file = ws[k].file /\ p.file = ws[k].file
            /\ p.line = ws[k].line /\ p.start = ws[b].start
      /\ \A k \in 1 .. Len(ws) : ws[k].line \in Drop \/ \E p \in P :
            /\ p.file = ws[k].file /\ p.line = ws[k].line /\ p.win = ws[k].win
            /\ p.chunk \in 1 .. Cardinality(C)
            /\ \E b \in 1 .. k : ws[b].file = ws[k].file /\ p.start = ws[b].start
    BY <1>4, WorklistIs
<1>6. run' = [run EXCEPT ![r] = d] /\ screened' = screened \cup Drop
    BY <1>3
<1> HIDE DEF P, Drop
<1>7. ceil \in UNION {[T -> Nat] : T \in SUBSET Files}
    <2>1. \A f \in Planned(r) : parse_file(f, ByteStart(f)).read_to \in Nat
        BY <1>1, StartIs DEF Even
    <2>2. ceil \in [Planned(r) -> Nat]
        BY <2>1
    <2> QED BY <1>1, <2>2
<1> HIDE DEF ceil
<1>8. /\ d \in RunDirs /\ d.phase = "ready" /\ d.spans /\ d.out = run[r].out /\ d.failed = run[r].failed
      /\ d.got = run[r].got /\ d.unext = run[r].unext /\ d.ceil = ceil /\ d.pieces = P /\ d.chunks = Cardinality(C)
    BY <1>5, <1>7, RunIs DEF RunDirs, Phases
<1> HIDE DEF d
<1>9. ASSUME NEW k \in 1 .. Len(ws)
      PROVE  \E f \in Planned(r) : \E i \in Entries(f) : \E n \in Windows(text[f][i].kind) :
                ws[k].file = f /\ ws[k].line = text[f][i].id /\ ws[k].start = 2 * (i - 1) /\ ws[k].win = n
    <2>1. PICK f \in Planned(r) : \E i \in Entries(f) : \E n \in Windows(text[f][i].kind) : ws[k] = Window(f, i, n)
        BY <1>4
    <2>2. PICK i \in Entries(f) : \E n \in Windows(text[f][i].kind) : ws[k] = Window(f, i, n)
        BY <2>1
    <2>3. PICK n \in Windows(text[f][i].kind) : ws[k] = Window(f, i, n)
        BY <2>2
    <2>4. ws[k].file = f /\ ws[k].line = text[f][i].id /\ ws[k].start = 2 * (i - 1) /\ ws[k].win = n
        BY <2>3 DEF Window
    <2> QED BY <2>4
<1>10. ASSUME NEW p \in P
       PROVE  \E f \in Planned(r) : \E i, j \in Entries(f) :
                p.file = f /\ p.line = text[f][i].id /\ p.start = 2 * (j - 1)
    <2>1. PICK k \in 1 .. Len(ws), b \in 1 .. Len(ws) :
            /\ ws[b].file = ws[k].file /\ p.file = ws[k].file
            /\ p.line = ws[k].line /\ p.start = ws[b].start
        BY <1>5
    <2>2. PICK f \in Planned(r) : \E i \in Entries(f) : ws[k].file = f /\ ws[k].line = text[f][i].id
        BY <1>9
    <2>3. PICK i \in Entries(f) : ws[k].file = f /\ ws[k].line = text[f][i].id
        BY <2>2
    <2>4. PICK j \in Entries(f) : ws[b].start = 2 * (j - 1)
        BY <1>9, <2>1, <2>3
    <2> QED BY <2>1, <2>3, <2>4
<1>11. ASSUME NEW f \in Planned(r), NEW i \in Entries(f), NEW n \in Windows(text[f][i].kind)
       PROVE  \/ text[f][i].id \in screened'
              \/ \E p \in P : /\ p.file = f /\ p.line = text[f][i].id /\ p.win = n
                              /\ p.start <= 2 * (i - 1) /\ p.chunk \in 1 .. Cardinality(C)
    <2>1. PICK k \in 1 .. Len(ws) : ws[k] = Window(f, i, n)
        BY <1>4
    <2>2. ws[k].file = f /\ ws[k].line = text[f][i].id /\ ws[k].start = 2 * (i - 1) /\ ws[k].win = n
        BY <2>1 DEF Window
    <2>3. CASE ws[k].line \in Drop
        BY <1>6, <2>2, <2>3
    <2>4. CASE ws[k].line \notin Drop
        <3>1. PICK p \in P :
                /\ p.file = ws[k].file /\ p.line = ws[k].line /\ p.win = ws[k].win
                /\ p.chunk \in 1 .. Cardinality(C)
                /\ \E b \in 1 .. k : ws[b].file = ws[k].file /\ p.start = ws[b].start
            BY <1>5, <2>4
        <3>2. PICK b \in 1 .. k : ws[b].file = ws[k].file /\ p.start = ws[b].start
            BY <3>1
        <3>3. k \in Nat /\ Len(ws) \in Nat /\ b \in 1 .. Len(ws) /\ ws[k].start \in Nat
            <4>1. Len(ws) \in Nat /\ ws[k] \in Wins
                BY <1>4, LenProperties, ElementOfSeq
            <4> QED BY <4>1 DEF Wins
        <3>4. ws[b].start <= ws[k].start
            <4>1. CASE b = k
                BY <3>3, <4>1
            <4>2. CASE b # k
                <5>1. b < k
                    BY <3>3, <4>2
                <5> QED BY <1>4, <3>2, <3>3, <5>1
            <4> QED BY <4>1, <4>2
        <3> QED BY <2>2, <3>1, <3>2, <3>4
    <2> QED BY <2>3, <2>4
<1>12. screened \subseteq screened' /\ screened' \subseteq 1 .. MaxWindows
    BY <1>5, <1>6 DEF RunInv, Shape
<1>13. PlansAs(r, d)
    BY <1>6, <1>8, <1>10, <1>11, <1>12 DEF PlansAs, ceil
<1> QED BY <1>13

LEMMA PlanReadRun ==
    ASSUME RunInv, NEW r \in Runs, PlanRead(r)
    PROVE  RunInv'
<1>1. PICK d : PlansAs(r, d)
    BY PlanReadIs
<1>2. run[r].phase = "planning" /\ lock' = None /\ UNCHANGED <<files, marks, ext, flight, faults, posted>>
    BY DEF PlanRead
<1>3. run' = [run EXCEPT ![r] = d] /\ d \in RunDirs /\ DOMAIN d.ceil = Planned(r)
    BY <1>1 DEF PlansAs
<1>4. run[r].chunks = 0 /\ run[r].out = {} /\ run[r].failed = {} /\ run[r].got = {} /\ run[r].unext = {}
    BY <1>2, RunIs DEF DirIsSound, ListsAreOfChunks
<1>5. Planned(r) \subseteq Files /\ \A f \in Planned(r) : Grown(f)
    BY RunIs DEF Planned, RunDirs
<1>6. DirIsEven(d)
    <2>1. \A f \in DOMAIN d.ceil : Even(d.ceil[f])
        BY <1>1, <1>5, StartIs DEF PlansAs
    <2>2. ASSUME NEW p \in d.pieces PROVE Even(p.start)
        <3>1. PICK f \in Planned(r) : \E j \in Entries(f) : p.start = 2 * (j - 1)
            BY <1>1 DEF PlansAs
        <3>2. PICK j \in Entries(f) : p.start = 2 * (j - 1)
            BY <3>1
        <3>3. j \in 1 .. Len(text[f])
            BY <1>5, StartIs DEF Entries
        <3>4. j - 1 \in Nat
            BY <1>5, <3>3, FileOf, LenProperties
        <3> QED BY <3>2, <3>4, HalfIs
    <2> QED BY <2>1, <2>2 DEF DirIsEven
<1>7. DirIsSound(d)
    BY <1>1, <1>4, <1>5, <1>6 DEF PlansAs, DirIsSound, ListsAreOfChunks, SubmitIsComplete, DirIsSpent
<1>8. CeilsFit(d)
    <2> SUFFICES ASSUME NEW f \in Planned(r) PROVE d.ceil[f] <= Size(f)
        BY <1>3 DEF CeilsFit
    <2>1. d.ceil[f] = parse_file(f, ByteStart(f)).read_to /\ f \in Files /\ Grown(f)
        BY <1>1, <1>5 DEF PlansAs
    <2>2. d.ceil[f] \in Nat /\ d.ceil[f] <= 2 * Whole(f)
        BY <2>1, StartIs DEF Even
    <2>3. 2 * Whole(f) <= Size(f) /\ Whole(f) \in 0 .. Len(text[f]) /\ Size(f) \in Nat /\ Len(text[f]) \in Nat
        BY <2>1, FileOf, FileIs
    <2> QED BY <2>2, <2>3
<1>9. DirIsSound(d)'
    BY <1>2, <1>7, SoundStays
<1>10. \A e \in Extractors : ext[e].of # r
    <2>1. r # None
        BY IngestAssumption
    <2> QED BY <1>2, <2>1 DEF RunInv, ExtractIsWired
<1>11. \A e \in Extractors : ExtractIsWired(ext[e])'
    BY <1>2, <1>3, <1>10, ExtractsKept
<1>12. screened' \subseteq 1 .. MaxWindows
    BY <1>1 DEF PlansAs
<1> QED BY <1>2, <1>3, <1>8, <1>9, <1>11, <1>12, FlightIs, RunStep DEF RunInv, Shape

-----------------------------------------------------------------------------
(* Extracts.                                                               *)

LEMMA ExtractIs ==
    ASSUME RunInv, NEW e \in Extractors
    PROVE  ext[e] \in Extracts /\ ExtractIsWired(ext[e])
    BY DEF RunInv, Shape

LEMMA ExtractsStep ==
    ASSUME RunInv, NEW e \in Extractors, NEW x \in Extracts, ext' = [ext EXCEPT ![e] = x],
           NEW r \in Runs, NEW d, run' = [run EXCEPT ![r] = d],
           d.chunks = run[r].chunks, run[r].phase \notin {"none", "planning"} => d.phase \notin {"none", "planning"},
           ExtractIsWired(x)'
    PROVE  ext' \in [Extractors -> Extracts] /\ \A y \in Extractors : ExtractIsWired(ext[y])'
<1>1. ext' \in [Extractors -> Extracts] /\ run \in [Runs -> RunDirs]
    BY DEF RunInv, Shape
<1>2. ASSUME NEW y \in Extractors PROVE ExtractIsWired(ext[y])'
    <2>1. CASE y = e
        <3>1. ext'[y] = x
            BY <2>1 DEF RunInv, Shape
        <3> QED BY <3>1 DEF ExtractIsWired
    <2>2. CASE y # e
        <3>1. ext'[y] = ext[y] /\ ext[y] \in Extracts /\ ExtractIsWired(ext[y])
            BY <2>2, ExtractIs DEF RunInv, Shape
        <3>2. CASE ext[y].of = r
            <4>1. run'[r] = d
                BY <1>1
            <4> QED BY <3>1, <3>2, <4>1 DEF ExtractIsWired
        <3>3. CASE ext[y].of # r
            <4>1. ext[y].of # None => run'[ext[y].of] = run[ext[y].of]
                BY <1>1, <3>1, <3>3 DEF Extracts
            <4> QED BY <3>1, <4>1 DEF ExtractIsWired
        <3> QED BY <3>2, <3>3
    <2> QED BY <2>1, <2>2
<1> QED BY <1>1, <1>2

LEMMA ExtractStartRun ==
    ASSUME RunInv, NEW e \in Extractors, NEW r \in Runs, NEW retry_failed \in BOOLEAN,
           ExtractStart(e, r, retry_failed)
    PROVE  RunInv'
<1> DEFINE todo == IF retry_failed THEN run[r].failed ELSE Chunks(r) \ run[r].out
<1>1. PICK x : x = [of |-> r, todo |-> todo, wrote |-> {}, failed |-> run[r].failed]
    OBVIOUS
<1>2. PICK d : d = run[r]
    OBVIOUS
<1>3. ext' = [ext EXCEPT ![e] = x] /\ d.spans /\ UNCHANGED <<files, marks, lock, run, flight, faults, ledger>>
    BY <1>1, <1>2 DEF ExtractStart
<1>4. d \in RunDirs /\ DirIsSound(d) /\ CeilsFit(d)
    BY <1>2, RunIs
<1>5. d.phase \notin {"none", "planning"} /\ d.failed \subseteq 1 .. d.chunks
    BY <1>3, <1>4 DEF DirIsSound, ListsAreOfChunks
<1>6. todo \subseteq 1 .. d.chunks /\ 1 .. d.chunks \subseteq Nat
    BY <1>2, <1>4, <1>5 DEF Chunks, RunDirs
<1>7. x \in Extracts /\ x.of = r /\ x.todo \subseteq 1 .. d.chunks /\ x.wrote = {} /\ x.failed \subseteq 1 .. d.chunks
    BY <1>1, <1>2, <1>4, <1>5, <1>6 DEF Extracts, RunDirs
<1>8. ExtractIsWired(x)'
    BY <1>2, <1>3, <1>5, <1>7, IngestAssumption DEF ExtractIsWired
<1>9. run' = [run EXCEPT ![r] = d]
    BY <1>2, <1>3 DEF RunInv, Shape
<1>10. ext' \in [Extractors -> Extracts] /\ \A y \in Extractors : ExtractIsWired(ext[y])'
    BY <1>2, <1>3, <1>5, <1>7, <1>8, <1>9, ExtractsStep
<1>11. DirIsSound(d)'
    BY <1>3, <1>4, SoundStays DEF ledger
<1> QED BY <1>3, <1>4, <1>9, <1>10, <1>11, FlightIs, RunStep DEF RunInv, Shape, ledger

LEMMA ChunkOutRun ==
    ASSUME RunInv, NEW e \in Extractors, NEW c \in ext[e].todo, ChunkOut(e, c)
    PROVE  RunInv'
<1>1. PICK r : r = ext[e].of
    OBVIOUS
<1>2. ext[e] \in Extracts /\ ExtractIsWired(ext[e])
    BY ExtractIs
<1>3. r \in Runs /\ run[r].phase \notin {"none", "planning"} /\ c \in 1 .. run[r].chunks /\ c \in Nat
      /\ ext[e].todo \cup ext[e].failed \subseteq 1 .. run[r].chunks
    BY <1>1, <1>2 DEF Extracts, ExtractIsWired
<1>4. PICK x : x = [ext[e] EXCEPT !.wrote = @ \cup {c}]
    OBVIOUS
<1>5. PICK d : d = [run[r] EXCEPT !.out = @ \cup {c}]
    OBVIOUS
<1>6. /\ ext' = [ext EXCEPT ![e] = x] /\ run' = [run EXCEPT ![r] = d]
      /\ UNCHANGED <<files, marks, lock, flight, faults, ledger>>
    BY <1>1, <1>4, <1>5 DEF ChunkOut
<1>7. run[r] \in RunDirs /\ DirIsSound(run[r]) /\ CeilsFit(run[r])
    BY <1>3, RunIs
<1>8. /\ d \in RunDirs /\ d.phase = run[r].phase /\ d.ceil = run[r].ceil /\ d.pieces = run[r].pieces
      /\ d.chunks = run[r].chunks /\ d.spans = run[r].spans /\ d.out = run[r].out \cup {c}
      /\ d.failed = run[r].failed /\ d.got = run[r].got /\ d.unext = run[r].unext
    BY <1>3, <1>5, <1>7 DEF RunDirs
<1>9. DirIsSound(d) /\ CeilsFit(d)
    BY <1>3, <1>7, <1>8 DEF DirIsSound, ListsAreOfChunks, SubmitIsComplete, DirIsSpent, DirIsEven, WindowsOf, CeilsFit
<1>10. x \in Extracts /\ x.of = r /\ x.todo = ext[e].todo /\ x.failed = ext[e].failed /\ x.wrote = ext[e].wrote \cup {c}
    BY <1>1, <1>2, <1>3, <1>4 DEF Extracts
<1>11. run'[r] = d
    BY <1>3, <1>6 DEF RunInv, Shape
<1>12. ExtractIsWired(x)'
    BY <1>2, <1>3, <1>8, <1>10, <1>11, IngestAssumption DEF ExtractIsWired
<1>13. ext' \in [Extractors -> Extracts] /\ \A y \in Extractors : ExtractIsWired(ext[y])'
    BY <1>3, <1>6, <1>8, <1>10, <1>12, ExtractsStep
<1>14. DirIsSound(d)'
    BY <1>6, <1>9, SoundStays DEF ledger
<1> QED BY <1>3, <1>6, <1>8, <1>9, <1>13, <1>14, FlightIs, RunStep DEF RunInv, Shape, ledger

LEMMA AwaitRun ==
    ASSUME RunInv, NEW e \in Extractors, NEW c \in ext[e].todo, ChunkDone(e, c) \/ ChunkFailed(e, c)
    PROVE  RunInv'
<1>1. PICK r : r = ext[e].of
    OBVIOUS
<1>2. ext[e] \in Extracts /\ ExtractIsWired(ext[e])
    BY ExtractIs
<1>3. r \in Runs /\ run[r].phase \notin {"none", "planning"} /\ c \in 1 .. run[r].chunks /\ c \in Nat
      /\ ext[e].todo \cup ext[e].failed \subseteq 1 .. run[r].chunks
    BY <1>1, <1>2 DEF Extracts, ExtractIsWired
<1>4. PICK failed : Await(e, c, failed) /\ failed \in {ext[e].failed \ {c}, ext[e].failed \cup {c}}
    BY DEF ChunkDone, ChunkFailed
<1>5. faults' \in 0 .. MaxFaults
    BY MoreFaults DEF ChunkDone, ChunkFailed
<1>6. PICK x : x = IF ext[e].todo = {c} THEN NoExt
                   ELSE [ext[e] EXCEPT !.todo = @ \ {c}, !.wrote = @ \ {c}, !.failed = failed]
    OBVIOUS
<1>7. PICK d : d = [run[r] EXCEPT !.failed = failed]
    OBVIOUS
<1>8. /\ ext' = [ext EXCEPT ![e] = x] /\ run' = [run EXCEPT ![r] = d]
      /\ UNCHANGED <<files, marks, lock, flight, ledger>>
    <2>1. ext' = [ext EXCEPT ![e] = x]
        <3>1. CASE ext[e].todo = {c}
            BY <1>4, <1>6, <3>1 DEF Await
        <3>2. CASE ext[e].todo # {c}
            BY <1>4, <1>6, <3>2 DEF Await
        <3> QED BY <3>1, <3>2
    <2>2. run' = [run EXCEPT ![r] = d]
        BY <1>1, <1>4, <1>7 DEF Await
    <2> QED BY <1>4, <2>1, <2>2 DEF Await
<1>9. failed \subseteq 1 .. run[r].chunks /\ failed \subseteq Nat
    BY <1>2, <1>3, <1>4 DEF Extracts
<1>10. run[r] \in RunDirs /\ DirIsSound(run[r]) /\ CeilsFit(run[r])
    BY <1>3, RunIs
<1>11. /\ d \in RunDirs /\ d.phase = run[r].phase /\ d.ceil = run[r].ceil /\ d.pieces = run[r].pieces
       /\ d.chunks = run[r].chunks /\ d.spans = run[r].spans /\ d.out = run[r].out
       /\ d.failed = failed /\ d.got = run[r].got /\ d.unext = run[r].unext
    BY <1>7, <1>9, <1>10 DEF RunDirs
<1>12. DirIsSound(d) /\ CeilsFit(d)
    BY <1>9, <1>10, <1>11 DEF DirIsSound, ListsAreOfChunks, SubmitIsComplete, DirIsSpent, DirIsEven, WindowsOf, CeilsFit
<1>13. x \in Extracts /\ (x = NoExt \/ (x.of = r /\ x.todo = ext[e].todo \ {c} /\ x.failed = failed /\ x.wrote = ext[e].wrote \ {c}))
    BY <1>1, <1>2, <1>6, <1>9 DEF Extracts, NoExt
<1>14. run'[r] = d
    BY <1>3, <1>8 DEF RunInv, Shape
<1>15. ExtractIsWired(x)'
    <2>1. CASE x = NoExt
        BY <2>1 DEF ExtractIsWired, NoExt
    <2>2. CASE x.of = r /\ x.todo = ext[e].todo \ {c} /\ x.failed = failed /\ x.wrote = ext[e].wrote \ {c}
        BY <1>2, <1>3, <1>9, <1>11, <1>14, <2>2, IngestAssumption DEF ExtractIsWired
    <2> QED BY <1>13, <2>1, <2>2
<1>16. ext' \in [Extractors -> Extracts] /\ \A y \in Extractors : ExtractIsWired(ext[y])'
    BY <1>3, <1>8, <1>11, <1>13, <1>15, ExtractsStep
<1>17. DirIsSound(d)'
    BY <1>8, <1>12, SoundStays DEF ledger
<1> QED BY <1>3, <1>5, <1>8, <1>11, <1>12, <1>16, <1>17, FlightIs, RunStep DEF RunInv, Shape, ledger

LEMMA ExtractDieRun ==
    ASSUME RunInv, NEW e \in Extractors, ExtractDie(e)
    PROVE  RunInv'
<1>1. ext' = [ext EXCEPT ![e] = NoExt] /\ faults' \in 0 .. MaxFaults
      /\ UNCHANGED <<files, marks, lock, run, flight, ledger>>
    BY MoreFaults DEF ExtractDie
<1>2. NoExt \in Extracts /\ NoExt.of = None /\ NoExt.todo = {} /\ NoExt.wrote = {}
    BY DEF NoExt, Extracts
<1>3. Shape'
    BY <1>1, <1>2 DEF RunInv, Shape, files, ledger
<1>4. LinesAreCounted' /\ OffsetsAreEven'
    BY <1>1 DEF RunInv, LinesAreCounted, OffsetsAreEven, files
<1>5. \A f \in Files : \A m : Stored(f, m)' <=> Stored(f, m)
    BY <1>1 DEF Stored, Size, prefix_sha256, files
<1>6. HashesHold'
    BY <1>1, <1>5 DEF RunInv, HashesHold, files
<1>7. \A r \in Runs : (DirIsSound(run[r]) /\ CeilsFit(run[r]))'
    <2> SUFFICES ASSUME NEW r \in Runs PROVE DirIsSound(run[r])' /\ CeilsFit(run[r])'
        OBVIOUS
    <2>1. run'[r] = run[r] /\ DirIsSound(run[r]) /\ CeilsFit(run[r]) /\ posted' = posted
        BY <1>1, RunIs DEF ledger
    <2>2. DirIsSound(run[r])'
        BY <2>1 DEF DirIsSound, ListsAreOfChunks, SubmitIsComplete, DirIsSpent, DirIsEven, WindowsOf
    <2>3. CeilsFit(run[r])'
        BY <1>1, <2>1 DEF CeilsFit, Size, files
    <2> QED BY <2>2, <2>3
<1>8. \A y \in Extractors : ExtractIsWired(ext[y])'
    <2> SUFFICES ASSUME NEW y \in Extractors PROVE ExtractIsWired(ext[y])'
        OBVIOUS
    <2>1. ext'[y] = NoExt \/ (ext'[y] = ext[y] /\ ExtractIsWired(ext[y]))
        BY <1>1, ExtractIs DEF RunInv, Shape
    <2> QED BY <1>1, <1>2, <2>1 DEF ExtractIsWired
<1> QED BY <1>3, <1>4, <1>6, <1>7, <1>8 DEF RunInv

-----------------------------------------------------------------------------
(* Submissions.                                                            *)

LEMMA SubmitStartRun ==
    ASSUME RunInv, NEW r \in Runs, SubmitStart(r)
    PROVE  RunInv'
<1> DEFINE missing == (Chunks(r) \ run[r].out) \ run[r].failed
<1>1. PICK d : d = [run[r] EXCEPT !.phase = "posting", !.got = Chunks(r) \cap run[r].out, !.unext = missing \cup run[r].failed]
    OBVIOUS
<1>2. run[r] \in RunDirs /\ DirIsSound(run[r]) /\ CeilsFit(run[r])
    BY RunIs
<1>3. run[r].phase \in {"ready", "closed"} /\ lock' = r /\ UNCHANGED <<files, marks, ext, flight, faults, ledger>>
    BY DEF SubmitStart, acquire
<1>4. run' = [run EXCEPT ![r] = d]
    BY <1>1, <1>2 DEF SubmitStart, RunInv, Shape
<1>5. missing \subseteq Nat /\ Chunks(r) = 1 .. run[r].chunks /\ Chunks(r) \subseteq Nat
    BY <1>2 DEF Chunks, RunDirs
<1>6. /\ d \in RunDirs /\ d.phase = "posting" /\ d.ceil = run[r].ceil /\ d.pieces = run[r].pieces
      /\ d.chunks = run[r].chunks /\ d.spans = run[r].spans /\ d.out = run[r].out /\ d.failed = run[r].failed
      /\ d.got = Chunks(r) \cap run[r].out /\ d.unext = missing \cup run[r].failed
    BY <1>1, <1>2, <1>5 DEF RunDirs, Phases
<1>7. DirIsSound(d) /\ CeilsFit(d)
    BY <1>2, <1>3, <1>5, <1>6 DEF DirIsSound, ListsAreOfChunks, SubmitIsComplete, DirIsSpent, DirIsEven, WindowsOf, CeilsFit
<1>8. DirIsSound(d)'
    BY <1>3, <1>7, SoundStays DEF ledger
<1>9. \A e \in Extractors : ExtractIsWired(ext[e])'
    BY <1>3, <1>4, <1>6, ExtractsKept
<1> QED BY <1>3, <1>4, <1>6, <1>7, <1>8, <1>9, FlightIs, RunStep DEF RunInv, Shape, ledger

LEMMA WindowsPosted ==
    ASSUME RunInv, NEW r \in Runs, NEW chunks
    PROVE  WindowsIn(r, chunks) \subseteq (1 .. MaxWindows) \X {1, 2}
<1>1. run[r].pieces \subseteq Pieces
    BY RunIs DEF RunDirs
<1> QED BY <1>1 DEF WindowsIn, Pieces

LEMMA SubmitPostRun ==
    ASSUME RunInv, NEW r \in Runs, SubmitPost(r)
    PROVE  RunInv'
<1>1. PICK d : d = [run[r] EXCEPT !.phase = "posted"]
    OBVIOUS
<1>2. run[r] \in RunDirs /\ DirIsSound(run[r]) /\ CeilsFit(run[r])
    BY RunIs
<1>3. run[r].phase = "posting" /\ UNCHANGED <<files, marks, lock, ext, flight, faults, screened>>
      /\ posted' = posted \cup WindowsIn(r, run[r].got)
    BY DEF SubmitPost
<1>4. run' = [run EXCEPT ![r] = d]
    BY <1>1, <1>2 DEF SubmitPost, RunInv, Shape
<1>5. /\ d \in RunDirs /\ d.phase = "posted" /\ d.ceil = run[r].ceil /\ d.pieces = run[r].pieces
      /\ d.chunks = run[r].chunks /\ d.spans = run[r].spans /\ d.out = run[r].out /\ d.failed = run[r].failed
      /\ d.got = run[r].got /\ d.unext = run[r].unext
    BY <1>1, <1>2 DEF RunDirs, Phases
<1>6. WindowsIn(r, run[r].got) = WindowsOf(d, d.got)
    BY <1>5 DEF WindowsIn, WindowsOf
<1>7. posted \subseteq posted' /\ posted' \subseteq (1 .. MaxWindows) \X {1, 2}
    BY <1>3, WindowsPosted DEF RunInv, Shape
<1>8. CeilsFit(d)
    BY <1>2, <1>5 DEF CeilsFit
<1>9. SubmitIsComplete(d)'
    <2>1. WindowsOf(d, d.got)' = WindowsOf(d, d.got)
        BY DEF WindowsOf
    <2>2. 1 .. d.chunks \subseteq d.got \cup d.unext
        BY <1>2, <1>3, <1>5 DEF DirIsSound, SubmitIsComplete
    <2> QED BY <1>3, <1>6, <2>1, <2>2 DEF SubmitIsComplete
<1>10. DirIsSpent(d)'
    BY <1>2, <1>3, <1>5, <1>7 DEF DirIsSound, DirIsSpent, WindowsOf
<1>11. ListsAreOfChunks(d)' /\ DirIsEven(d)'
    BY <1>2, <1>3, <1>5 DEF DirIsSound, ListsAreOfChunks, DirIsEven
<1>12. DirIsSound(d)'
    BY <1>9, <1>10, <1>11 DEF DirIsSound
<1>13. \A e \in Extractors : ExtractIsWired(ext[e])'
    BY <1>3, <1>4, <1>5, ExtractsKept
<1> QED BY <1>3, <1>4, <1>5, <1>7, <1>8, <1>12, <1>13, FlightIs, RunStep DEF RunInv, Shape

\* The mark stays before every span that was not extracted.
LEMMA HoldBackIs ==
    ASSUME RunInv, NEW r \in Runs, NEW f \in DOMAIN run[r].ceil
    PROVE  /\ f \in Files /\ Even(HoldBack(r, f)) /\ HoldBack(r, f) <= run[r].ceil[f]
           /\ \A p \in run[r].pieces : p.file = f /\ p.chunk \in run[r].unext => HoldBack(r, f) <= p.start
           /\ \/ HoldBack(r, f) = run[r].ceil[f]
              \/ \E p \in run[r].pieces : p.file = f /\ HoldBack(r, f) = p.start
<1> DEFINE T == {run[r].ceil[f]} \cup {p.start : p \in {q \in run[r].pieces : q.file = f /\ q.chunk \in run[r].unext}}
<1>1. f \in Files /\ \A n \in T : Even(n)
    BY RunIs DEF DirIsSound, ListsAreOfChunks, DirIsEven
<1>2. T \in SUBSET Nat /\ T # {}
    BY <1>1 DEF Even
<1>3. Least(T) \in T /\ \A y \in T : Least(T) <= y
    BY <1>2, LeastIs
<1>4. HoldBack(r, f) = Least(T)
    BY DEF HoldBack
<1> QED BY <1>1, <1>3, <1>4

LEMMA PrefixIs ==
    ASSUME RunInv, NEW f \in Files, NEW n \in Nat
    PROVE  /\ prefix_sha256(f, n) \in Hash
           /\ Even(n) /\ n <= Size(f) =>
                /\ prefix_sha256(f, n).bytes = n /\ Len(prefix_sha256(f, n).of) = n \div 2
                /\ \A i \in 1 .. (n \div 2) : prefix_sha256(f, n).of[i] = text[f][i]
                /\ n \div 2 <= Len(text[f]) /\ n \div 2 <= Whole(f) /\ n \div 2 \in Nat
                /\ prefix_sha256(f, n).of = SubSeq(text[f], 1, n \div 2)
<1>1. /\ Len(text[f]) \in Nat /\ Size(f) \in Nat /\ Whole(f) \in 0 .. Len(text[f]) /\ Size(f) <= 2 * Len(text[f])
      /\ Size(f) <= 2 * Whole(f) + 1
      /\ \A i \in 1 .. Len(text[f]) : text[f][i] \in Signed
    BY FileOf, FileIs
<1> DEFINE u == IF n < Size(f) THEN n ELSE Size(f)
           h == (u + 1) \div 2
<1>2. u \in Nat /\ u <= Size(f)
    BY <1>1
<1>3. h \in Nat /\ h <= Len(text[f])
    <2> HIDE DEF u
    <2>1. u <= 2 * Len(text[f])
        BY <1>1, <1>2
    <2>2. (u + 1) \div 2 \in Nat /\ 2 * ((u + 1) \div 2) <= u + 1
        BY <1>2
    <2> QED BY <1>1, <1>2, <2>1, <2>2
<1>4. prefix_sha256(f, n) = [of |-> SubSeq(text[f], 1, h), bytes |-> u]
    BY DEF prefix_sha256
<1> HIDE DEF u, h
<1>5. \A i \in 1 .. h : text[f][i] \in Signed
    BY <1>1, <1>3
<1>6. 1 \in Int /\ h \in Int /\ (IF 1 <= h THEN h - 1 + 1 ELSE 0) = h /\ h - 1 + 1 = h
    BY <1>3
<1>7. SubSeq(text[f], 1, h) \in Seq(Signed) /\ Len(SubSeq(text[f], 1, h)) = h
      /\ \A i \in 1 .. h : SubSeq(text[f], 1, h)[i] = text[f][i]
    <2>1. /\ SubSeq(text[f], 1, h) \in Seq(Signed)
          /\ Len(SubSeq(text[f], 1, h)) = IF 1 <= h THEN h - 1 + 1 ELSE 0
          /\ \A i \in 1 .. h - 1 + 1 : SubSeq(text[f], 1, h)[i] = text[f][1 + i - 1]
        BY <1>5, <1>6, SubSeqProperties
    <2>2. \A i \in 1 .. h : 1 + i - 1 = i
        BY <1>3
    <2> QED BY <1>6, <2>1, <2>2
<1>8. prefix_sha256(f, n) \in Hash
    BY <1>2, <1>4, <1>7 DEF Hash
<1>9. ASSUME Even(n), n <= Size(f)
      PROVE  u = n /\ h = n \div 2 /\ n \div 2 <= Whole(f) /\ n \div 2 \in Nat
    <2>1. u = n
        BY <1>1, <1>9 DEF u
    <2>2. h = n \div 2 /\ n \div 2 \in Nat /\ n = 2 * (n \div 2)
        BY <1>9, <2>1, HalfIs DEF h
    <2> QED BY <1>1, <1>9, <2>1, <2>2
<1> QED BY <1>3, <1>4, <1>7, <1>8, <1>9

LEMMA SubmitAdvanceRun ==
    ASSUME RunInv, NEW r \in Runs, NEW opened, SubmitAdvance(r, opened)
    PROVE  RunInv'
<1>1. PICK d : d = [run[r] EXCEPT !.phase = "advancing"]
    OBVIOUS
<1>2. run[r] \in RunDirs /\ DirIsSound(run[r]) /\ CeilsFit(run[r])
    BY RunIs
<1>3. run[r].phase = "posted" /\ opened \subseteq DOMAIN run[r].ceil
      /\ UNCHANGED <<files, marks, lock, ext, ledger>> /\ faults' \in 0 .. MaxFaults
    BY MoreFaults DEF SubmitAdvance
<1>4. run' = [run EXCEPT ![r] = d]
    BY <1>1, <1>2 DEF SubmitAdvance, RunInv, Shape
<1>5. /\ d \in RunDirs /\ d.phase = "advancing" /\ d.ceil = run[r].ceil /\ d.pieces = run[r].pieces
      /\ d.chunks = run[r].chunks /\ d.spans = run[r].spans /\ d.out = run[r].out /\ d.failed = run[r].failed
      /\ d.got = run[r].got /\ d.unext = run[r].unext
    BY <1>1, <1>2 DEF RunDirs, Phases
<1>6. DirIsSound(d) /\ CeilsFit(d)
    BY <1>2, <1>3, <1>5 DEF DirIsSound, ListsAreOfChunks, SubmitIsComplete, DirIsSpent, DirIsEven, WindowsOf, CeilsFit
<1>7. DirIsSound(d)'
    BY <1>3, <1>6, SoundStays DEF ledger
<1>8. \A e \in Extractors : ExtractIsWired(ext[e])'
    BY <1>3, <1>4, <1>5, ExtractsKept
<1>9. ASSUME NEW m \in flight'
      PROVE  m \in Advances /\ Even(m.off) /\ (~cut[m.file] => Stored(m.file, m))
    <2>1. CASE m \in flight
        BY <2>1, FlightIs
    <2>2. CASE m \notin flight
        <3>1. PICK f \in opened : m = [run |-> r, file |-> f, off |-> HoldBack(r, f),
                                       hash |-> prefix_sha256(f, HoldBack(r, f)), live |-> TRUE]
            BY <2>2 DEF SubmitAdvance
        <3>2. /\ f \in Files /\ Even(HoldBack(r, f)) /\ HoldBack(r, f) \in Nat
              /\ HoldBack(r, f) <= run[r].ceil[f] /\ f \in DOMAIN run[r].ceil
            BY <1>3, HoldBackIs DEF Even
        <3>3. m \in Advances
            BY <3>1, <3>2, PrefixIs DEF Advances
        <3>4. ASSUME ~cut[f] PROVE Stored(f, m)
            <4>1. run[r].ceil[f] <= Size(f) /\ run[r].ceil[f] \in Nat /\ Size(f) \in Nat
                BY <1>2, <3>2, <3>4, FileOf, FileIs DEF CeilsFit, DirIsSound, DirIsEven, Even
            <4>2. HoldBack(r, f) <= Size(f)
                BY <3>2, <4>1
            <4> QED BY <3>1, <4>2 DEF Stored
        <3> QED BY <3>1, <3>2, <3>3, <3>4
    <2> QED BY <2>1, <2>2
<1> QED BY <1>3, <1>4, <1>5, <1>6, <1>7, <1>8, <1>9, RunStep DEF RunInv, Shape, ledger

LEMMA SubmitCloseRun ==
    ASSUME RunInv, NEW r \in Runs, NEW sweep \in BOOLEAN, SubmitClose(r, sweep)
    PROVE  RunInv'
<1>1. PICK d : d = [run[r] EXCEPT !.phase = "closed", !.got = {}, !.unext = {},
                                  !.spans = @ /\ ~sweep, !.out = IF sweep THEN {} ELSE @]
    OBVIOUS
<1>2. run[r] \in RunDirs /\ DirIsSound(run[r]) /\ CeilsFit(run[r])
    BY RunIs
<1>3. run[r].phase = "advancing" /\ (sweep => run[r].unext = {}) /\ lock' = None
      /\ UNCHANGED <<files, marks, ext, flight, faults, ledger>>
    BY DEF SubmitClose
<1>4. run' = [run EXCEPT ![r] = d]
    BY <1>1, <1>2 DEF SubmitClose, RunInv, Shape
<1>5. /\ d \in RunDirs /\ d.phase = "closed" /\ d.ceil = run[r].ceil /\ d.pieces = run[r].pieces
      /\ d.chunks = run[r].chunks /\ (d.spans <=> run[r].spans /\ ~sweep) /\ d.out \subseteq run[r].out
      /\ d.failed = run[r].failed /\ d.got = {} /\ d.unext = {}
    BY <1>1, <1>2 DEF RunDirs, Phases
<1>6. WindowsOf(d, 1 .. d.chunks) \subseteq posted \/ d.spans
    <2>1. CASE sweep
        <3>1. 1 .. d.chunks \subseteq run[r].got /\ WindowsOf(run[r], run[r].got) \subseteq posted
            BY <1>2, <1>3, <1>5, <2>1 DEF DirIsSound, SubmitIsComplete
        <3> QED BY <1>5, <3>1 DEF WindowsOf
    <2>2. CASE ~sweep
        BY <1>2, <1>3, <1>5, <2>2 DEF DirIsSound, DirIsSpent, WindowsOf
    <2> QED BY <2>1, <2>2
<1>7. DirIsSound(d) /\ CeilsFit(d)
    BY <1>2, <1>3, <1>5, <1>6 DEF DirIsSound, ListsAreOfChunks, SubmitIsComplete, DirIsSpent, DirIsEven, CeilsFit
<1>8. DirIsSound(d)'
    BY <1>3, <1>7, SoundStays DEF ledger
<1>9. \A e \in Extractors : ExtractIsWired(ext[e])'
    BY <1>3, <1>4, <1>5, ExtractsKept
<1> QED BY <1>3, <1>4, <1>5, <1>7, <1>8, <1>9, FlightIs, RunStep DEF RunInv, Shape, ledger

LEMMA SubmitFailRun ==
    ASSUME RunInv, NEW r \in Runs, NEW sent, NEW applied, SubmitFail(r, sent, applied)
    PROVE  RunInv'
<1>1. PICK d : d = [run[r] EXCEPT !.phase = "ready", !.got = {}, !.unext = {}]
    OBVIOUS
<1>2. run[r] \in RunDirs /\ DirIsSound(run[r]) /\ CeilsFit(run[r])
    BY RunIs
<1>3. run[r].phase \in {"posting", "posted", "advancing"} /\ lock' = None /\ faults' \in 0 .. MaxFaults
      /\ UNCHANGED <<files, marks, ext, screened>>
    BY MoreFaults DEF SubmitFail
<1>4. run' = [run EXCEPT ![r] = d]
    BY <1>1, <1>2 DEF SubmitFail, RunInv, Shape
<1>5. /\ d \in RunDirs /\ d.phase = "ready" /\ d.ceil = run[r].ceil /\ d.pieces = run[r].pieces
      /\ d.chunks = run[r].chunks /\ d.spans = run[r].spans /\ d.out = run[r].out
      /\ d.failed = run[r].failed /\ d.got = {} /\ d.unext = {}
    BY <1>1, <1>2 DEF RunDirs, Phases
<1>6. posted \subseteq posted' /\ posted' \subseteq (1 .. MaxWindows) \X {1, 2}
    BY WindowsPosted DEF SubmitFail, RunInv, Shape
<1>7. DirIsSound(d) /\ CeilsFit(d)
    BY <1>2, <1>3, <1>5 DEF DirIsSound, ListsAreOfChunks, SubmitIsComplete, DirIsSpent, DirIsEven, WindowsOf, CeilsFit
<1>8. DirIsSound(d)'
    BY <1>6, <1>7, SoundStays
<1>9. \A e \in Extractors : ExtractIsWired(ext[e])'
    BY <1>3, <1>4, <1>5, ExtractsKept
<1>10. ASSUME NEW m \in flight'
       PROVE  m \in Advances /\ Even(m.off) /\ (~cut[m.file] => Stored(m.file, m))
    <2>1. PICK n \in flight : m = [n EXCEPT !.live = @ /\ n.run # r]
        BY DEF SubmitFail
    <2>2. n \in Advances /\ Even(n.off) /\ (~cut[n.file] => Stored(n.file, n))
        BY FlightIs
    <2>3. m \in Advances /\ m.file = n.file /\ m.off = n.off /\ m.hash = n.hash
        BY <2>1, <2>2 DEF Advances
    <2> QED BY <2>2, <2>3 DEF Stored
<1> QED BY <1>3, <1>4, <1>5, <1>6, <1>7, <1>8, <1>9, <1>10, RunStep DEF RunInv, Shape

LEMMA AdvanceRun ==
    ASSUME RunInv, NEW m \in flight, AdvanceWatermark(m)
    PROVE  RunInv'
<1>1. m \in Advances /\ Even(m.off) /\ (~cut[m.file] => Stored(m.file, m))
    BY FlightIs
<1>2. PICK mark : mark = IF m.off > marks[m.file].off THEN [off |-> m.off, hash |-> m.hash] ELSE marks[m.file]
    OBVIOUS
<1>3. marks' = [marks EXCEPT ![m.file] = mark] /\ flight' = flight \ {m}
      /\ UNCHANGED <<files, lock, run, ext, faults, ledger>>
    BY <1>2 DEF AdvanceWatermark
<1>4. marks[m.file] \in [off : Nat, hash : Hash] /\ Even(marks[m.file].off) /\ (~cut[m.file] => Stored(m.file, marks[m.file]))
    BY <1>1 DEF RunInv, Shape, OffsetsAreEven, HashesHold, Advances
<1>5. mark \in [off : Nat, hash : Hash] /\ Even(mark.off) /\ (~cut[m.file] => Stored(m.file, mark))
    BY <1>1, <1>2, <1>4 DEF Advances, Stored
<1>6. \A f \in Files : marks'[f] = IF f = m.file THEN mark ELSE marks[f]
    BY <1>3 DEF RunInv, Shape
<1>7. Shape'
    BY <1>3, <1>5 DEF RunInv, Shape, files, ledger
<1>8. LinesAreCounted'
    BY <1>3 DEF RunInv, LinesAreCounted, files
<1>9. OffsetsAreEven'
    BY <1>3, <1>5, <1>6 DEF RunInv, OffsetsAreEven
<1>10. \A f \in Files : \A x : Stored(f, x)' <=> Stored(f, x)
    BY <1>3 DEF Stored, Size, prefix_sha256, files
<1>11. HashesHold'
    <2>1. ASSUME NEW f \in Files, ~cut[f], NEW x, x = marks'[f] \/ (x \in flight' /\ x.file = f)
          PROVE  Stored(f, x)
        <3>1. CASE x = marks'[f]
            BY <1>5, <1>6, <2>1, <3>1 DEF RunInv, HashesHold
        <3>2. CASE x \in flight' /\ x.file = f
            BY <1>3, <2>1, <3>2 DEF RunInv, HashesHold
        <3> QED BY <2>1, <3>1, <3>2
    <2>2. \A f \in Files : ~cut[f] => \A x : x = marks'[f] \/ (x \in flight' /\ x.file = f) => Stored(f, x)'
        BY <1>10, <2>1
    <2> QED BY <1>3, <2>2 DEF HashesHold, files
<1>12. \A r \in Runs : (DirIsSound(run[r]) /\ CeilsFit(run[r]))'
    <2> SUFFICES ASSUME NEW r \in Runs PROVE DirIsSound(run[r])' /\ CeilsFit(run[r])'
        OBVIOUS
    <2>1. run'[r] = run[r] /\ DirIsSound(run[r]) /\ CeilsFit(run[r]) /\ posted' = posted
        BY <1>3, RunIs DEF ledger
    <2>2. DirIsSound(run[r])'
        BY <2>1 DEF DirIsSound, ListsAreOfChunks, SubmitIsComplete, DirIsSpent, DirIsEven, WindowsOf
    <2>3. CeilsFit(run[r])'
        BY <1>3, <2>1 DEF CeilsFit, Size, files
    <2> QED BY <2>2, <2>3
<1>13. \A e \in Extractors : ExtractIsWired(ext[e])'
    BY <1>3 DEF RunInv, ExtractIsWired
<1> QED BY <1>7, <1>8, <1>9, <1>11, <1>12, <1>13 DEF RunInv

-----------------------------------------------------------------------------
(* The sessions.                                                           *)

PrefixOf(lines, size, n) ==
    [of |-> SubSeq(lines, 1, ((IF n < size THEN n ELSE size) + 1) \div 2),
     bytes |-> IF n < size THEN n ELSE size]

\* A file that grew hashes as before what it had.
LEMMA PrefixSame ==
    ASSUME NEW S, NEW L \in Seq(S), NEW M \in Seq(S), NEW a \in Nat, NEW b \in Nat,
           NEW n, Even(n), n <= a, n <= b, a <= 2 * Len(L), Len(L) <= Len(M),
           \A i \in 1 .. Len(L) : M[i] = L[i]
    PROVE  PrefixOf(L, a, n) = PrefixOf(M, b, n)
<1>1. Len(L) \in Nat /\ Len(M) \in Nat /\ n \in Nat
    BY LenProperties DEF Even
<1>2. (IF n < a THEN n ELSE a) = n /\ (IF n < b THEN n ELSE b) = n
    BY <1>1
<1>3. PICK h : h = (n + 1) \div 2
    OBVIOUS
<1>4. h \in Nat /\ n = 2 * h
    BY <1>3, HalfIs
<1>5. h <= Len(L) /\ h <= Len(M)
    BY <1>1, <1>4
<1>6. SubSeq(L, 1, h) = SubSeq(M, 1, h)
    <2>1. \A i \in 1 .. h : L[i] \in S /\ M[i] \in S /\ M[i] = L[i]
        BY <1>1, <1>4, <1>5, ElementOfSeq
    <2>2. 1 \in Int /\ h \in Int /\ (IF 1 <= h THEN h - 1 + 1 ELSE 0) = h /\ h - 1 + 1 = h
        BY <1>4
    <2>3. /\ SubSeq(L, 1, h) \in Seq(S) /\ Len(SubSeq(L, 1, h)) = h
          /\ \A i \in 1 .. h : SubSeq(L, 1, h)[i] = L[1 + i - 1]
        BY <2>1, <2>2, SubSeqProperties
    <2>4. /\ SubSeq(M, 1, h) \in Seq(S) /\ Len(SubSeq(M, 1, h)) = h
          /\ \A i \in 1 .. h : SubSeq(M, 1, h)[i] = M[1 + i - 1]
        BY <2>1, <2>2, SubSeqProperties
    <2>5. \A i \in 1 .. h : 1 + i - 1 = i
        BY <1>4
    <2>6. \A i \in 1 .. h : SubSeq(L, 1, h)[i] = SubSeq(M, 1, h)[i]
        BY <2>1, <2>3, <2>4, <2>5
    <2> QED BY <2>3, <2>4, <2>6, SeqEqual
<1> QED BY <1>2, <1>3, <1>6 DEF PrefixOf

\* What a session does to a file: it grows, or it counts as cut.
Grows(f, L, t, c) ==
    /\ L \in Seq(Signed) /\ t \in BOOLEAN /\ c \in BOOLEAN
    /\ t => L # <<>>
    /\ ~c => /\ ~cut[f] /\ Len(text[f]) <= Len(L)
             /\ \A i \in 1 .. Len(text[f]) : L[i] = text[f][i]
             /\ Size(f) <= 2 * Len(L) - (IF t THEN 1 ELSE 0)

LEMMA SessionStep ==
    ASSUME RunInv, NEW f \in Files, NEW L, NEW t, NEW c, Grows(f, L, t, c),
           text' = [text EXCEPT ![f] = L], torn' = [torn EXCEPT ![f] = t], cut' = [cut EXCEPT ![f] = c],
           written' \in 0 .. MaxWindows, written <= written', \A i \in 1 .. Len(L) : L[i].id <= written',
           UNCHANGED <<marks, lock, run, ext, flight, faults, ledger>>
    PROVE  RunInv'
<1>1. Shape'
    BY DEF RunInv, Shape, Grows, ledger
<1>2. \A g \in Files : text'[g] = (IF g = f THEN L ELSE text[g]) /\ torn'[g] = (IF g = f THEN t ELSE torn[g])
                       /\ cut'[g] = (IF g = f THEN c ELSE cut[g])
    BY DEF RunInv, Shape
<1>3. LinesAreCounted'
    <2> SUFFICES ASSUME NEW g \in Files
                 PROVE  /\ torn'[g] => text'[g] # <<>>
                        /\ \A i \in 1 .. Len(text'[g]) : text'[g][i].id <= written'
        BY DEF LinesAreCounted
    <2>1. CASE g = f
        BY <1>2, <2>1 DEF Grows
    <2>2. CASE g # f
        <3>1. text'[g] = text[g] /\ torn'[g] = torn[g] /\ (torn[g] => text[g] # <<>>) /\ text[g] \in Seq(Signed)
            BY <1>2, <2>2, FileOf
        <3>2. \A i \in 1 .. Len(text[g]) : text[g][i].id <= written /\ text[g][i].id \in Nat
            BY <3>1, ElementOfSeq DEF RunInv, LinesAreCounted, Signed, Lines
        <3>3. written \in Nat /\ written' \in Nat
            BY IngestAssumption DEF RunInv, Shape
        <3>4. \A i \in 1 .. Len(text[g]) : text[g][i].id <= written'
            BY <3>2, <3>3
        <3> QED BY <3>1, <3>4
    <2> QED BY <2>1, <2>2
<1>4. OffsetsAreEven'
    BY DEF RunInv, OffsetsAreEven
<1>5. ASSUME NEW g \in Files, ~cut'[g]
      PROVE  ~cut[g] /\ Size(g) <= Size(g)' /\ Size(g) \in Nat /\ Size(g)' \in Nat
             /\ \A x : Even(x.off) /\ Stored(g, x) => Stored(g, x)'
    <2>1. text[g] \in Seq(Signed) /\ Len(text[g]) \in Nat /\ Size(g) \in Nat /\ Size(g) <= 2 * Len(text[g])
        BY FileOf, FileIs
    <2>2. CASE g # f
        <3>1. text'[g] = text[g] /\ torn'[g] = torn[g] /\ cut'[g] = cut[g]
            BY <1>2, <2>2
        <3>2. Size(g)' = Size(g)
            BY <3>1 DEF Size
        <3>3. ASSUME NEW n PROVE prefix_sha256(g, n)' = prefix_sha256(g, n)
            BY <3>1, <3>2 DEF prefix_sha256
        <3> QED BY <1>5, <2>1, <3>1, <3>2, <3>3 DEF Stored
    <2>3. CASE g = f
        <3>1. text'[g] = L /\ torn'[g] = t /\ cut'[g] = c
            BY <1>2, <2>3
        <3>2. Size(g)' = 2 * Len(L) - (IF t THEN 1 ELSE 0)
            BY <3>1 DEF Size
        <3>3. L \in Seq(Signed) /\ Len(L) \in Nat /\ (t => Len(L) # 0)
            BY EmptySeq, LenProperties DEF Grows
        <3>4. ~cut[g] /\ Size(g) <= Size(g)' /\ Size(g)' \in Nat /\ Len(text[g]) <= Len(L)
              /\ \A i \in 1 .. Len(text[g]) : L[i] = text[g][i]
            BY <1>5, <2>3, <3>1, <3>2, <3>3 DEF Grows
        <3>5. ASSUME NEW x, Even(x.off), Stored(g, x) PROVE Stored(g, x)'
            <4>1. x.off <= Size(g) /\ x.off <= Size(g)' /\ x.off \in Nat
                BY <2>1, <3>4, <3>5 DEF Stored, Even
            <4>2. PrefixOf(text[g], Size(g), x.off) = PrefixOf(L, Size(g)', x.off)
                <5>1. PICK a, b, n : a = Size(g) /\ b = Size(g)' /\ n = x.off
                    OBVIOUS
                <5>2. PICK K : K = text[g]
                    OBVIOUS
                <5>3. /\ a \in Nat /\ b \in Nat /\ Even(n) /\ n <= a /\ n <= b /\ a <= 2 * Len(K)
                      /\ K \in Seq(Signed) /\ L \in Seq(Signed) /\ Len(K) <= Len(L)
                      /\ \A i \in 1 .. Len(K) : L[i] = K[i]
                    BY <2>1, <3>3, <3>4, <3>5, <4>1, <5>1, <5>2
                <5>4. PrefixOf(K, a, n) = PrefixOf(L, b, n)
                    BY <5>3, PrefixSame
                <5> QED BY <5>1, <5>2, <5>4
            <4>3. prefix_sha256(g, x.off) = PrefixOf(text[g], Size(g), x.off)
                BY DEF prefix_sha256, PrefixOf
            <4>4. prefix_sha256(g, x.off)' = PrefixOf(L, Size(g)', x.off)
                BY <3>1 DEF prefix_sha256, PrefixOf
            <4> QED BY <3>5, <4>1, <4>2, <4>3, <4>4 DEF Stored
        <3> QED BY <2>1, <3>4, <3>5
    <2> QED BY <2>2, <2>3
<1>6. HashesHold'
    <2>1. ASSUME NEW g \in Files, ~cut'[g], NEW x, x = marks[g] \/ (x \in flight /\ x.file = g)
          PROVE  Stored(g, x)'
        <3>1. Stored(g, x) /\ Even(x.off)
            BY <1>5, <2>1 DEF RunInv, HashesHold, OffsetsAreEven
        <3> QED BY <1>5, <2>1, <3>1
    <2> QED BY <2>1 DEF HashesHold
<1>7. \A r \in Runs : (DirIsSound(run[r]) /\ CeilsFit(run[r]))'
    <2> SUFFICES ASSUME NEW r \in Runs PROVE DirIsSound(run[r])' /\ CeilsFit(run[r])'
        OBVIOUS
    <2>1. run' = run /\ DirIsSound(run[r]) /\ CeilsFit(run[r]) /\ posted' = posted
        BY RunIs DEF ledger
    <2>2. DirIsSound(run[r])'
        BY <2>1 DEF DirIsSound, ListsAreOfChunks, SubmitIsComplete, DirIsSpent, DirIsEven, WindowsOf
    <2>3. ASSUME NEW g \in DOMAIN run[r].ceil, ~cut'[g] PROVE run[r].ceil[g] <= Size(g)'
        <3>1. g \in Files /\ run[r].ceil[g] \in Nat
            BY <2>1 DEF DirIsSound, ListsAreOfChunks, DirIsEven, Even
        <3>2. run[r].ceil[g] <= Size(g)
            BY <1>5, <2>1, <2>3, <3>1 DEF CeilsFit
        <3> QED BY <1>5, <2>3, <3>1, <3>2
    <2>4. CeilsFit(run[r])'
        BY <2>1, <2>3 DEF CeilsFit
    <2> QED BY <2>2, <2>4
<1>8. \A e \in Extractors : ExtractIsWired(ext[e])'
    BY DEF RunInv, ExtractIsWired
<1> QED BY <1>1, <1>3, <1>4, <1>6, <1>7, <1>8 DEF RunInv
\* The line a session writes.
Adds(f, k, l, t) ==
    /\ ~torn[f] /\ l \in Signed /\ l.id = written + 1 /\ l.kind = k
    /\ text' = [text EXCEPT ![f] = Append(text[f], l)]
    /\ torn' = [torn EXCEPT ![f] = t] /\ t \in BOOLEAN
    /\ written' = written + Cardinality(Windows(k)) /\ written' \in 0 .. MaxWindows
    /\ written + 1 <= written'
    /\ UNCHANGED <<cut, marks, lock, run, ext, flight, faults, ledger>>

LEMMA WriteIs ==
    ASSUME RunInv, NEW f \in Files, NEW k \in LineKinds, NEW r \in Runs \cup {None}, NEW whole \in BOOLEAN,
           Write(f, k, r, whole)
    PROVE  \E l, t : Adds(f, k, l, t)
<1> DEFINE l == [id |-> written + 1, kind |-> k, by |-> r]
           n == Cardinality(Windows(k))
<1>1. n \in Nat /\ n >= 1
    <2>1. n \in Nat /\ Windows(k) = 1 .. n /\ 1 \in Windows(k)
        BY WindowsAre, FS_CardinalityType
    <2> QED BY <2>1
<1>2. written \in Nat /\ MaxWindows \in Nat /\ written + n <= MaxWindows /\ written' = written + n
    BY IngestAssumption DEF Write, RunInv, Shape
<1> HIDE DEF n
<1>3. written' \in 0 .. MaxWindows /\ written + 1 <= written' /\ written + 1 \in 1 .. MaxWindows
    BY <1>1, <1>2
<1>4. l \in Signed
    BY <1>3, IngestAssumption DEF Write, Signed, Lines
<1>5. Adds(f, k, l, ~whole)
    BY <1>3, <1>4 DEF Write, Adds, RunInv, Shape
<1> QED BY <1>5

LEMMA WriteRun ==
    ASSUME RunInv, NEW f \in Files, NEW k, NEW l, NEW t, Adds(f, k, l, t)
    PROVE  RunInv'
<1>1. text[f] \in Seq(Signed) /\ Len(text[f]) \in Nat /\ l \in Signed /\ ~torn[f]
    BY FileOf, LenProperties DEF Adds
<1>2. PICK L : L = Append(text[f], l)
    OBVIOUS
<1>3. /\ L \in Seq(Signed) /\ L # <<>> /\ Len(L) = Len(text[f]) + 1
      /\ \A i \in 1 .. Len(text[f]) : L[i] = text[f][i]
      /\ L[Len(text[f]) + 1] = l
    BY <1>1, <1>2, AppendProperties
<1>4. Size(f) <= 2 * Len(L) - (IF t THEN 1 ELSE 0)
    <2>1. Size(f) = 2 * Len(text[f]) - 0
        BY <1>1 DEF Size
    <2>2. CASE t
        BY <1>1, <1>3, <2>1, <2>2
    <2>3. CASE ~t
        BY <1>1, <1>3, <2>1, <2>3
    <2> QED BY <2>2, <2>3
<1>5. Grows(f, L, t, cut[f])
    BY <1>1, <1>3, <1>4 DEF Grows, Adds, RunInv, Shape
<1>6. \A i \in 1 .. Len(L) : L[i].id <= written'
    <2> SUFFICES ASSUME NEW i \in 1 .. Len(L) PROVE L[i].id <= written'
        OBVIOUS
    <2>1. L[i] \in Signed /\ L[i].id \in Nat /\ written \in Nat /\ written' \in Nat /\ written + 1 <= written'
        <3>1. L[i] \in Signed
            BY <1>3, ElementOfSeq
        <3>2. L[i].id \in Nat
            BY <3>1 DEF Signed, Lines
        <3>3. written \in Nat /\ written' \in Nat /\ written + 1 <= written'
            BY IngestAssumption DEF Adds, RunInv, Shape
        <3> QED BY <3>1, <3>2, <3>3
    <2>2. CASE i = Len(text[f]) + 1
        BY <1>3, <2>1, <2>2 DEF Adds
    <2>3. CASE i # Len(text[f]) + 1
        <3>1. i \in 1 .. Len(text[f])
            BY <1>1, <1>3, <2>3
        <3>2. L[i].id <= written
            BY <1>3, <3>1 DEF RunInv, LinesAreCounted
        <3> QED BY <2>1, <3>2
    <2> QED BY <2>2, <2>3
<1>7. /\ text' = [text EXCEPT ![f] = L] /\ torn' = [torn EXCEPT ![f] = t] /\ cut' = [cut EXCEPT ![f] = cut[f]]
      /\ written' \in 0 .. MaxWindows /\ written <= written'
      /\ UNCHANGED <<marks, lock, run, ext, flight, faults, ledger>>
    BY <1>2, IngestAssumption DEF Adds, RunInv, Shape
<1> QED BY <1>5, <1>6, <1>7, SessionStep

LEMMA FinishLineRun ==
    ASSUME RunInv, NEW f \in Files, FinishLine(f)
    PROVE  RunInv'
<1>1. text[f] \in Seq(Signed) /\ Len(text[f]) \in Nat /\ torn[f]
    BY FileOf, LenProperties DEF FinishLine
<1>2. PICK L : L = text[f]
    OBVIOUS
<1>3. Grows(f, L, FALSE, cut[f])
    BY <1>1, <1>2 DEF Grows, Size, RunInv, Shape
<1>4. /\ text' = [text EXCEPT ![f] = L] /\ torn' = [torn EXCEPT ![f] = FALSE] /\ cut' = [cut EXCEPT ![f] = cut[f]]
      /\ written' \in 0 .. MaxWindows /\ written <= written' /\ written' = written
      /\ UNCHANGED <<marks, lock, run, ext, flight, faults, ledger>>
    BY <1>2, IngestAssumption DEF FinishLine, RunInv, Shape
<1>5. \A i \in 1 .. Len(L) : L[i].id <= written'
    BY <1>2, <1>4 DEF RunInv, LinesAreCounted
<1> QED BY <1>3, <1>4, <1>5, SessionStep

\* What a cut leaves of a file.
LEMMA CutIs ==
    ASSUME RunInv, NEW f \in Files, NEW n \in Nat, CutShort(f, n)
    PROVE  \E L \in Seq(Signed) :
              /\ text' = [text EXCEPT ![f] = L] /\ Len(L) = n /\ n < Len(text[f])
              /\ \A i \in 1 .. n : L[i] = text[f][i]
<1>1. text[f] \in Seq(Signed) /\ Len(text[f]) \in Nat /\ n < Len(text[f])
    BY FileOf, LenProperties DEF CutShort
<1>2. \A i \in 1 .. n : text[f][i] \in Signed
    BY <1>1, ElementOfSeq
<1>3. 1 \in Int /\ n \in Int /\ (IF 1 <= n THEN n - 1 + 1 ELSE 0) = n /\ n - 1 + 1 = n
    OBVIOUS
<1>4. /\ SubSeq(text[f], 1, n) \in Seq(Signed) /\ Len(SubSeq(text[f], 1, n)) = n
      /\ \A i \in 1 .. n : SubSeq(text[f], 1, n)[i] = text[f][1 + i - 1]
    BY <1>2, <1>3, SubSeqProperties
<1>5. \A i \in 1 .. n : 1 + i - 1 = i
    OBVIOUS
<1>6. text' = [text EXCEPT ![f] = SubSeq(text[f], 1, n)]
    BY DEF CutShort, RunInv, Shape
<1> QED BY <1>1, <1>4, <1>5, <1>6

LEMMA CutShortRun ==
    ASSUME RunInv, NEW f \in Files, NEW n \in Nat, CutShort(f, n)
    PROVE  RunInv'
<1>1. PICK L \in Seq(Signed) :
        text' = [text EXCEPT ![f] = L] /\ Len(L) = n /\ n < Len(text[f]) /\ \A i \in 1 .. n : L[i] = text[f][i]
    BY CutIs
<1>2. Grows(f, L, FALSE, TRUE)
    BY DEF Grows
<1>3. /\ torn' = [torn EXCEPT ![f] = FALSE] /\ cut' = [cut EXCEPT ![f] = TRUE]
      /\ written' \in 0 .. MaxWindows /\ written <= written' /\ written' = written
      /\ UNCHANGED <<marks, lock, run, ext, flight, faults, ledger>>
    BY IngestAssumption DEF CutShort, RunInv, Shape
<1>4. \A i \in 1 .. Len(L) : L[i].id <= written'
    <2>1. Len(text[f]) \in Nat
        BY FileOf, LenProperties
    <2>2. \A i \in 1 .. n : i \in 1 .. Len(text[f])
        BY <1>1, <2>1
    <2> QED BY <1>1, <1>3, <2>2 DEF RunInv, LinesAreCounted
<1> QED BY <1>1, <1>2, <1>3, <1>4, SessionStep

-----------------------------------------------------------------------------
(* Every step.                                                             *)

LEMMA IdleRun == ASSUME RunInv, UNCHANGED vars PROVE RunInv'
<1>1. Shape' /\ LinesAreCounted' /\ OffsetsAreEven'
    BY DEF RunInv, Shape, LinesAreCounted, OffsetsAreEven, vars, files, ledger
<1>2. HashesHold'
    <2>1. \A f \in Files : \A x : Stored(f, x)' <=> Stored(f, x)
        BY DEF Stored, Size, prefix_sha256, vars, files
    <2> QED BY <2>1 DEF RunInv, HashesHold, vars, files
<1>3. \A r \in Runs : (DirIsSound(run[r]) /\ CeilsFit(run[r]))'
    <2> SUFFICES ASSUME NEW r \in Runs PROVE DirIsSound(run[r])' /\ CeilsFit(run[r])'
        OBVIOUS
    <2>1. run' = run /\ DirIsSound(run[r]) /\ CeilsFit(run[r]) /\ posted' = posted
        BY RunIs DEF vars, ledger
    <2>2. DirIsSound(run[r])'
        BY <2>1 DEF DirIsSound, ListsAreOfChunks, SubmitIsComplete, DirIsSpent, DirIsEven, WindowsOf
    <2>3. CeilsFit(run[r])'
        BY <2>1 DEF CeilsFit, Size, vars, files
    <2> QED BY <2>2, <2>3
<1>4. \A e \in Extractors : ExtractIsWired(ext[e])'
    BY DEF RunInv, ExtractIsWired, vars
<1> QED BY <1>1, <1>2, <1>3, <1>4 DEF RunInv

LEMMA NextRun == ASSUME RunInv, [Next]_vars PROVE RunInv'
<1>1. ASSUME NEW f \in Files, Session(f) PROVE RunInv'
    <2>1. ASSUME NEW k \in LineKinds, NEW r \in Runs \cup {None}, NEW whole \in BOOLEAN, Write(f, k, r, whole)
          PROVE  RunInv'
        <3>1. PICK l, t : Adds(f, k, l, t)
            BY <2>1, WriteIs
        <3> QED BY <3>1, WriteRun
    <2>2. ASSUME NEW n \in 0 .. MaxWindows, CutShort(f, n) PROVE RunInv'
        <3>1. n \in Nat
            OBVIOUS
        <3> QED BY <2>2, <3>1, CutShortRun
    <2> QED BY <1>1, <2>1, <2>2, FinishLineRun DEF Session
<1>2. ASSUME NEW r \in Runs, Plan(r) PROVE RunInv'
    BY <1>2, PlanStartRun, PlanReadRun, ForgetRun DEF Plan
<1>3. ASSUME NEW r \in Runs, Submit(r) PROVE RunInv'
    BY <1>3, SubmitStartRun, SubmitPostRun, SubmitAdvanceRun, SubmitCloseRun, SubmitFailRun DEF Submit
<1>4. ASSUME NEW e \in Extractors, Extract(e) PROVE RunInv'
    BY <1>4, ExtractStartRun, ChunkOutRun, AwaitRun, ExtractDieRun DEF Extract
<1>5. ASSUME NEW m \in flight, AdvanceWatermark(m) PROVE RunInv'
    BY <1>5, AdvanceRun
<1> QED BY <1>1, <1>2, <1>3, <1>4, <1>5, IdleRun DEF Next

\* What files, directories, extracts, marks and advances are worth, in every
\* state that the owner's sessions and the three commands can reach.
THEOREM SpecRun == Spec => []RunInv
    BY InitRun, NextRun, PTL DEF Spec

\* Every variable keeps its type, and a run lists chunks that it has.
THEOREM TypeCorrect == Spec => []TypeOK
<1>1. RunInv => TypeOK
    <2> SUFFICES ASSUME RunInv PROVE TypeOK
        OBVIOUS
    <2>1. Seq(Signed) \subseteq Seq(Lines)
        <3>1. Signed \subseteq Lines
            BY DEF Signed
        <3>2. ASSUME NEW s \in Seq(Signed) PROVE s \in Seq(Lines)
            <4>1. Len(s) \in Nat /\ s = [i \in 1 .. Len(s) |-> s[i]] /\ \A i \in 1 .. Len(s) : s[i] \in Lines
                BY <3>1, LenProperties, ElementOfSeq
            <4> QED BY <4>1, IsASeq
        <3> QED BY <3>2
    <2>2. Hash \subseteq Hashes
        BY <2>1 DEF Hash, Hashes
    <2>3. \A r \in Runs : /\ run[r].phase \in Phases /\ DOMAIN run[r].ceil \subseteq Files
                          /\ run[r].pieces \subseteq Pieces /\ run[r].spans \in BOOLEAN
                          /\ run[r].out \cup run[r].failed \cup run[r].got \cup run[r].unext \subseteq Chunks(r)
        BY RunIs DEF RunDirs, DirIsSound, ListsAreOfChunks, Chunks
    <2>4. \A e \in Extractors : ext[e].of \in Runs \cup {None} /\ ext[e].wrote \subseteq ext[e].todo
        BY ExtractIs DEF Extracts, ExtractIsWired
    <2>5. \A m \in flight : m.run \in Runs /\ m.file \in Files /\ m.hash \in Hashes
        BY <2>2, FlightIs DEF Advances
    <2>6. text \in [Files -> Seq(Lines)] /\ marks \in [Files -> [off : Nat, hash : Hashes]]
        BY <2>1, <2>2 DEF RunInv, Shape
    <2> QED BY <2>3, <2>4, <2>5, <2>6 DEF TypeOK, RunInv, Shape
<1> QED BY <1>1, SpecRun, PTL

\* A file that was only ever appended to is read on from its mark.
THEOREM FilesAreReadOnce == Spec => []NoNeedlessReread
<1>1. RunInv => NoNeedlessReread
    <2> SUFFICES ASSUME RunInv, NEW f \in Files, ~cut[f] PROVE ByteStart(f) = marks[f].off
        BY DEF NoNeedlessReread
    <2>1. marks[f].off \in Nat /\ marks[f].hash = prefix_sha256(f, marks[f].off)
        BY DEF RunInv, HashesHold, Stored, OffsetsAreEven, Even
    <2> QED BY <2>1 DEF ByteStart
<1> QED BY <1>1, SpecRun, PTL

\* What a finished run deletes is on the server.
THEOREM NothingUnsentIsSwept == Spec => []SweptIsSpent
<1>1. RunInv => SweptIsSpent
    BY RunIs DEF SweptIsSpent, DirIsSound, DirIsSpent, WindowsIn, WindowsOf, Chunks
<1> QED BY <1>1, SpecRun, PTL

-----------------------------------------------------------------------------
(* Speech: steps that leave the files alone.                               *)

\* What was dealt with stays so.
LEMMA SettledStays ==
    ASSUME NEW m, Settled(m), posted \subseteq posted', screened \subseteq screened'
    PROVE  Settled(m)'
<1>1. \A l : Handled(l) => Handled(l)'
    BY DEF Handled
<1> QED BY <1>1 DEF Settled

LEMMA CoveredStays ==
    ASSUME NEW d, DirIsCovered(d), UNCHANGED files, posted \subseteq posted', screened \subseteq screened'
    PROVE  DirIsCovered(d)'
<1>1. \A l : Handled(l) => Handled(l)'
    BY DEF Handled
<1>2. \A f : Whole(f)' = Whole(f)
    BY DEF Whole, files
<1>3. \A f, i, w : Holds(d, f, i, w)' <=> Holds(d, f, i, w)
    BY DEF Holds, files
<1>4. CeilsAreCovered(d)'
    BY <1>1, <1>2, <1>3 DEF DirIsCovered, CeilsAreCovered, files
<1>5. SpansAreOutside(d)'
    BY <1>2 DEF DirIsCovered, SpansAreOutside, files
<1>6. \A id : IsOwners(id) => IsOwners(id)'
    BY DEF IsOwners, Fenced, files
<1> QED BY <1>4, <1>5, <1>6 DEF DirIsCovered
\* A directory that keeps its work, or has none any more.
Carries(d, e) ==
    \/ d.ceil = e.ceil /\ d.pieces = e.pieces /\ d.chunks = e.chunks
    \/ DOMAIN d.ceil = {} /\ d.pieces = {}

LEMMA CarriedIsCovered ==
    ASSUME NEW d, NEW e, Carries(d, e), DirIsCovered(e)
    PROVE  DirIsCovered(d)
<1>1. CASE d.ceil = e.ceil /\ d.pieces = e.pieces /\ d.chunks = e.chunks
    <2>1. \A f, i, w : Holds(d, f, i, w) <=> Holds(e, f, i, w)
        BY <1>1 DEF Holds
    <2>2. CeilsAreCovered(d)
        BY <1>1, <2>1 DEF DirIsCovered, CeilsAreCovered
    <2> QED BY <1>1, <2>2 DEF DirIsCovered, SpansAreOutside
<1>2. CASE DOMAIN d.ceil = {} /\ d.pieces = {}
    BY <1>2 DEF DirIsCovered, CeilsAreCovered, SpansAreOutside
<1> QED BY <1>1, <1>2 DEF Carries

\* A step that leaves the files alone and plans nothing.
LEMMA SpeechStep ==
    ASSUME SpeechInv, UNCHANGED files, \A r \in Runs : Carries(run'[r], run[r]),
           posted \subseteq posted', screened \subseteq screened',
           \A x \in posted' : IsOwners(x[1]), MarksAreSettled'
    PROVE  SpeechInv'
<1>1. IdsAreDistinct'
    BY DEF SpeechInv, IdsAreDistinct, files
<1>2. \A x \in posted' : IsOwners(x[1])'
    <2>1. \A id : IsOwners(id) => IsOwners(id)'
        BY DEF IsOwners, Fenced, files
    <2> QED BY <2>1
<1>3. \A r \in Runs : DirIsCovered(run[r])'
    <2> SUFFICES ASSUME NEW r \in Runs PROVE DirIsCovered(run[r])'
        OBVIOUS
    <2>1. PICK d, e : d = run'[r] /\ e = run[r]
        OBVIOUS
    <2>2. DirIsCovered(d)
        BY <2>1, CarriedIsCovered DEF SpeechInv
    <2>3. DirIsCovered(d)'
        BY <2>2, CoveredStays
    <2>4. CeilsAreCovered(run[r])' /\ SpansAreOutside(run[r])'
        BY <2>1, <2>3 DEF DirIsCovered, CeilsAreCovered, SpansAreOutside, Holds
    <2> QED BY <2>1, <2>3, <2>4 DEF DirIsCovered
<1> QED BY <1>1, <1>2, <1>3 DEF SpeechInv

LEMMA MarksStay ==
    ASSUME MarksAreSettled, posted \subseteq posted', screened \subseteq screened', marks' = marks,
           \A m \in flight' : \E n \in flight : m.off = n.off /\ m.hash = n.hash
    PROVE  MarksAreSettled'
<1>1. \A f \in Files : Settled(marks[f])'
    <2> SUFFICES ASSUME NEW f \in Files PROVE Settled(marks[f])'
        OBVIOUS
    <2>1. PICK m : m = marks[f]
        OBVIOUS
    <2>2. Settled(m)'
        BY <2>1, SettledStays DEF MarksAreSettled
    <2> QED BY <2>1, <2>2 DEF Settled
<1>2. \A m \in flight' : Settled(m)'
    <2> SUFFICES ASSUME NEW m \in flight' PROVE Settled(m)'
        OBVIOUS
    <2>1. PICK n \in flight : m.off = n.off /\ m.hash = n.hash
        OBVIOUS
    <2>2. Settled(m)
        BY <2>1 DEF MarksAreSettled, Settled
    <2> QED BY <2>2, SettledStays
<1> QED BY <1>1, <1>2 DEF MarksAreSettled

LEMMA PlanStartSpeech ==
    ASSUME RunInv, SpeechInv, NEW r \in Runs, NEW scope, PlanStart(r, scope)
    PROVE  SpeechInv'
<1> DEFINE d == [NoRun EXCEPT !.phase = "planning", !.scope = scope]
<1>1. run' = [run EXCEPT ![r] = d] /\ UNCHANGED <<files, marks, flight, posted, screened>>
    BY DEF PlanStart, ledger
<1>2. DOMAIN d.ceil = {} /\ d.pieces = {}
    BY NoRunIs DEF RunDirs
<1> HIDE DEF d
<1>3. \A q \in Runs : Carries(run'[q], run[q])
    BY <1>1, <1>2 DEF Carries, RunInv, Shape
<1> QED BY <1>1, <1>3, MarksStay, SpeechStep DEF SpeechInv

LEMMA ForgetSpeech ==
    ASSUME RunInv, SpeechInv, NEW r \in Runs, PlanFail(r) \/ Abandon(r)
    PROVE  SpeechInv'
<1>1. run' = [run EXCEPT ![r] = NoRun] /\ UNCHANGED <<files, marks, flight, posted, screened>>
    BY DEF PlanFail, Abandon, ledger
<1>2. \A q \in Runs : Carries(run'[q], run[q])
    BY <1>1, NoRunIs DEF Carries, RunInv, Shape
<1> QED BY <1>1, <1>2, MarksStay, SpeechStep DEF SpeechInv

\* A command that touches neither the work of a run nor a mark.
Works(r) ==
    /\ UNCHANGED <<files, marks, flight, posted, screened>>
    /\ \E d : /\ run' = [run EXCEPT ![r] = d]
              /\ d.ceil = run[r].ceil /\ d.pieces = run[r].pieces /\ d.chunks = run[r].chunks

LEMMA WorksSpeech ==
    ASSUME RunInv, SpeechInv, NEW r \in Runs, Works(r)
    PROVE  SpeechInv'
<1>1. UNCHANGED <<files, marks, flight, posted, screened>>
    BY DEF Works
<1>2. PICK d : /\ run' = [run EXCEPT ![r] = d]
               /\ d.ceil = run[r].ceil /\ d.pieces = run[r].pieces /\ d.chunks = run[r].chunks
    BY DEF Works
<1>3. \A q \in Runs : Carries(run'[q], run[q])
    BY <1>2 DEF Carries, RunInv, Shape
<1> QED BY <1>1, <1>3, MarksStay, SpeechStep DEF SpeechInv

\* Extract only writes outputs and its own state.
LEMMA ExtractSpeech ==
    ASSUME RunInv, SpeechInv, NEW e \in Extractors, Extract(e)
    PROVE  SpeechInv'
<1>1. UNCHANGED <<files, marks, flight, posted, screened>>
    BY DEF Extract, ExtractStart, ChunkOut, ChunkDone, ChunkFailed, Await, ExtractDie, ledger
<1>2. \A q \in Runs : run'[q].ceil = run[q].ceil /\ run'[q].pieces = run[q].pieces /\ run'[q].chunks = run[q].chunks
    <2>1. \A q \in Runs : run[q] \in RunDirs
        BY DEF RunInv, Shape
    <2>2. CASE run' = run
        BY <2>2
    <2>3. CASE \E q \in Runs : \E c : run' = [run EXCEPT ![q].out = @ \cup {c}]
        BY <2>1, <2>3 DEF RunInv, Shape, RunDirs
    <2>4. CASE \E q \in Runs : \E c : run' = [run EXCEPT ![q].failed = c]
        BY <2>1, <2>4 DEF RunInv, Shape, RunDirs
    <2>5. run' = run \/ \E c \in ext[e].todo : ChunkOut(e, c) \/ ChunkDone(e, c) \/ ChunkFailed(e, c)
        BY DEF Extract, ExtractStart, ExtractDie
    <2>6. ASSUME NEW c \in ext[e].todo, ChunkOut(e, c) \/ ChunkDone(e, c) \/ ChunkFailed(e, c)
          PROVE  \E q \in Runs : (\E x : run' = [run EXCEPT ![q].out = @ \cup {x}])
                                 \/ (\E x : run' = [run EXCEPT ![q].failed = x])
        <3>1. ext[e].of \in Runs
            BY <2>6, ExtractIs DEF ExtractIsWired, Extracts
        <3>2. CASE ChunkOut(e, c)
            BY <3>1, <3>2 DEF ChunkOut
        <3>3. CASE ChunkDone(e, c)
            BY <3>1, <3>3 DEF ChunkDone, Await
        <3>4. CASE ChunkFailed(e, c)
            BY <3>1, <3>4 DEF ChunkFailed, Await
        <3> QED BY <2>6, <3>2, <3>3, <3>4
    <2> QED BY <2>2, <2>3, <2>4, <2>5, <2>6
<1>3. \A q \in Runs : Carries(run'[q], run[q])
    BY <1>2 DEF Carries
<1> QED BY <1>1, <1>3, MarksStay, SpeechStep DEF SpeechInv

LEMMA SubmitStartSpeech ==
    ASSUME RunInv, SpeechInv, NEW r \in Runs, SubmitStart(r)
    PROVE  SpeechInv'
<1> DEFINE missing == (Chunks(r) \ run[r].out) \ run[r].failed
           d == [run[r] EXCEPT !.phase = "posting", !.got = Chunks(r) \cap run[r].out,
                               !.unext = missing \cup run[r].failed]
<1>1. run[r] \in RunDirs /\ run \in [Runs -> RunDirs]
    BY DEF RunInv, Shape
<1>2. run' = [run EXCEPT ![r] = d] /\ UNCHANGED <<files, marks, flight, posted, screened>>
    BY <1>1 DEF SubmitStart, ledger
<1>3. d.ceil = run[r].ceil /\ d.pieces = run[r].pieces /\ d.chunks = run[r].chunks
    BY <1>1 DEF RunDirs
<1> HIDE DEF d
<1> QED BY <1>2, <1>3, WorksSpeech DEF Works

LEMMA SubmitCloseSpeech ==
    ASSUME RunInv, SpeechInv, NEW r \in Runs, NEW sweep, SubmitClose(r, sweep)
    PROVE  SpeechInv'
<1> DEFINE d == [run[r] EXCEPT !.phase = "closed", !.got = {}, !.unext = {},
                               !.spans = @ /\ ~sweep, !.out = IF sweep THEN {} ELSE @]
<1>1. run[r] \in RunDirs /\ run \in [Runs -> RunDirs]
    BY DEF RunInv, Shape
<1>2. run' = [run EXCEPT ![r] = d] /\ UNCHANGED <<files, marks, flight, posted, screened>>
    BY <1>1 DEF SubmitClose, ledger
<1>3. d.ceil = run[r].ceil /\ d.pieces = run[r].pieces /\ d.chunks = run[r].chunks
    BY <1>1 DEF RunDirs
<1> HIDE DEF d
<1> QED BY <1>2, <1>3, WorksSpeech DEF Works

\* What is posted is in the worklist, so it is the owner's.
LEMMA PostIsOwners ==
    ASSUME SpeechInv, NEW r \in Runs, NEW chunks, NEW x \in WindowsIn(r, chunks)
    PROVE  IsOwners(x[1])
    BY DEF WindowsIn, SpeechInv, DirIsCovered

LEMMA SubmitPostSpeech ==
    ASSUME RunInv, SpeechInv, NEW r \in Runs, SubmitPost(r)
    PROVE  SpeechInv'
<1>1. run' = [run EXCEPT ![r].phase = "posted"] /\ UNCHANGED <<files, marks, flight, screened>>
      /\ posted' = posted \cup WindowsIn(r, run[r].got)
    BY DEF SubmitPost
<1>2. \A q \in Runs : Carries(run'[q], run[q])
    BY <1>1 DEF Carries, RunInv, Shape, RunDirs
<1>3. \A x \in posted' : IsOwners(x[1])
    BY <1>1, PostIsOwners DEF SpeechInv
<1> QED BY <1>1, <1>2, <1>3, MarksStay, SpeechStep DEF SpeechInv

LEMMA SubmitFailSpeech ==
    ASSUME RunInv, SpeechInv, NEW r \in Runs, NEW sent, NEW applied, SubmitFail(r, sent, applied)
    PROVE  SpeechInv'
<1>1. run' = [run EXCEPT ![r].phase = "ready", ![r].got = {}, ![r].unext = {}]
      /\ UNCHANGED <<files, marks, screened>>
    BY DEF SubmitFail
<1>2. \A q \in Runs : Carries(run'[q], run[q])
    BY <1>1 DEF Carries, RunInv, Shape, RunDirs
<1>3. posted \subseteq posted' /\ \A x \in posted' : IsOwners(x[1])
    BY PostIsOwners DEF SpeechInv, SubmitFail
<1>4. ASSUME NEW m \in flight' PROVE \E n \in flight : m.off = n.off /\ m.hash = n.hash
    <2>1. PICK n \in flight : m = [n EXCEPT !.live = @ /\ n.run # r]
        BY DEF SubmitFail
    <2>2. n \in Advances
        BY FlightIs
    <2> QED BY <2>1, <2>2 DEF Advances
<1> QED BY <1>1, <1>2, <1>3, <1>4, MarksStay, SpeechStep DEF SpeechInv
\* The mark that wins was settled before it came.
LEMMA AdvanceSpeech ==
    ASSUME RunInv, SpeechInv, NEW m \in flight, AdvanceWatermark(m)
    PROVE  SpeechInv'
<1>1. /\ marks' = [marks EXCEPT ![m.file] =
                      IF m.off > marks[m.file].off THEN [off |-> m.off, hash |-> m.hash] ELSE marks[m.file]]
      /\ flight' = flight \ {m} /\ UNCHANGED <<files, run, posted, screened>>
    BY DEF AdvanceWatermark, RunInv, Shape, ledger
<1>2. \A q \in Runs : Carries(run'[q], run[q])
    BY <1>1 DEF Carries
<1>3. ASSUME NEW f \in Files PROVE Settled(marks[f])'
    <2>1. PICK x : x = marks'[f]
        OBVIOUS
    <2>2. x = marks[f] \/ (x.off = m.off /\ x.hash = m.hash)
        BY <1>1, <2>1 DEF RunInv, Shape
    <2>3. Settled(x)
        BY <2>2 DEF SpeechInv, MarksAreSettled, Settled
    <2>4. Settled(x)'
        BY <1>1, <2>3, SettledStays
    <2> QED BY <2>1, <2>4 DEF Settled
<1>4. ASSUME NEW x \in flight' PROVE Settled(x)'
    BY <1>1, SettledStays DEF SpeechInv, MarksAreSettled
<1> QED BY <1>1, <1>2, <1>3, <1>4, SpeechStep DEF SpeechInv, MarksAreSettled

\* The rule that keeps a mark behind what was not extracted: whatever starts
\* before the mark was handed over.
LEMMA HoldBackSettles ==
    ASSUME RunInv, SpeechInv, NEW r \in Runs, run[r].phase = "posted", NEW f \in DOMAIN run[r].ceil,
           NEW m, m.off = HoldBack(r, f), m.hash = prefix_sha256(f, HoldBack(r, f))
    PROVE  Settled(m)
<1>1. PICK n : n = HoldBack(r, f)
    OBVIOUS
<1>2. PICK h : h = n \div 2
    OBVIOUS
<1>3. /\ f \in Files /\ Even(n) /\ n <= run[r].ceil[f]
      /\ \A p \in run[r].pieces : p.file = f /\ p.chunk \in run[r].unext => n <= p.start
      /\ \/ n = run[r].ceil[f]
         \/ \E p \in run[r].pieces : p.file = f /\ n = p.start
    BY <1>1, HoldBackIs
<1>4. n \in Nat /\ h \in Nat /\ n = 2 * h
    BY <1>2, <1>3, HalfIs
<1>5. PICK c : c = run[r].ceil[f] \div 2
    OBVIOUS
<1>6. DirIsSound(run[r]) /\ DirIsCovered(run[r])
    BY RunIs DEF SpeechInv
<1>7. c \in Nat /\ run[r].ceil[f] = 2 * c /\ c <= Whole(f) /\ h <= c
    <2>1. Even(run[r].ceil[f])
        BY <1>6 DEF DirIsSound, DirIsEven
    <2>2. c \in Nat /\ run[r].ceil[f] = 2 * c
        BY <1>5, <2>1, HalfIs
    <2>3. c <= Whole(f)
        BY <1>5, <1>6 DEF DirIsCovered, CeilsAreCovered
    <2> QED BY <1>3, <1>4, <2>2, <2>3
<1>8. Len(text[f]) \in Nat /\ Size(f) \in Nat /\ Whole(f) \in 0 .. Len(text[f]) /\ 2 * Whole(f) <= Size(f)
    BY <1>3, FileOf, FileIs
<1>9. n <= Size(f) /\ h <= Len(text[f])
    BY <1>4, <1>7, <1>8
<1>10. PICK L : L = m.hash.of
    OBVIOUS
<1>11. /\ L \in Seq(Signed) /\ Len(L) = h /\ m.hash.bytes = n /\ m.off = n
       /\ \A i \in 1 .. h : L[i] = text[f][i]
    <2>1. /\ prefix_sha256(f, n) \in Hash
          /\ prefix_sha256(f, n).bytes = n /\ Len(prefix_sha256(f, n).of) = n \div 2
          /\ \A i \in 1 .. (n \div 2) : prefix_sha256(f, n).of[i] = text[f][i]
        BY <1>3, <1>4, <1>9, PrefixIs
    <2>2. m.hash = prefix_sha256(f, n) /\ m.off = n
        BY <1>1
    <2>3. L = prefix_sha256(f, n).of
        BY <1>10, <2>2
    <2> QED BY <1>2, <2>1, <2>2, <2>3 DEF Hash
<1>12. /\ \A i \in 0 .. h : FenceAt(L, i) = FenceAt(text[f], i)
       /\ \A i \in 1 .. h : Speaks(L, i) <=> Speaks(text[f], i)
    <2>1. PICK M : M = text[f]
        OBVIOUS
    <2>2. M \in Seq(Signed) /\ h \in 0 .. Len(L) /\ h <= Len(M) /\ \A i \in 1 .. h : L[i] = M[i]
        BY <1>3, <1>4, <1>9, <1>11, <2>1, FileOf
    <2>3. /\ \A i \in 0 .. h : FenceAt(L, i) = FenceAt(M, i)
          /\ \A i \in 1 .. h : Speaks(L, i) <=> Speaks(M, i)
        BY <1>11, <2>2, FencePrefix
    <2> QED BY <2>1, <2>3
<1>13. FenceAt(text[f], h) = Closed
    <2>1. CASE n = run[r].ceil[f]
        BY <1>2, <1>6, <2>1 DEF DirIsCovered, CeilsAreCovered
    <2>2. CASE \E p \in run[r].pieces : p.file = f /\ n = p.start
        BY <1>2, <1>6, <2>2 DEF DirIsCovered, SpansAreOutside
    <2> QED BY <1>3, <2>1, <2>2
<1>14. ASSUME NEW i \in 1 .. h, Speaks(text[f], i) PROVE Handled(text[f][i])
    <2>1. i \in 1 .. c /\ 2 * (i - 1) < n
        BY <1>4, <1>7
    <2>2. Handled(text[f][i]) \/ \A w \in Windows(text[f][i].kind) : Holds(run[r], f, i, w)
        BY <1>5, <1>6, <1>14, <2>1 DEF DirIsCovered, CeilsAreCovered
    <2>3. ASSUME NEW w, Holds(run[r], f, i, w) PROVE <<text[f][i].id, w>> \in posted
        <3>1. PICK p \in run[r].pieces :
                p.file = f /\ p.line = text[f][i].id /\ p.win = w
                    /\ p.start <= 2 * (i - 1) /\ p.chunk \in 1 .. run[r].chunks
            BY <2>3 DEF Holds
        <3>2. p.start \in Nat
            BY <1>6 DEF DirIsSound, DirIsEven, Even
        <3>3. p.chunk \notin run[r].unext
            BY <1>3, <1>4, <2>1, <3>1, <3>2
        <3>4. p.chunk \in run[r].got /\ WindowsOf(run[r], run[r].got) \subseteq posted
            BY <1>6, <3>1, <3>3 DEF DirIsSound, SubmitIsComplete
        <3> QED BY <3>1, <3>4 DEF WindowsOf
    <2> QED BY <2>2, <2>3 DEF Handled
<1>15. \A i \in 1 .. Len(L) : Speaks(L, i) => Handled(L[i])
    BY <1>11, <1>12, <1>14
<1>16. h \in 0 .. h
    BY <1>4
<1>17. m.off = 2 * Len(L) /\ FenceAt(L, Len(L)) = Closed
    BY <1>4, <1>11, <1>12, <1>13, <1>16
<1> QED BY <1>10, <1>11, <1>15, <1>17 DEF Settled

LEMMA SubmitAdvanceSpeech ==
    ASSUME RunInv, SpeechInv, NEW r \in Runs, NEW opened, SubmitAdvance(r, opened)
    PROVE  SpeechInv'
<1>1. run' = [run EXCEPT ![r].phase = "advancing"] /\ UNCHANGED <<files, marks, posted, screened>>
      /\ run[r].phase = "posted" /\ opened \subseteq DOMAIN run[r].ceil
    BY DEF SubmitAdvance, ledger
<1>2. \A q \in Runs : Carries(run'[q], run[q])
    BY <1>1 DEF Carries, RunInv, Shape, RunDirs
<1>3. ASSUME NEW m \in flight' PROVE Settled(m)
    <2>1. CASE m \in flight
        BY <2>1 DEF SpeechInv, MarksAreSettled
    <2>2. CASE m \notin flight
        <3>1. PICK f \in opened : m = [run |-> r, file |-> f, off |-> HoldBack(r, f),
                                       hash |-> prefix_sha256(f, HoldBack(r, f)), live |-> TRUE]
            BY <2>2 DEF SubmitAdvance
        <3>2. m.off = HoldBack(r, f) /\ m.hash = prefix_sha256(f, HoldBack(r, f))
            BY <3>1
        <3> QED BY <1>1, <3>2, HoldBackSettles
    <2> QED BY <2>1, <2>2
<1>4. \A f \in Files : Settled(marks[f])'
    <2> SUFFICES ASSUME NEW f \in Files PROVE Settled(marks[f])'
        OBVIOUS
    <2>1. PICK m : m = marks[f]
        OBVIOUS
    <2>2. Settled(m)'
        BY <1>1, <2>1, SettledStays DEF SpeechInv, MarksAreSettled
    <2> QED BY <1>1, <2>1, <2>2 DEF Settled
<1>5. \A m \in flight' : Settled(m)'
    BY <1>1, <1>3, SettledStays
<1>6. MarksAreSettled'
    BY <1>4, <1>5 DEF MarksAreSettled
<1> QED BY <1>1, <1>2, <1>6, SpeechStep DEF SpeechInv
\* A plan starts where no fence is open, behind lines that are dealt with.
LEMMA StartSettles ==
    ASSUME RunInv, SpeechInv, NEW f \in Files
    PROVE  /\ FenceAt(text[f], ByteStart(f) \div 2) = Closed
           /\ \A i \in 1 .. (ByteStart(f) \div 2) : Speaks(text[f], i) => Handled(text[f][i])
           /\ ByteStart(f) <= Size(f)
<1>1. /\ text[f] \in Seq(Signed) /\ Len(text[f]) \in Nat /\ Size(f) \in Nat
      /\ Whole(f) \in 0 .. Len(text[f])
    BY FileOf, FileIs
<1>2. CASE ByteStart(f) = 0
    <2>1. 0 \div 2 = 0
        OBVIOUS
    <2>2. FenceAt(text[f], 0) = Closed
        BY <1>1, 0 \in Nat, 0 <= Len(text[f]), FenceIs DEF FenceAt
    <2> QED BY <1>1, <1>2, <2>1, <2>2
<1>3. CASE ByteStart(f) # 0
    <2>1. PICK n : n = marks[f].off
        OBVIOUS
    <2>2. ByteStart(f) = n /\ marks[f].hash = prefix_sha256(f, n) /\ Settled(marks[f]) /\ Even(n) /\ n \in Nat
        BY <1>3, <2>1 DEF ByteStart, SpeechInv, MarksAreSettled, RunInv, OffsetsAreEven, Even
    <2>3. PICK L : L = marks[f].hash.of
        OBVIOUS
    <2>4. n = 2 * Len(L) /\ prefix_sha256(f, n).bytes = n
        BY <2>1, <2>2, <2>3 DEF Settled
    <2>5. n <= Size(f)
        BY <1>1, <2>2, <2>4 DEF prefix_sha256
    <2>6. PICK h : h = n \div 2
        OBVIOUS
    <2>7. h \in Nat /\ n = 2 * h
        BY <2>2, <2>6, HalfIs
    <2>8. /\ L \in Seq(Signed) /\ Len(L) = h /\ h <= Len(text[f])
          /\ \A i \in 1 .. h : L[i] = text[f][i]
        <3>1. /\ prefix_sha256(f, n) \in Hash
              /\ Len(prefix_sha256(f, n).of) = n \div 2 /\ n \div 2 <= Len(text[f])
              /\ \A i \in 1 .. (n \div 2) : prefix_sha256(f, n).of[i] = text[f][i]
            BY <2>2, <2>5, PrefixIs
        <3>2. L = prefix_sha256(f, n).of
            BY <2>2, <2>3
        <3> QED BY <2>6, <3>1, <3>2 DEF Hash
    <2>9. /\ \A i \in 0 .. h : FenceAt(L, i) = FenceAt(text[f], i)
          /\ \A i \in 1 .. h : Speaks(L, i) <=> Speaks(text[f], i)
        <3>1. PICK M : M = text[f]
            OBVIOUS
        <3>2. M \in Seq(Signed) /\ h \in 0 .. Len(L) /\ h <= Len(M) /\ \A i \in 1 .. h : L[i] = M[i]
            BY <1>1, <2>7, <2>8, <3>1
        <3>3. /\ \A i \in 0 .. h : FenceAt(L, i) = FenceAt(M, i)
              /\ \A i \in 1 .. h : Speaks(L, i) <=> Speaks(M, i)
            BY <2>8, <3>2, FencePrefix
        <3> QED BY <3>1, <3>3
    <2>10. FenceAt(L, h) = Closed /\ \A i \in 1 .. h : Speaks(L, i) => Handled(L[i])
        BY <2>2, <2>3, <2>8 DEF Settled
    <2>11. h \in 0 .. h
        BY <2>7
    <2> QED BY <2>2, <2>5, <2>6, <2>8, <2>9, <2>10, <2>11
<1> QED BY <1>2, <1>3

LEMMA PlanReadSpeech ==
    ASSUME RunInv, SpeechInv, NEW r \in Runs, PlanRead(r)
    PROVE  SpeechInv'
<1>1. PICK d : PlansAs(r, d)
    BY PlanReadIs
<1>2. UNCHANGED <<files, marks, flight, posted>> /\ run' = [run EXCEPT ![r] = d]
      /\ screened \subseteq screened' /\ DOMAIN d.ceil = Planned(r)
    BY <1>1 DEF PlanRead, PlansAs
<1>3. Planned(r) \subseteq Files /\ \A f \in Planned(r) : Grown(f)
    BY RunIs DEF Planned, RunDirs
<1>4. ASSUME NEW f \in Planned(r)
      PROVE  LET from == ByteStart(f) \div 2
                 n == parse_file(f, ByteStart(f)).read_to \div 2
             IN  /\ from \in 0 .. Whole(f) /\ n \in Nat /\ n <= Whole(f) /\ Whole(f) \in 0 .. Len(text[f]) /\ Len(text[f]) \in Nat
                 /\ FenceAt(text[f], n) = Closed
                 /\ Entries(f) = {i \in (from + 1) .. Whole(f) : Speaks(text[f], i)}
                 /\ \A i \in Entries(f) : FenceAt(text[f], i - 1) = Closed
                 /\ \A i \in 1 .. from : Speaks(text[f], i) => Handled(text[f][i])
    <2> DEFINE s == ByteStart(f)
               from == s \div 2
               p == parse_file(f, s)
               n == p.read_to \div 2
    <2>1. f \in Files /\ Grown(f)
        BY <1>3
    <2>2. Even(s) /\ s < Size(f) /\ Even(p.read_to) /\ p.read_to <= 2 * Whole(f)
        BY <2>1, StartIs
    <2>3. Whole(f) \in 0 .. Len(text[f]) /\ Len(text[f]) \in Nat
        BY <2>1, FileOf, FileIs
    <2>4. FenceAt(text[f], from) = Closed /\ \A i \in 1 .. from : Speaks(text[f], i) => Handled(text[f][i])
        BY <2>1, StartSettles
    <2>5. n \in Nat /\ p.read_to = 2 * n
        BY <2>2, HalfIs
    <2>6. n <= Whole(f)
        BY <2>2, <2>3, <2>5
    <2>7. /\ from \in 0 .. Whole(f)
          /\ FenceAt(text[f], n) = Closed
          /\ p.entries = {i \in (from + 1) .. Whole(f) : Speaks(text[f], i)}
          /\ \A i \in p.entries : FenceAt(text[f], i - 1) = Closed
        BY <2>1, <2>2, <2>4, FileOf, ParseIs
    <2> QED BY <2>3, <2>4, <2>5, <2>6, <2>7 DEF Entries
<1>5. \A l : Handled(l) => Handled(l)'
    BY <1>2 DEF Handled
<1>6. CeilsAreCovered(d)'
    <2>a. \A f : Whole(f)' = Whole(f)
        BY <1>2 DEF Whole, files
    <2>b. \A f, i, w : Holds(d, f, i, w)' <=> Holds(d, f, i, w)
        BY <1>2 DEF Holds, files
    <2> SUFFICES ASSUME NEW f \in DOMAIN d.ceil, NEW n, n = d.ceil[f] \div 2
                 PROVE  /\ n <= Whole(f)
                        /\ FenceAt(text[f], n) = Closed
                        /\ \A i \in 1 .. n : Speaks(text[f], i) =>
                              \/ Handled(text[f][i])'
                              \/ \A w \in Windows(text[f][i].kind) : Holds(d, f, i, w)
        BY <1>2, <2>a, <2>b DEF CeilsAreCovered, files
    <2>1. f \in Planned(r) /\ n = parse_file(f, ByteStart(f)).read_to \div 2
        BY <1>1, <1>2 DEF PlansAs
    <2>2. PICK from : from = ByteStart(f) \div 2
        OBVIOUS
    <2>3. /\ from \in 0 .. Whole(f) /\ n \in Nat /\ n <= Whole(f) /\ Whole(f) \in 0 .. Len(text[f]) /\ Len(text[f]) \in Nat
          /\ FenceAt(text[f], n) = Closed
          /\ Entries(f) = {i \in (from + 1) .. Whole(f) : Speaks(text[f], i)}
          /\ \A i \in 1 .. from : Speaks(text[f], i) => Handled(text[f][i])
        BY <1>4, <2>1, <2>2
    <2>4. ASSUME NEW i \in 1 .. n, Speaks(text[f], i)
          PROVE  Handled(text[f][i])' \/ \A w \in Windows(text[f][i].kind) : Holds(d, f, i, w)
        <3>1. CASE i <= from
            <4>1. i \in 1 .. from
                BY <2>3, <3>1
            <4>2. PICK l : l = text[f][i]
                OBVIOUS
            <4>3. Handled(l)'
                BY <1>5, <2>3, <2>4, <4>1, <4>2
            <4> QED BY <1>2, <4>2, <4>3 DEF Handled, files
        <3>2. CASE ~(i <= from)
            <4>1. i \in Entries(f)
                BY <2>3, <2>4, <3>2
            <4>2. \A w \in Windows(text[f][i].kind) : text[f][i].id \in screened' \/ Holds(d, f, i, w)
                <5>1. \A g \in Planned(r) : \A j \in Entries(g) : \A w \in Windows(text[g][j].kind) :
                        \/ text[g][j].id \in screened'
                        \/ \E p \in d.pieces : /\ p.file = g /\ p.line = text[g][j].id /\ p.win = w
                                               /\ p.start <= 2 * (j - 1) /\ p.chunk \in 1 .. d.chunks
                    BY <1>1 DEF PlansAs
                <5>2. \A w \in Windows(text[f][i].kind) :
                        \/ text[f][i].id \in screened'
                        \/ \E p \in d.pieces : /\ p.file = f /\ p.line = text[f][i].id /\ p.win = w
                                               /\ p.start <= 2 * (i - 1) /\ p.chunk \in 1 .. d.chunks
                    BY <2>1, <4>1, <5>1
                <5> QED BY <5>2 DEF Holds
            <4>3. text[f][i].id \in screened' => Handled(text[f][i])'
                BY <1>2 DEF Handled, files
            <4> QED BY <4>2, <4>3
        <3> QED BY <3>1, <3>2
    <2> QED BY <2>3, <2>4
<1>7. ASSUME NEW p \in d.pieces
      PROVE  /\ p.file \in DOMAIN d.ceil /\ p.start \div 2 <= Whole(p.file)
             /\ FenceAt(text[p.file], p.start \div 2) = Closed
             /\ IsOwners(p.line)
    <2>1. PICK f \in Planned(r) : \E i, j \in Entries(f) :
            p.file = f /\ p.line = text[f][i].id /\ p.start = 2 * (j - 1)
        BY <1>1 DEF PlansAs
    <2>2. PICK i \in Entries(f), j \in Entries(f) :
            p.file = f /\ p.line = text[f][i].id /\ p.start = 2 * (j - 1)
        BY <2>1
    <2>3. PICK from : from = ByteStart(f) \div 2
        OBVIOUS
    <2>4. /\ from \in 0 .. Whole(f) /\ Whole(f) \in 0 .. Len(text[f]) /\ Len(text[f]) \in Nat
          /\ Entries(f) = {k \in (from + 1) .. Whole(f) : Speaks(text[f], k)}
          /\ \A k \in Entries(f) : FenceAt(text[f], k - 1) = Closed
        BY <1>4, <2>3
    <2>5. j - 1 \in Nat /\ j - 1 <= Whole(f) /\ i \in 1 .. Len(text[f])
        BY <2>4
    <2>6. p.start \div 2 = j - 1
        BY <2>2, <2>5, HalfIs
    <2>7. f \in Files /\ Speaks(text[f], i)
        BY <1>3, <2>4
    <2>8. text[f][i].id \in Nat /\ text[f][i].id <= written /\ ~Fenced(f, i)
        <3>1. text[f][i] \in Signed
            BY <2>5, <2>7, FileOf, ElementOfSeq
        <3> QED BY <2>5, <2>7, <3>1 DEF RunInv, LinesAreCounted, Speaks, Fenced, Signed, Lines
    <2>9. \A g \in Files : \A k \in 1 .. Len(text[g]) : Fenced(g, k) => text[g][k].id # p.line
        BY <2>2, <2>5, <2>7, <2>8 DEF SpeechInv, IdsAreDistinct
    <2> QED BY <1>2, <2>2, <2>4, <2>5, <2>6, <2>8, <2>9 DEF IsOwners
<1>8. \A id : IsOwners(id) => IsOwners(id)'
    BY <1>2 DEF IsOwners, Fenced, files
<1>9. SpansAreOutside(d)'
    BY <1>2, <1>7 DEF SpansAreOutside, Whole, files
<1>10. DirIsCovered(d)'
    BY <1>6, <1>7, <1>8, <1>9 DEF DirIsCovered
<1>11. \A q \in Runs : DirIsCovered(run[q])'
    <2> SUFFICES ASSUME NEW q \in Runs PROVE DirIsCovered(run[q])'
        OBVIOUS
    <2>1. PICK e : e = run'[q]
        OBVIOUS
    <2>2. DirIsCovered(e)'
        <3>1. CASE q = r
            <4>1. e = d
                BY <1>2, <2>1, <3>1 DEF RunInv, Shape
            <4> QED BY <1>10, <4>1 DEF DirIsCovered, CeilsAreCovered, SpansAreOutside, Holds
        <3>2. CASE q # r
            <4>1. e = run[q]
                BY <1>2, <2>1, <3>2 DEF RunInv, Shape
            <4>2. DirIsCovered(e)
                BY <4>1 DEF SpeechInv
            <4> QED BY <1>2, <4>2, CoveredStays
        <3> QED BY <3>1, <3>2
    <2>3. CeilsAreCovered(run[q])'
        <3>1. \A f, i, w : Holds(e, f, i, w)' <=> Holds(run[q], f, i, w)'
            BY <2>1 DEF Holds
        <3> QED BY <2>1, <2>2, <3>1 DEF DirIsCovered, CeilsAreCovered
    <2>4. SpansAreOutside(run[q])'
        BY <2>1, <2>2 DEF DirIsCovered, SpansAreOutside
    <2> QED BY <2>1, <2>2, <2>3, <2>4 DEF DirIsCovered
<1>12. IdsAreDistinct'
    BY <1>2 DEF SpeechInv, IdsAreDistinct, files
<1>13. \A x \in posted' : IsOwners(x[1])'
    BY <1>2, <1>8 DEF SpeechInv
<1>14. MarksAreSettled'
    BY <1>2, MarksStay DEF SpeechInv
<1> QED BY <1>11, <1>12, <1>13, <1>14 DEF SpeechInv

-----------------------------------------------------------------------------
(* Speech: the sessions.                                                   *)

\* A file keeps its first n lines; behind them is at most one, which is new.
\* Of a file that a run has planned it keeps all.
Rewrites(f, L, t, n) ==
    /\ text' = [text EXCEPT ![f] = L] /\ torn' = [torn EXCEPT ![f] = t]
    /\ L \in Seq(Signed) /\ t \in BOOLEAN /\ n \in Nat /\ n <= Len(L) /\ n <= Len(text[f]) /\ Len(L) <= n + 1
    /\ \A i \in 1 .. n : L[i] = text[f][i]
    /\ Len(L) = n + 1 => L[n + 1].id = written + 1 /\ written + 1 <= written'
    /\ written <= written' /\ written' \in Nat
    /\ (\E r \in Runs : f \in DOMAIN run[r].ceil) =>
            n = Len(text[f]) /\ Whole(f) <= Len(L) - (IF t THEN 1 ELSE 0)
    /\ UNCHANGED <<marks, run, flight, posted, screened>>

\* A file that begins as it did, in the first k lines.
Begins(f, k) ==
    /\ k \in Nat /\ k <= Len(text[f]) /\ k <= Len(text'[f])
    /\ \A i \in 1 .. k : text'[f][i] = text[f][i]

LEMMA BeginsAlike ==
    ASSUME NEW f \in Files, text[f] \in Seq(Signed), text'[f] \in Seq(Signed), NEW k, Begins(f, k)
    PROVE  /\ \A i \in 0 .. k : FenceAt(text'[f], i) = FenceAt(text[f], i)
           /\ \A i \in 1 .. k : (Fenced(f, i)' <=> Fenced(f, i)) /\ (Speaks(text'[f], i) <=> Speaks(text[f], i))
<1>1. PICK L, M : L = text[f] /\ M = text'[f]
    OBVIOUS
<1>2. L \in Seq(Signed) /\ M \in Seq(Signed) /\ k \in 0 .. Len(L) /\ k <= Len(M) /\ \A i \in 1 .. k : L[i] = M[i]
    BY <1>1, LenProperties DEF Begins
<1>3. /\ \A i \in 0 .. k : FenceAt(L, i) = FenceAt(M, i)
      /\ \A i \in 1 .. k : (LineFenced(L, i) <=> LineFenced(M, i)) /\ (Speaks(L, i) <=> Speaks(M, i))
    BY <1>2, FencePrefix
<1>4. \A i : (Fenced(f, i)' <=> LineFenced(M, i)) /\ (Fenced(f, i) <=> LineFenced(L, i))
    BY <1>1 DEF Fenced
<1> QED BY <1>1, <1>3, <1>4

LEMMA RewriteSpeech ==
    ASSUME RunInv, SpeechInv, NEW f \in Files, NEW L, NEW t, NEW n, Rewrites(f, L, t, n)
    PROVE  SpeechInv'
<1> DEFINE K(g) == IF g = f THEN n ELSE Len(text[g])
<1>1. ASSUME NEW g \in Files
      PROVE  /\ text[g] \in Seq(Signed) /\ text'[g] \in Seq(Signed) /\ Len(text[g]) \in Nat /\ Len(text'[g]) \in Nat
             /\ Begins(g, K(g))
             /\ \A i \in 1 .. Len(text'[g]) : i \in 1 .. K(g) \/ (g = f /\ i = n + 1 /\ text'[g][i].id = written + 1 /\ written + 1 <= written')
             /\ \A i \in 1 .. Len(text[g]) : text[g][i].id \in Nat /\ text[g][i].id <= written
    <2>1. text[g] \in Seq(Signed) /\ Len(text[g]) \in Nat
        BY FileOf, LenProperties
    <2>2. text'[g] = (IF g = f THEN L ELSE text[g])
        BY DEF Rewrites, RunInv, Shape
    <2>3. \A i \in 1 .. Len(text[g]) : text[g][i].id \in Nat /\ text[g][i].id <= written
        BY <2>1, ElementOfSeq DEF RunInv, LinesAreCounted, Signed, Lines
    <2>4. CASE g = f
        <3>1. text'[g] = L /\ L \in Seq(Signed) /\ Len(L) \in Nat /\ K(g) = n
            BY <2>2, <2>4, LenProperties DEF Rewrites
        <3>2. Begins(g, n)
            BY <2>4, <3>1 DEF Begins, Rewrites
        <3>3. \A i \in 1 .. Len(L) : i \in 1 .. n \/ (i = n + 1 /\ Len(L) = n + 1)
            BY <3>1 DEF Rewrites
        <3> QED BY <2>1, <2>3, <2>4, <3>1, <3>2, <3>3 DEF Rewrites
    <2>5. CASE g # f
        <3>1. text'[g] = text[g] /\ K(g) = Len(text[g])
            BY <2>2, <2>5
        <3>2. Begins(g, K(g))
            BY <2>1, <3>1 DEF Begins
        <3> QED BY <2>1, <2>3, <3>1, <3>2
    <2> QED BY <2>4, <2>5
<1> HIDE DEF K
<1>2. ASSUME NEW g \in Files
      PROVE  /\ K(g) \in Nat /\ K(g) <= Len(text[g]) /\ K(g) <= Len(text'[g])
             /\ \A i \in 1 .. K(g) : text'[g][i] = text[g][i] /\ (Fenced(g, i)' <=> Fenced(g, i)) /\ i \in 1 .. Len(text[g])
    <2>1. PICK k : k = K(g)
        OBVIOUS
    <2>2. Begins(g, k)
        BY <1>1, <2>1
    <2>3. \A i \in 1 .. k : Fenced(g, i)' <=> Fenced(g, i)
        BY <1>1, <2>2, BeginsAlike
    <2> QED BY <1>1, <2>1, <2>2, <2>3 DEF Begins
<1>3. ASSUME NEW id, IsOwners(id) PROVE IsOwners(id)'
    <2>1. id \in Nat /\ id <= written /\ \A g \in Files : \A i \in 1 .. Len(text[g]) : Fenced(g, i) => text[g][i].id # id
        BY <1>3 DEF IsOwners
    <2>2. written \in Nat /\ written' \in Nat /\ written <= written'
        BY IngestAssumption DEF Rewrites, RunInv, Shape
    <2>3. ASSUME NEW g \in Files, NEW i \in 1 .. Len(text'[g]), Fenced(g, i)'
          PROVE  text'[g][i].id # id
        <3>1. CASE i \in 1 .. K(g)
            BY <1>2, <2>1, <2>3, <3>1
        <3>2. CASE i \notin 1 .. K(g)
            <4>1. text'[g][i].id = written + 1
                BY <1>1, <3>2
            <4> QED BY <2>1, <2>2, <4>1
        <3> QED BY <3>1, <3>2
    <2> QED BY <2>1, <2>2, <2>3 DEF IsOwners
<1>4. IdsAreDistinct'
    <2> SUFFICES ASSUME NEW g \in Files, NEW h \in Files, NEW i \in 1 .. Len(text'[g]), NEW j \in 1 .. Len(text'[h]),
                        text'[g][i].id = text'[h][j].id
                 PROVE  g = h /\ i = j
        BY DEF IdsAreDistinct
    <2>1. written \in Nat
        BY IngestAssumption DEF RunInv, Shape
    <2>2. ASSUME NEW e \in Files, NEW x \in 1 .. K(e)
          PROVE  x \in 1 .. Len(text[e]) /\ text'[e][x] = text[e][x] /\ text'[e][x].id \in Nat /\ text'[e][x].id <= written
        BY <1>1, <1>2
    <2>3. ASSUME NEW e \in Files, NEW x \in 1 .. Len(text'[e]), x \notin 1 .. K(e)
          PROVE  e = f /\ x = n + 1 /\ text'[e][x].id = written + 1
        BY <1>1, <2>3
    <2>4. CASE i \in 1 .. K(g) /\ j \in 1 .. K(h)
        <3>1. /\ i \in 1 .. Len(text[g]) /\ j \in 1 .. Len(text[h])
              /\ text'[g][i] = text[g][i] /\ text'[h][j] = text[h][j]
            BY <2>2, <2>4
        <3>2. text[g][i].id = text[h][j].id
            BY <3>1
        <3> QED BY <3>1, <3>2 DEF SpeechInv, IdsAreDistinct
    <2>5. CASE i \in 1 .. K(g) /\ j \notin 1 .. K(h)
        BY <2>1, <2>2, <2>3, <2>5
    <2>6. CASE i \notin 1 .. K(g) /\ j \in 1 .. K(h)
        BY <2>1, <2>2, <2>3, <2>6
    <2>7. CASE i \notin 1 .. K(g) /\ j \notin 1 .. K(h)
        BY <2>3, <2>7
    <2> QED BY <2>4, <2>5, <2>6, <2>7
<1>5. posted' = posted /\ screened' = screened /\ run' = run /\ marks' = marks /\ flight' = flight
    BY DEF Rewrites
<1>6. \A x \in posted' : IsOwners(x[1])'
    BY <1>3, <1>5 DEF SpeechInv
<1>7. \A l : Handled(l)' <=> Handled(l)
    BY <1>5 DEF Handled
<1>8. ASSUME NEW r \in Runs, NEW g \in DOMAIN run[r].ceil
      PROVE  /\ g \in Files /\ Whole(g) <= Whole(g)' /\ Whole(g) \in 0 .. Len(text[g]) /\ Whole(g)' \in Nat
             /\ Begins(g, Len(text[g])) /\ text[g] \in Seq(Signed) /\ text'[g] \in Seq(Signed) /\ Len(text[g]) \in Nat
    <2>1. g \in Files
        BY RunIs DEF DirIsSound, ListsAreOfChunks
    <2>2. Whole(g) \in 0 .. Len(text[g]) /\ Len(text[g]) \in Nat
        BY <2>1, FileOf, FileIs
    <2>3. CASE g = f
        <3>1. text'[g] = L /\ torn'[g] = t
            BY <2>3 DEF Rewrites, RunInv, Shape
        <3>2. Whole(g)' = Len(L) - (IF t THEN 1 ELSE 0)
            BY <1>1, <2>1, <3>1 DEF Whole
        <3>3. n = Len(text[g]) /\ Whole(g) <= Whole(g)' /\ K(g) = n
            BY <1>8, <2>3, <3>2 DEF Rewrites, K
        <3>4. Whole(g)' \in Nat
            <4>1. Len(L) \in Nat /\ (IF t THEN 1 ELSE 0) \in Nat
                BY <1>1, <2>1, <3>1
            <4> QED BY <2>2, <3>2, <3>3, <4>1
        <3> QED BY <1>1, <2>1, <2>2, <3>3, <3>4
    <2>4. CASE g # f
        <3>1. text'[g] = text[g] /\ torn'[g] = torn[g]
            BY <2>1, <2>4 DEF Rewrites, RunInv, Shape
        <3>2. Whole(g)' = Whole(g) /\ K(g) = Len(text[g])
            BY <2>4, <3>1 DEF Whole, K
        <3> QED BY <1>1, <2>1, <2>2, <3>2
    <2> QED BY <2>3, <2>4
<1>9. ASSUME NEW r \in Runs PROVE CeilsAreCovered(run[r])'
    <2>1. PICK d : d = run[r]
        OBVIOUS
    <2>2. DirIsCovered(d) /\ DirIsSound(d) /\ d = run'[r]
        BY <1>5, <2>1, RunIs DEF SpeechInv
    <2>3. ASSUME NEW g \in DOMAIN d.ceil, NEW c, c = d.ceil[g] \div 2
          PROVE  /\ c <= Whole(g)'
                 /\ FenceAt(text'[g], c) = Closed
                 /\ \A i \in 1 .. c : Speaks(text'[g], i) =>
                       \/ Handled(text[g][i])'
                       \/ \A w \in Windows(text'[g][i].kind) : Holds(d, g, i, w)'
        <3>1. PICK k : k = Len(text[g])
            OBVIOUS
        <3>2. /\ g \in Files /\ Whole(g) <= Whole(g)' /\ Whole(g) \in 0 .. k /\ Whole(g)' \in Nat
              /\ Begins(g, k) /\ text[g] \in Seq(Signed) /\ text'[g] \in Seq(Signed) /\ k \in Nat
            BY <1>8, <2>1, <3>1
        <3>3. /\ c <= Whole(g) /\ FenceAt(text[g], c) = Closed
              /\ \A i \in 1 .. c : Speaks(text[g], i) =>
                    Handled(text[g][i]) \/ \A w \in Windows(text[g][i].kind) : Holds(d, g, i, w)
            BY <2>2, <2>3 DEF DirIsCovered, CeilsAreCovered
        <3>4. c \in Nat
            BY <2>2, <2>3, HalfIs DEF DirIsSound, DirIsEven
        <3>5. c \in 0 .. k /\ c <= Whole(g)' /\ \A i \in 1 .. c : i \in 1 .. k
            BY <3>2, <3>3, <3>4
        <3>6. /\ FenceAt(text'[g], c) = FenceAt(text[g], c)
              /\ \A i \in 1 .. c : Speaks(text'[g], i) <=> Speaks(text[g], i)
            BY <3>2, <3>5, BeginsAlike
        <3>7. ASSUME NEW i \in 1 .. c, Speaks(text'[g], i)
              PROVE  \/ Handled(text[g][i])'
                     \/ \A w \in Windows(text'[g][i].kind) : Holds(d, g, i, w)'
            <4>1. PICK l : l = text[g][i]
                OBVIOUS
            <4>2. text'[g][i] = l
                BY <3>2, <3>5, <4>1 DEF Begins
            <4>3. Handled(l) \/ \A w \in Windows(l.kind) : Holds(d, g, i, w)
                BY <3>3, <3>6, <3>7, <4>1
            <4>4. \A w : Holds(d, g, i, w) => Holds(d, g, i, w)'
                BY <4>1, <4>2 DEF Holds
            <4>5. Handled(l) => Handled(text[g][i])'
                BY <1>5, <4>2 DEF Handled
            <4> QED BY <4>2, <4>3, <4>4, <4>5
        <3> QED BY <3>3, <3>5, <3>6, <3>7
    <2>4. CeilsAreCovered(d)'
        BY <2>3 DEF CeilsAreCovered
    <2> QED BY <2>2, <2>4 DEF CeilsAreCovered, Holds
<1>10. ASSUME NEW r \in Runs PROVE SpansAreOutside(run[r])'
    <2>1. ASSUME NEW p \in run[r].pieces
          PROVE  /\ p.file \in DOMAIN run[r].ceil
                 /\ p.start \div 2 <= Whole(p.file)'
                 /\ FenceAt(text'[p.file], p.start \div 2) = Closed
        <3>1. PICK g, c : g = p.file /\ c = p.start \div 2
            OBVIOUS
        <3>2. DirIsCovered(run[r]) /\ Even(p.start)
            BY RunIs DEF SpeechInv, DirIsSound, DirIsEven
        <3>3. g \in DOMAIN run[r].ceil /\ c <= Whole(g) /\ FenceAt(text[g], c) = Closed
            BY <3>1, <3>2 DEF DirIsCovered, SpansAreOutside
        <3>4. PICK k : k = Len(text[g])
            OBVIOUS
        <3>5. /\ g \in Files /\ Whole(g) <= Whole(g)' /\ Whole(g) \in 0 .. k /\ Whole(g)' \in Nat
              /\ Begins(g, k) /\ text[g] \in Seq(Signed) /\ text'[g] \in Seq(Signed) /\ k \in Nat
            BY <1>8, <3>3, <3>4
        <3>6. c \in Nat
            BY <3>1, <3>2, HalfIs
        <3>7. c \in 0 .. k /\ c <= Whole(g)'
            BY <3>3, <3>5, <3>6
        <3>8. FenceAt(text'[g], c) = FenceAt(text[g], c)
            BY <3>5, <3>7, BeginsAlike
        <3> QED BY <3>1, <3>3, <3>7, <3>8 DEF Whole
    <2> QED BY <1>5, <2>1 DEF SpansAreOutside
<1>11. MarksAreSettled'
    BY <1>5, MarksStay DEF SpeechInv
<1>12. \A r \in Runs : DirIsCovered(run[r])'
    <2> SUFFICES ASSUME NEW r \in Runs PROVE DirIsCovered(run[r])'
        OBVIOUS
    <2>1. \A p \in run[r].pieces : IsOwners(p.line)
        BY DEF SpeechInv, DirIsCovered
    <2>2. \A p \in run'[r].pieces : IsOwners(p.line)'
        BY <1>3, <1>5, <2>1
    <2> QED BY <1>9, <1>10, <2>2 DEF DirIsCovered
<1> QED BY <1>4, <1>6, <1>11, <1>12 DEF SpeechInv

LEMMA WriteSpeech ==
    ASSUME RunInv, SpeechInv, NEW f \in Files, NEW k, NEW l, NEW t, Adds(f, k, l, t)
    PROVE  SpeechInv'
<1>1. text[f] \in Seq(Signed) /\ Len(text[f]) \in Nat /\ l \in Signed /\ ~torn[f] /\ t \in BOOLEAN
    BY FileOf, LenProperties DEF Adds
<1>2. PICK L, n : L = Append(text[f], l) /\ n = Len(text[f])
    OBVIOUS
<1>3. /\ L \in Seq(Signed) /\ Len(L) = n + 1 /\ L[n + 1] = l
      /\ \A i \in 1 .. n : L[i] = text[f][i]
    BY <1>1, <1>2, AppendProperties
<1>4. Whole(f) <= Len(L) - (IF t THEN 1 ELSE 0)
    <2>1. Whole(f) = n
        BY <1>1, <1>2 DEF Whole
    <2>2. CASE t
        BY <1>1, <1>2, <1>3, <2>1, <2>2
    <2>3. CASE ~t
        BY <1>1, <1>2, <1>3, <2>1, <2>3
    <2> QED BY <2>2, <2>3
<1>5. written <= written' /\ written' \in Nat /\ written + 1 <= written' /\ l.id = written + 1
    BY IngestAssumption DEF Adds, RunInv, Shape
<1>6. text' = [text EXCEPT ![f] = L] /\ torn' = [torn EXCEPT ![f] = t]
      /\ UNCHANGED <<marks, run, flight, posted, screened>>
    BY <1>2 DEF Adds, ledger
<1>7. n \in Nat /\ n <= Len(L) /\ n <= Len(text[f]) /\ Len(L) <= n + 1 /\ L[n + 1].id = written + 1
    BY <1>1, <1>2, <1>3, <1>5
<1>8. Rewrites(f, L, t, n)
    BY <1>1, <1>2, <1>3, <1>4, <1>5, <1>6, <1>7 DEF Rewrites
<1> QED BY <1>8, RewriteSpeech

LEMMA FinishLineSpeech ==
    ASSUME RunInv, SpeechInv, NEW f \in Files, FinishLine(f)
    PROVE  SpeechInv'
<1>1. text[f] \in Seq(Signed) /\ Len(text[f]) \in Nat
    BY FileOf, LenProperties
<1>2. PICK L, n : L = text[f] /\ n = Len(text[f])
    OBVIOUS
<1>3. Whole(f) <= Len(L) - (IF FALSE THEN 1 ELSE 0)
    BY <1>1, <1>2 DEF Whole
<1>4. /\ text' = [text EXCEPT ![f] = L] /\ torn' = [torn EXCEPT ![f] = FALSE]
      /\ written' = written /\ written \in Nat
      /\ UNCHANGED <<marks, run, flight, posted, screened>>
    BY <1>2, IngestAssumption DEF FinishLine, ledger, RunInv, Shape
<1>5. Rewrites(f, L, FALSE, n)
    BY <1>1, <1>2, <1>3, <1>4 DEF Rewrites
<1> QED BY <1>5, RewriteSpeech

LEMMA CutShortSpeech ==
    ASSUME RunInv, SpeechInv, ~RewriteMidRun, NEW f \in Files, NEW n \in Nat, CutShort(f, n)
    PROVE  SpeechInv'
<1>1. PICK L \in Seq(Signed) :
        text' = [text EXCEPT ![f] = L] /\ Len(L) = n /\ n < Len(text[f]) /\ \A i \in 1 .. n : L[i] = text[f][i]
    BY CutIs
<1>2. Len(text[f]) \in Nat
    BY FileOf, LenProperties
<1>3. /\ torn' = [torn EXCEPT ![f] = FALSE] /\ written' = written /\ written \in Nat
      /\ UNCHANGED <<marks, run, flight, posted, screened>>
      /\ \A r \in Runs : f \notin DOMAIN run[r].ceil
    BY IngestAssumption DEF CutShort, ledger, RunInv, Shape
<1>4. Rewrites(f, L, FALSE, n)
    BY <1>1, <1>2, <1>3 DEF Rewrites
<1> QED BY <1>4, RewriteSpeech

-----------------------------------------------------------------------------
(* Speech: every step.                                                     *)

LEMMA InitSpeech == Init => SpeechInv
<1> SUFFICES ASSUME Init PROVE SpeechInv
    OBVIOUS
<1>1. Len(<<>>) = 0
    BY EmptySeq
<1>2. \A f \in Files : Settled(marks[f])
    <2>1. FenceAt(<<>>, 0) = Closed
        <3> DEFINE z == 0
        <3>1. z \in Nat /\ z <= z
            OBVIOUS
        <3> HIDE DEF z
        <3>2. FenceFrom(<<>>, z, z)[z] = Closed
            BY <3>1, FenceIs
        <3> QED BY <1>1, <3>2 DEF FenceAt, z
    <2> QED BY <1>1, <2>1 DEF Init, Settled, NoHash
<1>3. MarksAreSettled
    BY <1>2 DEF Init, MarksAreSettled
<1>4. IdsAreDistinct
    BY <1>1 DEF Init, IdsAreDistinct
<1>5. \A r \in Runs : DirIsCovered(run[r])
    BY NoRunIs DEF Init, DirIsCovered, CeilsAreCovered, SpansAreOutside
<1> QED BY <1>3, <1>4, <1>5 DEF Init, SpeechInv

LEMMA IdleSpeech == ASSUME SpeechInv, UNCHANGED vars PROVE SpeechInv'
<1>1. UNCHANGED <<files, run, posted, screened, marks, flight>>
    BY DEF vars, ledger
<1>2. \A r \in Runs : Carries(run'[r], run[r])
    BY <1>1 DEF Carries
<1> QED BY <1>1, <1>2, MarksStay, SpeechStep DEF SpeechInv

LEMMA NextSpeech == ASSUME RunInv, SpeechInv, ~RewriteMidRun, [Next]_vars PROVE SpeechInv'
<1>1. ASSUME NEW f \in Files, Session(f) PROVE SpeechInv'
    <2>1. ASSUME NEW k \in LineKinds, NEW r \in Runs \cup {None}, NEW whole \in BOOLEAN, Write(f, k, r, whole)
          PROVE  SpeechInv'
        <3>1. PICK l, t : Adds(f, k, l, t)
            BY <2>1, WriteIs
        <3> QED BY <3>1, WriteSpeech
    <2>2. ASSUME NEW n \in 0 .. MaxWindows, CutShort(f, n) PROVE SpeechInv'
        <3>1. n \in Nat
            OBVIOUS
        <3> QED BY <2>2, <3>1, CutShortSpeech
    <2> QED BY <1>1, <2>1, <2>2, FinishLineSpeech DEF Session
<1>2. ASSUME NEW r \in Runs, Plan(r) PROVE SpeechInv'
    BY <1>2, PlanStartSpeech, PlanReadSpeech, ForgetSpeech DEF Plan
<1>3. ASSUME NEW r \in Runs, Submit(r) PROVE SpeechInv'
    BY <1>3, SubmitStartSpeech, SubmitPostSpeech, SubmitAdvanceSpeech, SubmitCloseSpeech, SubmitFailSpeech DEF Submit
<1>4. ASSUME NEW e \in Extractors, Extract(e) PROVE SpeechInv'
    BY <1>4, ExtractSpeech
<1>5. ASSUME NEW m \in flight, AdvanceWatermark(m) PROVE SpeechInv'
    BY <1>5, AdvanceSpeech
<1> QED BY <1>1, <1>2, <1>3, <1>4, <1>5, IdleSpeech DEF Next

\* Marks, worklists and the ledger of what was posted agree with the lines
\* of the transcripts and with their fences, as long as no file is cut short
\* under a run that has planned it.
THEOREM SpecSpeech == ~RewriteMidRun => (Spec => []SpeechInv)
<1> SUFFICES ASSUME ~RewriteMidRun PROVE Spec => []SpeechInv
    OBVIOUS
<1>1. Init => RunInv /\ SpeechInv
    BY InitRun, InitSpeech
<1>2. RunInv /\ SpeechInv /\ [Next]_vars => (RunInv /\ SpeechInv)'
    BY NextRun, NextSpeech
<1> QED BY <1>1, <1>2, PTL DEF Spec

\* Whatever runs overlap, die or lose chunks, a plan never starts behind a
\* line that is still owed.
THEOREM NoLineIsLeftBehind == ~RewriteMidRun => (Spec => []NothingSkipped)
<1> SUFFICES ASSUME ~RewriteMidRun PROVE Spec => []NothingSkipped
    OBVIOUS
<1>1. ASSUME RunInv, SpeechInv PROVE NothingSkipped
    <2> SUFFICES ASSUME NEW f \in Files, NEW i \in 1 .. Len(text[f]), 2 * (i - 1) < ByteStart(f),
                        Owed(f, i)
                 PROVE  FALSE
        BY DEF NothingSkipped
    <2>1. Even(ByteStart(f))
        <3>1. Even(0)
            BY DEF Even
        <3> QED BY <1>1, <3>1 DEF ByteStart, RunInv, OffsetsAreEven
    <2>2. PICK h : h = ByteStart(f) \div 2
        OBVIOUS
    <2>3. h \in Nat /\ ByteStart(f) = 2 * h
        BY <2>1, <2>2, HalfIs
    <2>4. i \in 1 .. h
        <3>1. Len(text[f]) \in Nat
            BY <1>1, FileOf, LenProperties
        <3> QED BY <2>3, <3>1
    <2>5. Speaks(text[f], i)
        BY DEF Owed, Speaks, Fenced
    <2>6. Handled(text[f][i])
        BY <1>1, <2>2, <2>4, <2>5, StartSettles
    <2> QED BY <2>6 DEF Owed
<1> QED BY <1>1, SpecRun, SpecSpeech, PTL

\* Nothing between the markers of an ingest conversation is ever posted.
THEOREM NothingFencedIsPosted == ~RewriteMidRun => (Spec => []FencedStaysOut)
<1> SUFFICES ASSUME ~RewriteMidRun PROVE Spec => []FencedStaysOut
    OBVIOUS
<1>1. SpeechInv => FencedStaysOut
    <2> SUFFICES ASSUME SpeechInv, NEW f \in Files, NEW i \in 1 .. Len(text[f]), Fenced(f, i),
                        NEW w \in {1, 2}, <<text[f][i].id, w>> \in posted
                 PROVE  FALSE
        BY DEF FencedStaysOut
    <2>1. IsOwners(text[f][i].id)
        BY DEF SpeechInv
    <2> QED BY <2>1 DEF IsOwners
<1> QED BY <1>1, SpecSpeech, PTL

=============================================================================
