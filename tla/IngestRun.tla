------------------------------ MODULE IngestRun ------------------------------
(***************************************************************************)
(* Transcript ingestion: `lumberroom ingest plan`, `extract` and `submit`, *)
(* the run lock, the fence that keeps a run from reading itself, and the   *)
(* server's watermarks.                                                    *)
(*                                                                         *)
(* A transcript grows while runs read it.  A run freezes how far it reads, *)
(* cuts what it read into spans and the spans into chunks, has each chunk  *)
(* extracted, posts what came back and only then moves the file's mark.    *)
(* The lock is held by plan and by submit, and not between them, so runs   *)
(* overlap; any command may die at any point and be typed again.           *)
(*                                                                         *)
(* A line is two bytes, its text and its newline, so that an offset can    *)
(* fall inside one.  Abstracted: what a line says (its kind is what the    *)
(* parsers make of it), and the lengths that decide where a span and a     *)
(* chunk end (any place the rules allow).  A hash is what it covers.       *)
(***************************************************************************)
EXTENDS Naturals, SequencesExt

CONSTANTS
    Files,          \* transcripts
    FileOrder,      \* the order the walk returns them in
    Runs,           \* run directories that may exist at once
    Extractors,     \* extract processes
    LineKinds,      \* what a transcript line may be, see Kinds
    RewriteMidRun,  \* TRUE: a file may be cut short under a planned run
    MaxWindows,     \* bound on the lines ever written; a long one counts twice
    MaxFaults,      \* bound on crashes, refusals and failed chunks
    None

\* "owner" reaches extraction; "long" too, in two windows; "secret" does and
\* trips the scan; "noise" is excluded; "begin" and "end" are fence markers.
Kinds == {"owner", "long", "secret", "noise", "begin", "end"}

ASSUME IngestAssumption ==
    /\ FileOrder \in Seq(Files)
    /\ \A f \in Files : \E i \in 1 .. Len(FileOrder) : FileOrder[i] = f
    /\ \A i, j \in 1 .. Len(FileOrder) : FileOrder[i] = FileOrder[j] => i = j
    /\ LineKinds \subseteq Kinds
    /\ RewriteMidRun \in BOOLEAN
    /\ MaxWindows \in Nat
    /\ MaxFaults \in Nat
    /\ None \notin Runs

VARIABLES
    text,      \* per file: its lines
    torn,      \* per file: the last line has no newline yet
    written,   \* windows written so far, which name the next line
    marks,     \* ingest_watermark: byte_offset and prefix_sha256
    lock,      \* the run lock: the run whose plan or submit holds it
    run,       \* per run: its directory, and the command working in it
    ext,       \* per extract process: the run and its copy of state.json
    flight,    \* file advances sent and not yet answered
    faults,    \* faults so far
    posted,    \* windows of lines whose chunk output was posted
    screened,  \* lines the tripwire dropped with their span
    cut        \* per file: it was once cut short or rewritten

files  == <<text, torn, written, cut>>
ledger == <<posted, screened>>
vars   == <<files, marks, lock, run, ext, flight, faults, ledger>>

Speech == {"owner", "long", "secret"}
Lines  == [id : 1 .. MaxWindows, kind : Kinds, by : Runs \cup {None}]
Windows(kind) == IF kind = "long" THEN {1, 2} ELSE {1}

Least(S) == CHOOSE x \in S : \A y \in S : x <= y

---------------------------------------------------------------------------
(* Reading a transcript.                                                   *)

Size(f)  == 2 * Len(text[f]) - (IF torn[f] THEN 1 ELSE 0)
Whole(f) == IF torn[f] THEN Len(text[f]) - 1 ELSE Len(text[f])

\* The hash of the first n bytes, or of all there are: the lines they touch.
prefix_sha256(f, n) ==
    LET upto == IF n < Size(f) THEN n ELSE Size(f)
    IN  [of |-> SubSeq(text[f], 1, (upto + 1) \div 2), bytes |-> upto]

NoHash == [of |-> <<>>, bytes |-> 0]
Closed == [open |-> None, since |-> 0]

\* One line through the fence: only the run that opened it closes it.
Observe(fence, l, i) ==
    CASE fence.open = None /\ l.kind = "begin" -> [open |-> l.by, since |-> 2 * (i - 1)]
      [] fence.open # None /\ l.kind = "end" /\ l.by = fence.open -> Closed
      [] OTHER -> fence

\* The fence after each of the lines s + 1 to n, read from a closed one.
FenceFrom(lines, s, n) ==
    LET fence[i \in s .. n] ==
            IF i = s THEN Closed ELSE Observe(fence[i - 1], lines[i], i)
    IN  fence

\* The line is not inside a fence and opens none.
Outside(fence, lines, i) == fence[i - 1].open = None /\ lines[i].kind # "begin"

\* Mutant: the mark goes to the end of what was read, open fence or not.
parse_through(f, s) ==
    LET from  == s \div 2
        fence == FenceFrom(text[f], from, Whole(f))
    IN  [entries |-> {i \in from + 1 .. Whole(f) :
                         Outside(fence, text[f], i) /\ text[f][i].kind \in Speech},
         read_to |-> 2 * Whole(f)]

\* What a plan takes from a file that it reads from byte s: its entries, and
\* how far it read, which is where a fence still open began.
parse_file(f, s) ==
    LET from  == s \div 2
        fence == FenceFrom(text[f], from, Whole(f))
    IN  [entries |-> {i \in from + 1 .. Whole(f) :
                         Outside(fence, text[f], i) /\ text[f][i].kind \in Speech},
         read_to |-> IF fence[Whole(f)].open # None THEN fence[Whole(f)].since
                     ELSE 2 * Whole(f)]

\* Where a plan starts: the mark, if the file still begins the way it did.
ByteStart(f) ==
    IF marks[f].off > 0 /\ prefix_sha256(f, marks[f].off) = marks[f].hash
    THEN marks[f].off
    ELSE 0

Grown(f) == Size(f) > ByteStart(f)

---------------------------------------------------------------------------
(* Run directories.                                                        *)

Phases == {"none", "planning", "ready", "posting", "posted", "advancing", "closed"}

Pieces == [file : Files, line : 1 .. MaxWindows, win : {1, 2},
           start : Nat, chunk : Nat]

NoRun == [phase |-> "none", scope |-> {}, ceil |-> <<>>, pieces |-> {},
          chunks |-> 0, spans |-> FALSE, out |-> {}, failed |-> {}, got |-> {}, unext |-> {}]

NoExt == [of |-> None, todo |-> {}, wrote |-> {}, failed |-> {}]

Chunks(r) == 1 .. run[r].chunks

\* Window n of line i of a file, as the spans are cut from it.
Window(f, i, n) ==
    [file |-> f, line |-> text[f][i].id, kind |-> text[f][i].kind, start |-> 2 * (i - 1), win |-> n]

\* The windows of a file's entries, in order.
FileWindows(f, entries) ==
    FlattenSeq([i \in 1 .. Len(text[f]) |->
        IF i \notin entries THEN <<>>
        ELSE [n \in 1 .. Cardinality(Windows(text[f][i].kind)) |-> Window(f, i, n)]])

\* The windows of every planned file, in the order of the walk.
AllWindows(planned) ==
    FlattenSeq([k \in 1 .. Len(FileOrder) |->
        LET f == FileOrder[k]
        IN  IF f \notin planned THEN <<>>
            ELSE FileWindows(f, parse_file(f, ByteStart(f)).entries)])

\* A span never crosses files, and an entry over the cap is windows of its own.
MustBreak(ws, k) ==
    \/ ws[k].file # ws[k - 1].file
    \/ ws[k].kind = "long"
    \/ ws[k - 1].kind = "long"

\* Where spans may start.
SpanStarts(ws) ==
    {S \in SUBSET (1 .. Len(ws)) :
        /\ Len(ws) > 0 => 1 \in S
        /\ \A k \in 2 .. Len(ws) : MustBreak(ws, k) => k \in S}

SpanOf(S, k) == CHOOSE b \in S : b <= k /\ \A c \in S : c <= k => c <= b

\* The spans the tripwire lets through.
Kept(ws, S) ==
    {b \in S : \A k \in 1 .. Len(ws) : SpanOf(S, k) = b => ws[k].kind # "secret"}

\* The worklist: spans S, and of the kept ones the first of each chunk, C.
Worklist(ws, S, C) ==
    {[file |-> ws[k].file, line |-> ws[k].line, win |-> ws[k].win,
      start |-> ws[SpanOf(S, k)].start,
      chunk |-> Cardinality({c \in C : c <= SpanOf(S, k)})] :
        k \in {j \in 1 .. Len(ws) : SpanOf(S, j) \in Kept(ws, S)}}

ChunkStarts(kept) == {C \in SUBSET kept : kept # {} => Least(kept) \in C}

---------------------------------------------------------------------------
(* The owner's sessions, which write the transcripts.                      *)

\* The markers a run prints reach the transcript it was typed in.
Write(f, k, r, whole) ==
    /\ ~torn[f]
    /\ k \in LineKinds
    /\ written + Cardinality(Windows(k)) <= MaxWindows
    /\ IF k \in {"begin", "end"} THEN r \in Runs /\ run[r].phase # "none" ELSE r = None
    /\ written' = written + Cardinality(Windows(k))
    /\ text' = [text EXCEPT ![f] = Append(@, [id |-> written + 1, kind |-> k, by |-> r])]
    /\ torn' = [torn EXCEPT ![f] = ~whole]
    /\ UNCHANGED <<cut, marks, lock, run, ext, flight, faults, ledger>>

FinishLine(f) ==
    /\ torn[f]
    /\ torn' = [torn EXCEPT ![f] = FALSE]
    /\ UNCHANGED <<text, written, cut, marks, lock, run, ext, flight, faults, ledger>>

\* A file cut short in place; it grows again with other lines.
CutShort(f, n) ==
    /\ n < Len(text[f])
    /\ RewriteMidRun \/ \A r \in Runs : f \notin DOMAIN run[r].ceil
    /\ text' = [text EXCEPT ![f] = SubSeq(@, 1, n)]
    /\ torn' = [torn EXCEPT ![f] = FALSE]
    /\ cut' = [cut EXCEPT ![f] = TRUE]
    /\ UNCHANGED <<written, marks, lock, run, ext, flight, faults, ledger>>

\* The lock file, or after a wait the error that names its holder.
acquire(r) == lock = None /\ lock' = r

---------------------------------------------------------------------------
(* plan.                                                                   *)

\* Take the lock and open a run under an id no transcript has, in a directory
\* of its own; those of closed runs stay until a later plan finds them old.
\* Its --project, --since and --max-files, the caps on a walk and the files it
\* cannot read leave some files out of its scope.
PlanStart(r, scope) ==
    /\ acquire(r)
    /\ run[r].phase = "none"
    /\ \A e \in Extractors : ext[e].of # r
    /\ \A f \in Files : \A i \in 1 .. Len(text[f]) : text[f][i].by # r
    /\ run' = [run EXCEPT ![r] = [NoRun EXCEPT !.phase = "planning", !.scope = scope]]
    /\ UNCHANGED <<files, marks, ext, flight, faults, ledger>>

\* Walk, check the prefixes, parse, cut, scan, chunk and write the worklist.
PlanRead(r) ==
    LET planned == {f \in run[r].scope : Grown(f)}
        ws == AllWindows(planned)
    IN  /\ run[r].phase = "planning"
        /\ \E S \in SpanStarts(ws) : \E C \in ChunkStarts(Kept(ws, S)) :
              /\ run' = [run EXCEPT ![r] =
                    [@ EXCEPT
                        !.phase = "ready",
                        !.ceil = [f \in planned |-> parse_file(f, ByteStart(f)).read_to],
                        !.pieces = Worklist(ws, S, C),
                        !.chunks = Cardinality(C),
                        !.spans = TRUE]]
              /\ screened' = screened \cup
                    {ws[k].line : k \in {j \in 1 .. Len(ws) : SpanOf(S, j) \notin Kept(ws, S)}}
        /\ lock' = None
        /\ UNCHANGED <<files, marks, ext, flight, faults, posted>>

\* The server refused a request or the process died; there is no worklist.
PlanFail(r) ==
    /\ run[r].phase = "planning"
    /\ faults < MaxFaults
    /\ faults' = faults + 1
    /\ lock' = None
    /\ run' = [run EXCEPT ![r] = NoRun]
    /\ UNCHANGED <<files, marks, ext, flight, ledger>>

\* A run nobody finished goes when the sweep of a later plan finds it old.
Abandon(r) ==
    /\ run[r].phase = "ready"
    /\ \A e \in Extractors : ext[e].of # r
    /\ faults < MaxFaults
    /\ faults' = faults + 1
    /\ run' = [run EXCEPT ![r] = NoRun]
    /\ UNCHANGED <<files, marks, lock, ext, flight, ledger>>

---------------------------------------------------------------------------
(* extract, without the lock.                                              *)

\* Every chunk with no output, or under --retry-failed the ones on record as
\* failed.  The whole of state.json is read here and written back later.
ExtractStart(e, r, retry_failed) ==
    LET todo == IF retry_failed THEN run[r].failed ELSE Chunks(r) \ run[r].out
    IN  /\ ext[e] = NoExt
        /\ run[r].spans
        /\ todo # {}
        /\ ext' = [ext EXCEPT ![e] = [of |-> r, todo |-> todo, wrote |-> {},
                                      failed |-> run[r].failed]]
        /\ UNCHANGED <<files, marks, lock, run, flight, faults, ledger>>

\* A chunk's task has its answer and writes it to out/, in any order.  After a
\* sweep it may still: an extract that was typed since made out/ again.
ChunkOut(e, c) ==
    /\ c \in ext[e].todo \ ext[e].wrote
    /\ ext' = [ext EXCEPT ![e].wrote = @ \cup {c}]
    /\ run' = [run EXCEPT ![ext[e].of].out = @ \cup {c}]
    /\ UNCHANGED <<files, marks, lock, flight, faults, ledger>>

\* The tasks are awaited in order, and state.json rewritten after each.
Await(e, c, failed) ==
    /\ c \in ext[e].todo /\ c = Least(ext[e].todo)
    /\ ext' = [ext EXCEPT ![e] = IF ext[e].todo = {c} THEN NoExt
                                 ELSE [ext[e] EXCEPT !.todo = @ \ {c}, !.wrote = @ \ {c},
                                                     !.failed = failed]]
    /\ run' = [run EXCEPT ![ext[e].of].failed = failed]
    /\ UNCHANGED <<files, marks, lock, flight, ledger>>

ChunkDone(e, c) ==
    /\ c \in ext[e].wrote
    /\ Await(e, c, ext[e].failed \ {c})
    /\ UNCHANGED faults

\* The provider refused for good, timed out or answered something unreadable,
\* or the run was swept meanwhile and there is no out/ to write to.
ChunkFailed(e, c) ==
    /\ c \notin ext[e].wrote
    /\ IF run[ext[e].of].spans
       THEN faults < MaxFaults /\ faults' = faults + 1
       ELSE UNCHANGED faults
    /\ Await(e, c, ext[e].failed \cup {c})

ExtractDie(e) ==
    /\ ext[e] # NoExt
    /\ faults < MaxFaults
    /\ faults' = faults + 1
    /\ ext' = [ext EXCEPT ![e] = NoExt]
    /\ UNCHANGED <<files, marks, lock, run, flight, ledger>>

---------------------------------------------------------------------------
(* submit, and the server's watermarks.                                    *)

\* Take the lock, read the worklist, state.json and the outputs.  More than
\* half of the chunks neither there nor failed is a crashed extractor.
SubmitStart(r) ==
    LET missing == (Chunks(r) \ run[r].out) \ run[r].failed
    IN  /\ acquire(r)
        /\ run[r].phase \in {"ready", "closed"}
        /\ ~(Cardinality(missing) * 2 > run[r].chunks)
        /\ run' = [run EXCEPT ![r].phase = "posting",
                              ![r].got = Chunks(r) \cap run[r].out,
                              ![r].unext = missing \cup run[r].failed]
        /\ UNCHANGED <<files, marks, ext, flight, faults, ledger>>

WindowsIn(r, chunks) ==
    {<<p.line, p.win>> : p \in {q \in run[r].pieces : q.chunk \in chunks}}

\* Every batch of facts was posted.
SubmitPost(r) ==
    /\ run[r].phase = "posting"
    /\ posted' = posted \cup WindowsIn(r, run[r].got)
    /\ run' = [run EXCEPT ![r].phase = "posted"]
    /\ UNCHANGED <<files, marks, lock, ext, flight, faults, screened>>

\* Mutant: every span that happened to be extracted is passed.
HoldNothing(r, f) == run[r].ceil[f]

\* The hold-back rule: the first byte of the earliest span not extracted.
HoldBack(r, f) ==
    Least({run[r].ceil[f]} \cup
          {p.start : p \in {q \in run[r].pieces : q.file = f /\ q.chunk \in run[r].unext}})

\* Hash what the mark will cover, as the file is now, and ask for the advance.
\* A file that can no longer be opened keeps its mark.
SubmitAdvance(r, opened) ==
    /\ run[r].phase = "posted"
    /\ opened \subseteq DOMAIN run[r].ceil
    /\ IF opened = DOMAIN run[r].ceil
       THEN UNCHANGED faults
       ELSE faults < MaxFaults /\ faults' = faults + 1
    /\ flight' = flight \cup
          {[run |-> r, file |-> f, off |-> HoldBack(r, f),
            hash |-> prefix_sha256(f, HoldBack(r, f)), live |-> TRUE] : f \in opened}
    /\ run' = [run EXCEPT ![r].phase = "advancing"]
    /\ UNCHANGED <<files, marks, lock, ext, ledger>>

\* Mutant: the hash moves although the offset does not.
AdvanceHash(m) ==
    /\ marks' = [marks EXCEPT ![m.file] =
                    [off |-> IF m.off > @.off THEN m.off ELSE @.off, hash |-> m.hash]]
    /\ flight' = flight \ {m}
    /\ UNCHANGED <<files, lock, run, ext, faults, ledger>>

\* One file of the request on the server: the larger offset wins, and the
\* hash belongs to it.
AdvanceWatermark(m) ==
    /\ marks' = [marks EXCEPT ![m.file] =
                    IF m.off > @.off THEN [off |-> m.off, hash |-> m.hash] ELSE @]
    /\ flight' = flight \ {m}
    /\ UNCHANGED <<files, lock, run, ext, faults, ledger>>

\* Mutant: the plaintext goes whether or not chunks failed.
CloseAndSweep(r, sweep) ==
    /\ run[r].phase = "advancing"
    /\ \A m \in flight : m.run = r => ~m.live
    /\ lock' = None
    /\ run' = [run EXCEPT ![r] =
                  [run[r] EXCEPT !.phase = "closed", !.got = {}, !.unext = {},
                                 !.spans = @ /\ ~sweep, !.out = IF sweep THEN {} ELSE @]]
    /\ UNCHANGED <<files, marks, ext, flight, faults, ledger>>

\* Every advance was answered: close the run.  `ingest run` deletes spans and
\* outputs when nothing is left to retry.
SubmitClose(r, sweep) ==
    /\ run[r].phase = "advancing"
    /\ \A m \in flight : m.run = r => ~m.live
    /\ sweep => run[r].unext = {}
    /\ lock' = None
    /\ run' = [run EXCEPT ![r] =
                  [run[r] EXCEPT !.phase = "closed", !.got = {}, !.unext = {},
                                 !.spans = @ /\ ~sweep, !.out = IF sweep THEN {} ELSE @]]
    /\ UNCHANGED <<files, marks, ext, flight, faults, ledger>>

\* A request failed or timed out, or the process died.  Batches already
\* posted stay posted, and the server may still apply what it was sent.
SubmitFail(r, sent, applied) ==
    /\ lock = r /\ run[r].phase \in {"posting", "posted", "advancing"}
    /\ faults < MaxFaults
    /\ faults' = faults + 1
    /\ posted' = IF run[r].phase = "posting"
                 THEN posted \cup WindowsIn(r, {c \in run[r].got : c <= sent})
                 ELSE posted
    /\ flight' = {[m EXCEPT !.live = @ /\ m.run # r] :
                     m \in {n \in flight : applied \/ n.run # r}}
    /\ lock' = None
    /\ run' = [run EXCEPT ![r].phase = "ready", ![r].got = {}, ![r].unext = {}]
    /\ UNCHANGED <<files, marks, ext, screened>>

---------------------------------------------------------------------------
Init ==
    /\ text = [f \in Files |-> <<>>]
    /\ torn = [f \in Files |-> FALSE]
    /\ cut = [f \in Files |-> FALSE]
    /\ written = 0
    /\ marks = [f \in Files |-> [off |-> 0, hash |-> NoHash]]
    /\ lock = None
    /\ run = [r \in Runs |-> NoRun]
    /\ ext = [e \in Extractors |-> NoExt]
    /\ flight = {}
    /\ faults = 0
    /\ posted = {}
    /\ screened = {}

Session(f) ==
    \/ \E k \in LineKinds, r \in Runs \cup {None}, whole \in BOOLEAN : Write(f, k, r, whole)
    \/ FinishLine(f)
    \/ \E n \in 0 .. MaxWindows : CutShort(f, n)

Plan(r) ==
    \/ \E scope \in (SUBSET Files) \ {{}} : PlanStart(r, scope)
    \/ PlanRead(r)
    \/ PlanFail(r)
    \/ Abandon(r)

Extract(e) ==
    \/ \E r \in Runs, retry_failed \in BOOLEAN : ExtractStart(e, r, retry_failed)
    \/ \E c \in ext[e].todo : ChunkOut(e, c) \/ ChunkDone(e, c) \/ ChunkFailed(e, c)
    \/ ExtractDie(e)

Submit(r) ==
    \/ SubmitStart(r)
    \/ SubmitPost(r)
    \/ \E opened \in SUBSET Files : SubmitAdvance(r, opened)
    \/ \E sweep \in BOOLEAN : SubmitClose(r, sweep)
    \/ \E sent \in 0 .. run[r].chunks, applied \in BOOLEAN : SubmitFail(r, sent, applied)

Next ==
    \/ \E f \in Files : Session(f)
    \/ \E r \in Runs : Plan(r) \/ Submit(r)
    \/ \E e \in Extractors : Extract(e)
    \/ \E m \in flight : AdvanceWatermark(m)

Spec == Init /\ [][Next]_vars

---------------------------------------------------------------------------
(* Properties.                                                             *)

Hashes == [of : Seq(Lines), bytes : Nat]

\* Every variable keeps its type.
TypeOK ==
    /\ text \in [Files -> Seq(Lines)]
    /\ torn \in [Files -> BOOLEAN]
    /\ cut \in [Files -> BOOLEAN]
    /\ written \in 0 .. MaxWindows
    /\ marks \in [Files -> [off : Nat, hash : Hashes]]
    /\ lock \in Runs \cup {None}
    /\ \A r \in Runs :
          /\ run[r].phase \in Phases
          /\ DOMAIN run[r].ceil \subseteq Files
          /\ run[r].pieces \subseteq Pieces
          /\ run[r].spans \in BOOLEAN
          /\ run[r].out \cup run[r].failed \cup run[r].got \cup run[r].unext \subseteq Chunks(r)
    /\ \A e \in Extractors :
          /\ ext[e].of \in Runs \cup {None}
          /\ ext[e].wrote \subseteq ext[e].todo
    /\ \A m \in flight : m.run \in Runs /\ m.file \in Files /\ m.hash \in Hashes
    /\ faults \in 0 .. MaxFaults
    /\ posted \subseteq (1 .. MaxWindows) \X {1, 2}
    /\ screened \subseteq 1 .. MaxWindows

\* Line i of a file as a plan that starts at byte zero sees it.
LineFenced(lines, i) == ~Outside(FenceFrom(lines, 0, Len(lines)), lines, i)

Fenced(f, i) == LineFenced(text[f], i)

Handled(l) ==
    \/ l.id \in screened
    \/ \A w \in Windows(l.kind) : <<l.id, w>> \in posted

Owed(f, i) == text[f][i].kind \in Speech /\ ~Fenced(f, i) /\ ~Handled(text[f][i])

\* A mark the next plan will trust stands behind no line that is still owed:
\* every line that starts below it was posted in all its windows, dropped by
\* the tripwire, excluded or fenced, whatever runs overlapped, died, lost
\* their state.json or had chunks fail (hold_back_plan, advance_watermark).
NothingSkipped ==
    \A f \in Files : \A i \in 1 .. Len(text[f]) : 2 * (i - 1) < ByteStart(f) => ~Owed(f, i)

\* What an ingest conversation left in a transcript between its markers is
\* never posted, wherever a later plan starts to read (FenceState, read_to).
FencedStaysOut ==
    \A f \in Files : \A i \in 1 .. Len(text[f]) :
        Fenced(f, i) => \A w \in {1, 2} : <<text[f][i].id, w>> \notin posted

\* A file that was only ever appended to passes its own prefix check, so no
\* plan reads it from zero again: the stored hash covers exactly the offset
\* stored with it (submit::run's hash, the CASE arms of advance_watermark).
NoNeedlessReread ==
    \A f \in Files : ~cut[f] => ByteStart(f) = marks[f].off

\* `ingest run` deletes a run's spans and outputs only when nothing in them
\* is still to be sent (exit_code, settle, sweep_plaintext).
SweptIsSpent ==
    \A r \in Runs : run[r].phase # "none" /\ run[r].phase # "planning" /\ ~run[r].spans
        => WindowsIn(r, Chunks(r)) \subseteq posted

===========================================================================
