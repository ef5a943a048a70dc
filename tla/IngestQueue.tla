----------------------------- MODULE IngestQueue -----------------------------
(***************************************************************************)
(* The queue between a transcript and the store: ingest_proposal, the      *)
(* requests that post, approve, reject and unreject, the write path an     *)
(* approval and the memory_write tool share, and forget.                   *)
(*                                                                         *)
(* A request runs one statement or transaction at a time, with those of    *)
(* other requests in between, and may stop before any of them (a dropped   *)
(* connection, an error of the store, the end of the process).             *)
(*                                                                         *)
(* A fact is a normalised content in its namespace: post fingerprints it   *)
(* and find_exact compares it.  Abstracted: the wording, quotes, tags and  *)
(* dates; grants (every caller reads and writes the namespace); a          *)
(* supersession target, which module Supersession follows; the checks that *)
(* may refuse a write (tripwire, length, ceiling, keys) are one choice.    *)
(* Memory rows are numbered in the order of their insertion; what befalls  *)
(* them later (supersede, expire, forget and their undoing) is one step    *)
(* each, their transactions being module Supersession's.                   *)
(***************************************************************************)
EXTENDS Naturals, FiniteSets, FiniteSetsExt

CONSTANTS
    Facts,     \* contents that can be posted or written
    Private,   \* the facts whose namespace stores encrypted rows
    Reqs,      \* concurrent requests
    MaxRows,   \* bound on the memory rows ever inserted
    Older,     \* Older[f]: the facts observed before f, the order of a batch
    None       \* Option::None

ASSUME QueueAssumption ==
    /\ Private \subseteq Facts
    /\ MaxRows \in Nat
    /\ Older \in [Facts -> SUBSET Facts]
    /\ None \notin Facts \cup Nat
    /\ IsFiniteSet(Reqs)

VARIABLES
    prop,     \* ingest_proposal, by fingerprint
    mem,      \* memory, by row number; by is superseded_by
    rows,     \* how many rows were inserted
    req,      \* the request in each slot
    peak,     \* per open fact: the most writes of it under way at once so far
    closed,   \* facts answered (rejected, or forgotten) with no approval of them under way
    torn      \* private facts whose rejection stopped before clear_text

vars == <<prop, mem, rows, req, peak, closed, torn>>

Rows == 1 .. MaxRows
Open == Facts \ Private
Fresh == [state |-> "none", text |-> FALSE, memory |-> None]
Idle == [pc |-> "idle", fact |-> None, approving |-> FALSE, row |-> None, todo |-> {}]

\* A live row is "back" when a forget or an unexpire brought it back to life.
Alive == {"live", "back"}
Stored == Alive \cup {"retired", "expired"}
RowStates == Stored \cup {"none", "gone"}
Unborn == [fact |-> None, state |-> "none", by |-> None]

PCs == {"idle", "next", "look", "near", "mark", "clear"}

TypeOK ==
    /\ prop \in [Facts -> [state : {"none", "proposed", "rejected", "written"},
                           text : BOOLEAN, memory : Rows \cup {None}]]
    /\ mem \in [Rows -> [fact : Facts \cup {None}, state : RowStates, by : Rows \cup {None}]]
    /\ rows \in 0 .. MaxRows
    /\ req \in [Reqs -> [pc : PCs, fact : Facts \cup {None}, approving : BOOLEAN,
                         row : Rows \cup {None}, todo : SUBSET Facts]]
    /\ peak \in [Open -> 0 .. Cardinality(Reqs)]
    /\ closed \subseteq Facts
    /\ torn \subseteq Private

Init ==
    /\ prop = [f \in Facts |-> Fresh]
    /\ mem = [m \in Rows |-> Unborn]
    /\ rows = 0
    /\ req = [r \in Reqs |-> Idle]
    /\ peak = [f \in Open |-> 0]
    /\ closed = {}
    /\ torn = {}

-----------------------------------------------------------------------------
At(r, pc) == req[r].pc = pc
Goto(r, pc) == req' = [req EXCEPT ![r].pc = pc]
Take(r, pc, m) == req' = [req EXCEPT ![r].pc = pc, ![r].row = m]

\* A request ends, or goes on with the rest of its batch.
Rest(q) == IF q.todo = {} THEN Idle ELSE [Idle EXCEPT !.pc = "next", !.todo = q.todo]
End(r) == req' = [req EXCEPT ![r] = Rest(req[r])]

Live(f) == {m \in Rows : mem[m].fact = f /\ mem[m].state \in Alive}
Written(f) == {m \in Live(f) : mem[m].state = "live"}
Writing == {"look", "near"}
Writers(f) == {r \in Reqs : req[r].fact = f /\ req[r].pc \in Writing}
Approvers(f) == {r \in Reqs : req[r].fact = f /\ req[r].approving}

\* The write of f that begins here is counted among those under way.
Begin(f) == peak' = [g \in Open |-> IF g = f THEN Max({peak[f], Cardinality(Writers(f)) + 1})
                                    ELSE peak[g]]

-----------------------------------------------------------------------------
(* Posting.                                                                *)

\* Mutant: ON CONFLICT DO UPDATE, a post asks again.
post_again(f) ==
    /\ prop' = [prop EXCEPT ![f] = [state |-> "proposed", text |-> TRUE, memory |-> None]]
    /\ UNCHANGED <<mem, rows, req, peak, closed, torn>>

\* POST /ingest/facts, one fact.  It leaves nothing behind when the namespace,
\* the grant, the tripwire or the length cap refuses it, nor when it is an echo:
\* the store handed the content out before the transcript was recorded, and the
\* post confirms that row.  Else insert_proposal: ON CONFLICT (tenant_id,
\* fingerprint) DO NOTHING, so a proposal in any state keeps its state and
\* its text, and gains a source row.
post(f) ==
    /\ prop[f].state = "none"
    /\ prop' = [prop EXCEPT ![f] = [state |-> "proposed", text |-> TRUE, memory |-> None]]
    /\ UNCHANGED <<mem, rows, req, peak, closed, torn>>

-----------------------------------------------------------------------------
(* Approving.                                                              *)

\* approve of one id, approve_all of a list, approve_auto of the proposals
\* the server marked auto: the ids are read before the first approval, and any
\* of them may have been decided since.
approve_all(r, F) ==
    /\ At(r, "idle")
    /\ F # {}
    /\ \A f \in F : prop[f].state # "none"
    /\ req' = [req EXCEPT ![r].pc = "next", ![r].todo = F]
    /\ UNCHANGED <<prop, mem, rows, peak, closed, torn>>

\* The earliest observation first.
approval_order(r, f) == f \in req[r].todo /\ Older[f] \cap req[r].todo = {}

\* approve reads the proposal: one already written reports its row, a
\* rejected one is a conflict, an empty text is refused by the write path.
approve(r, f) ==
    LET rest == [req[r] EXCEPT !.todo = @ \ {f}] IN
    /\ At(r, "next")
    /\ approval_order(r, f)
    /\ \/ /\ prop[f].state = "proposed" /\ prop[f].text
          /\ req' = [req EXCEPT ![r] = [rest EXCEPT !.pc = "look", !.fact = f, !.approving = TRUE]]
          /\ Begin(f)
       \/ /\ prop[f].state # "proposed" \/ ~prop[f].text
          /\ req' = [req EXCEPT ![r] = Rest(rest)]
          /\ UNCHANGED peak
    /\ UNCHANGED <<prop, mem, rows, closed, torn>>

\* The memory_write tool enters the same write path with a content of its own.
memory_write(r, f) ==
    /\ At(r, "idle")
    /\ req' = [req EXCEPT ![r].pc = "look", ![r].fact = f]
    /\ Begin(f)
    /\ UNCHANGED <<prop, mem, rows, closed, torn>>

\* What follows the write: an approval marks its proposal, a tool call answers.
Wrote(r, m) == IF req[r].approving THEN Take(r, "mark", m) ELSE End(r)

\* Any check of run_inner, or the embedder, refuses.  An approval keeps the
\* reason on the proposal (mark_error), whose state does not move.
refuse(r) ==
    /\ req[r].pc \in Writing
    /\ End(r)
    /\ UNCHANGED <<prop, mem, rows, peak, closed, torn>>

\* Mutant: no lookup, the dedupe band alone.
find_exact_skipped(r) ==
    /\ At(r, "look")
    /\ Goto(r, "near")
    /\ UNCHANGED <<prop, mem, rows, peak, closed, torn>>

\* The exact-duplicate lookup, for open facts: the newest live row with this
\* content is confirmed and stands for the write.
find_exact(r) ==
    LET f == req[r].fact IN
    /\ At(r, "look")
    /\ \/ /\ f \notin Private
          /\ Live(f) # {}
          /\ Wrote(r, Max(Live(f)))
       \/ /\ f \in Private \/ Live(f) = {}
          /\ Goto(r, "near")
    /\ UNCHANGED <<prop, mem, rows, peak, closed, torn>>

\* The dedupe band: the write folds into a live row of the same level close to
\* it.  An equal text is as close as can be, whenever the row has its vector.
collapse_target(r) ==
    LET near == {m \in Rows : mem[m].state \in Alive
                              /\ (mem[m].fact \in Private <=> req[r].fact \in Private)} IN
    /\ At(r, "near")
    /\ \E m \in near : Wrote(r, m)
    /\ UNCHANGED <<prop, mem, rows, peak, closed, torn>>

insert(r) ==
    /\ At(r, "near")
    /\ rows < MaxRows
    /\ rows' = rows + 1
    /\ mem' = [mem EXCEPT ![rows'] = [fact |-> req[r].fact, state |-> "live", by |-> None]]
    /\ Wrote(r, rows')
    /\ UNCHANGED <<prop, peak, closed, torn>>

\* Mutant: without the trigger of migration 18.
mark_written_plain(r) ==
    LET f == req[r].fact IN
    /\ At(r, "mark")
    /\ IF mem[req[r].row].state = "gone" THEN UNCHANGED prop
       ELSE prop' = [prop EXCEPT ![f].state = "written", ![f].memory = req[r].row]
    /\ End(r)
    /\ UNCHANGED <<mem, rows, peak, closed, torn>>

\* mark_written: by id alone, whatever the state has become.  The foreign key
\* fails the statement when the row was forgotten meanwhile.  The trigger of
\* migration 18 clears the text when the row is encrypted.
mark_written(r) ==
    LET f == req[r].fact IN
    /\ At(r, "mark")
    /\ IF mem[req[r].row].state = "gone" THEN UNCHANGED prop
       ELSE prop' = [prop EXCEPT ![f].state = "written", ![f].memory = req[r].row,
                                 ![f].text = @ /\ f \notin Private]
    /\ End(r)
    /\ UNCHANGED <<mem, rows, peak, closed, torn>>

-----------------------------------------------------------------------------
(* Rejecting, and what happens to rows.                                    *)

\* UPDATE ... WHERE state = 'proposed'; a private fact then loses its text in
\* a statement of its own.
reject(r, f) ==
    /\ At(r, "idle")
    /\ prop[f].state = "proposed"
    /\ prop' = [prop EXCEPT ![f].state = "rejected"]
    /\ req' = IF f \in Private THEN [req EXCEPT ![r].pc = "clear", ![r].fact = f] ELSE req
    /\ closed' = IF Approvers(f) = {} THEN closed \cup {f} ELSE closed
    /\ torn' = torn \ {f}
    /\ UNCHANGED <<mem, rows, peak>>

clear_text(r) ==
    /\ At(r, "clear")
    /\ prop' = [prop EXCEPT ![req[r].fact].text = FALSE]
    /\ torn' = torn \ {req[r].fact}
    /\ End(r)
    /\ UNCHANGED <<mem, rows, peak, closed>>

unreject(f) ==
    /\ prop[f].state = "rejected"
    /\ prop' = [prop EXCEPT ![f].state = "proposed"]
    /\ closed' = closed \ {f}
    /\ UNCHANGED <<mem, rows, req, peak, torn>>

\* On the chain from n, every row that follows is in a set closed under by.
Chain(n) == {x \in Rows : \A S \in SUBSET Rows :
                n \in S /\ (\A y \in S : mem[y].by \in S \cup {None}) => x \in S}

\* A review or a correction retires row m for row n. An expired row is taken only
\* by a transaction that began before it expired (Supersession's Retirable).
supersede(m, n) ==
    /\ mem[m].state \in Alive \cup {"expired"}
    /\ mem[n].state \in Stored
    /\ m \notin Chain(n)
    /\ mem' = [mem EXCEPT ![m].state = "retired", ![m].by = n]
    /\ UNCHANGED <<prop, rows, req, peak, closed, torn>>

\* "The situation has passed": the row ends with nothing in its place.
expire(m) ==
    /\ mem[m].state \in Alive
    /\ mem' = [mem EXCEPT ![m].state = "expired"]
    /\ UNCHANGED <<prop, rows, req, peak, closed, torn>>

unexpire(m) ==
    /\ mem[m].state = "expired"
    /\ mem' = [mem EXCEPT ![m].state = "back"]
    /\ UNCHANGED <<prop, rows, req, peak, closed, torn>>

\* What the delete does to a row that m had replaced: it hangs on m's own
\* successor, or comes back to life when m had none.
Unlinked(n, m) ==
    IF mem[m].by # None THEN [mem[n] EXCEPT !.by = mem[m].by]
    ELSE [mem[n] EXCEPT !.state = "back", !.by = None]

\* The row goes, with its place in the chain; the proposal that names it keeps
\* its fingerprint, and the trigger on memory_id clears its text.
forget(m) ==
    LET named == {f \in Facts : prop[f].memory = m} IN
    /\ mem[m].state \in Stored
    /\ mem' = [n \in Rows |-> IF n = m THEN [Unborn EXCEPT !.state = "gone"]
                              ELSE IF mem[n].by = m THEN Unlinked(n, m) ELSE mem[n]]
    /\ prop' = [f \in Facts |-> IF f \in named THEN [prop[f] EXCEPT !.memory = None, !.text = FALSE]
                                ELSE prop[f]]
    /\ closed' = closed \cup {f \in named : Approvers(f) = {}}
    /\ UNCHANGED <<rows, req, peak, torn>>

\* The request stops where it is.
Fault(r) ==
    /\ ~At(r, "idle")
    /\ req' = [req EXCEPT ![r] = Idle]
    /\ torn' = IF At(r, "clear") THEN torn \cup {req[r].fact} ELSE torn
    /\ UNCHANGED <<prop, mem, rows, peak, closed>>

-----------------------------------------------------------------------------
Approving(r) ==
    \/ \E F \in SUBSET Facts : approve_all(r, F)
    \/ (\E f \in Facts : approve(r, f)) \/ mark_written(r)
run_inner(r) ==
    \/ \E f \in Facts : memory_write(r, f)
    \/ refuse(r) \/ find_exact(r) \/ collapse_target(r) \/ insert(r)
Rejecting(r) == (\E f \in Facts : reject(r, f)) \/ clear_text(r)

Next ==
    \/ \E r \in Reqs : Approving(r) \/ run_inner(r) \/ Rejecting(r) \/ Fault(r)
    \/ \E f \in Facts : post(f) \/ unreject(f)
    \/ \E m \in Rows : expire(m) \/ unexpire(m) \/ forget(m) \/ \E n \in Rows : supersede(m, n)

Spec == Init /\ [][Next]_vars

-----------------------------------------------------------------------------
(* Properties.                                                             *)

\* approve's comment: "Report the row that already exists rather than writing
\* a second one".  Writing never leaves more live copies of a fact than there
\* were writes of it under way at one moment: approving again after a crash
\* between the write and mark_written, or after a refusal, finds the row the
\* first one wrote.  Any further copy is one that a forget or an unexpire
\* brought back, beside what was written while it was out of sight.
CopiesAreConcurrent == \A f \in Open : Cardinality(Written(f)) <= peak[f]

\* Once a fact was rejected, or its row forgotten, with no approval of it under
\* way, neither a post of it, nor an approval, nor a batch read before the
\* answer writes it again until someone unrejects it.
AnswerStands ==
    [][\A f \in closed \cap closed' : \A r \in Reqs :
         rows' # rows /\ req'[r] # req[r] /\ req[r].fact = f => ~req[r].approving]_vars

\* The queue does not keep the text of a private fact that was decided: it was
\* stored encrypted, or refused.  Only a rejection that stopped before its
\* second statement leaves it.  And no text outlives the row that was forgotten.
TextIsGone ==
    \A f \in Facts : prop[f].text =>
      /\ f \in Private =>
           \/ prop[f].state = "proposed" \/ f \in torn
           \/ prop[f].state = "rejected" /\ \E r \in Reqs : At(r, "clear") /\ req[r].fact = f
      /\ prop[f].state = "written" => prop[f].memory # None

-----------------------------------------------------------------------------
(* What makes them inductive.                                              *)

\* What a request holds at each statement.
RequestIsWired ==
    \A r \in Reqs :
        /\ At(r, "idle") => req[r] = Idle
        /\ At(r, "next") => req[r].fact = None /\ ~req[r].approving
        /\ req[r].pc \in Writing => req[r].fact \in Facts
        /\ At(r, "mark") => req[r].fact \in Facts /\ req[r].row \in Rows
        /\ At(r, "clear") => req[r].fact \in Private /\ ~req[r].approving

\* Only a written proposal names a row.
NamedIsWritten == \A f \in Facts : prop[f].memory # None => prop[f].state = "written"

\* An answer that stands leaves nothing to approve, and no approval under way.
ClosedIsSilent ==
    \A f \in closed : prop[f].state \in {"rejected", "written"} /\ Approvers(f) = {}

\* A row not inserted yet holds no fact and has replaced none.
UnbornIsBlank ==
    \A m \in Rows : /\ mem[m].state = "none" => mem[m] = Unborn
                    /\ mem[m].by # None => mem[m].state = "retired"

\* Past the lookup of an open fact a write may add a copy: those, and the copies
\* written and still live, were once writes under way together.
Near(f) == {r \in Writers(f) : At(r, "near")}
CopiesAreCounted ==
    \A f \in Open : /\ Cardinality(Written(f)) + Cardinality(Near(f)) <= peak[f]
                    /\ Cardinality(Writers(f)) <= peak[f]

QueueInv ==
    /\ TypeOK /\ RequestIsWired /\ NamedIsWritten /\ ClosedIsSilent /\ UnbornIsBlank
    /\ CopiesAreCounted /\ TextIsGone
=============================================================================
