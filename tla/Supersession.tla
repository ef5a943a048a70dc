---------------------------- MODULE Supersession ----------------------------
(***************************************************************************)
(* The chain of versions a fact leaves behind: writes that replace a row,  *)
(* the review that links two rows, expiry, dates filled in later, and the  *)
(* forget that takes a row out of its chain.                               *)
(*                                                                         *)
(* Requests run concurrently.  A request reads what it needs without a     *)
(* lock, decides, and then runs one transaction on Postgres (READ          *)
(* COMMITTED).  A transaction is a step that begins it, a step that takes  *)
(* its row locks, steps that read under them, and a step that writes and   *)
(* commits; everything it read before is as old as it is, and its now() is *)
(* the instant it began, however long it waited for its locks.  Its locks  *)
(* are those of SELECT ... FOR UPDATE, and a statement waits for the locks *)
(* of the rows it writes.                                                  *)
(*                                                                         *)
(* Abstracted: content (any live row may hold the text of a write), grants *)
(* (the rows a session may read and write), instants (small numbers).      *)
(***************************************************************************)
EXTENDS Naturals, FiniteSets

CONSTANTS
    Rows,      \* row ids
    Sessions,  \* concurrent requests
    Reach,     \* per session: the rows its grant lets it read and write
    Dates,     \* instants a fact may state as its start
    MaxTime,   \* bound on the clock
    MaxDepth,  \* MAX_CHAIN_DEPTH
    Kinds,     \* requests taken: "write", "review", "import", "forget", "expire"
    None       \* SQL NULL, Option::None

ASSUME ChainAssumption ==
    /\ Reach \in [Sessions -> SUBSET Rows]
    /\ Dates \subseteq Nat
    /\ MaxTime \in Nat
    /\ MaxDepth \in Nat \ {0}
    /\ Kinds \subseteq {"write", "review", "import", "forget", "expire"}
    /\ None \notin Rows
    /\ None \notin Nat

VARIABLES
    status,   \* per row: "unborn", "pending" (not committed), "here", "gone"
    by,       \* superseded_by
    sup,      \* supersedes
    stamped,  \* superseded_at IS NOT NULL
    start,    \* occurred_at
    until,    \* occurred_until
    born,     \* created_at
    now,      \* the clock
    req       \* per session: the request under way

links  == <<by, sup, stamped>>
period == <<start, until, born>>
vars   == <<status, by, sup, stamped, start, until, born, now, req>>

OptRows == Rows \cup {None}
OptTimes == Nat \cup {None}

PCs == {"idle", "exact", "successor", "insert", "inserting", "link", "linking",
        "linked", "plan", "delete", "deleting"}

Requests == [pc : PCs,
             old : OptRows,              \* the row to retire, or to delete
             new : OptRows,              \* its successor
             date : OptTimes,            \* the write's occurred_at
             began : OptTimes,           \* now() of the transaction
             again : BOOLEAN,            \* the insert has linked the pair already
             splice : OptRows,           \* DeletePlan.splice_to
             revive : SUBSET Rows]       \* DeletePlan.revive

Idle == [pc |-> "idle", old |-> None, new |-> None, date |-> None, began |-> None,
         again |-> FALSE, splice |-> None, revive |-> {}]

TypeOK ==
    /\ status \in [Rows -> {"unborn", "pending", "here", "gone"}]
    /\ by \in [Rows -> OptRows]
    /\ sup \in [Rows -> OptRows]
    /\ stamped \in [Rows -> BOOLEAN]
    /\ start \in [Rows -> OptTimes]
    /\ until \in [Rows -> OptTimes]
    /\ born \in [Rows -> Nat]
    /\ now \in Nat
    /\ req \in [Sessions -> Requests]

\* A store of live, unlinked, undated facts.
Init ==
    /\ status \in [Rows -> {"unborn", "here"}]
    /\ by = [r \in Rows |-> None]
    /\ sup = [r \in Rows |-> None]
    /\ stamped = [r \in Rows |-> FALSE]
    /\ start = [r \in Rows |-> None]
    /\ until = [r \in Rows |-> None]
    /\ born = [r \in Rows |-> 0]
    /\ now = 1
    /\ req = [s \in Sessions |-> Idle]

-----------------------------------------------------------------------------
(* Rows, periods and locks.                                                *)

Live(r) == status[r] = "here" /\ by[r] = None /\ (until[r] # None => until[r] > now)

Expired(r) == ~stamped[r] /\ until[r] # None /\ until[r] <= now

Predecessors(r) == {p \in Rows : by[p] = r}

\* A successor that became true before the fact it replaces.
Inverted(old, date) == start[old] # None /\ date # None /\ date < start[old]

\* Mutant: the end is the successor's start whatever the predecessor's.
UntilAlways(old, date, created) == IF date # None THEN date ELSE created

\* supersession_until: the end of the period a supersession writes, None when
\* it would make the period empty.
SupersessionUntil(old, date, created) ==
    LET end == IF date # None THEN date ELSE created
    IN IF start[old] = None \/ end > start[old] THEN end ELSE None

\* The guard inside RETIRE_PREDECESSOR_SQL, whose now() is the start of the
\* transaction: an end written since is still ahead of it.
Retirable(s, r) == by[r] = None /\ (~stamped[r] /\ until[r] # None => until[r] > req[s].began)

\* RETIRE_PREDECESSOR_SQL: an end that is there already stays.
Retire(old, new, end) ==
    /\ by' = [by EXCEPT ![old] = new]
    /\ stamped' = [stamped EXCEPT ![old] = TRUE]
    /\ until' = [until EXCEPT ![old] = IF @ = None THEN end ELSE @]

\* Rows a session holds FOR UPDATE.
Locks(s) ==
    IF req[s].pc \in {"inserting", "linking", "linked"} THEN {req[s].old, req[s].new}
    ELSE IF req[s].pc = "deleting" THEN {req[s].old}
    ELSE {}

\* No other session holds any of these rows.
Free(s, rows) == \A t \in Sessions \ {s} : rows \cap Locks(t) = {}

Unlocked(r) == \A s \in Sessions : r \notin Locks(s)

\* The request is over, whatever it answers.
End(s) == req' = [req EXCEPT ![s] = Idle]

Goto(s, pc) == req' = [req EXCEPT ![s].pc = pc]

-----------------------------------------------------------------------------
(* Facts and periods.                                                      *)

Tick ==
    /\ now < MaxTime
    /\ now' = now + 1
    /\ UNCHANGED <<status, links, period, req>>

\* The dates a write may carry: the near-now fence refuses the future.
Stated == {d \in Dates : d <= now} \cup {None}

\* A write that supersedes nothing and collapses into nothing.
StoreFact(r, date) ==
    /\ status[r] = "unborn"
    /\ date \in Stated
    /\ status' = [status EXCEPT ![r] = "here"]
    /\ start' = [start EXCEPT ![r] = date]
    /\ born' = [born EXCEPT ![r] = now]
    /\ UNCHANGED <<links, until, now, req>>

\* review::expire and EXPIRE_SQL, whose guard repeats the service's checks and
\* whose now() is the instant it began, before it waited for the row; a CHECK
\* of the table refuses an end before the start.
Expire(r, at) ==
    /\ "expire" \in Kinds
    /\ status[r] = "here"
    /\ Unlocked(r)
    /\ by[r] = None
    /\ until[r] = None
    /\ at <= now
    /\ start[r] # None => start[r] <= at
    /\ until' = [until EXCEPT ![r] = at]
    /\ UNCHANGED <<status, links, start, born, now, req>>

\* review::unexpire by a caller who holds the instant that closed the row.
Unexpire(r) ==
    /\ status[r] = "here"
    /\ Unlocked(r)
    /\ by[r] = None
    /\ until[r] # None
    /\ until' = [until EXCEPT ![r] = None]
    /\ UNCHANGED <<status, links, start, born, now, req>>

\* review::fill_date: a start where there is none.  The CHECK on the period
\* refuses one after the row's end.
FillDate(r, date) ==
    /\ status[r] = "here"
    /\ Unlocked(r)
    /\ start[r] = None
    /\ date \in Stated \ {None}
    /\ until[r] # None => date <= until[r]
    /\ start' = [start EXCEPT ![r] = date]
    /\ UNCHANGED <<status, links, until, born, now, req>>

-----------------------------------------------------------------------------
(* Validation, without a lock.                                             *)

\* validate_supersedes_target.
Replaceable(s, r) ==
    /\ r \in Reach[s]
    /\ status[r] = "here"
    /\ ~Expired(r)
    /\ by[r] = None

\* memory_write with `supersedes`.
ValidateWrite(s, old, date) ==
    /\ "write" \in Kinds
    /\ req[s].pc = "idle"
    /\ Replaceable(s, old)
    /\ date \in Stated
    /\ ~Inverted(old, date)
    /\ req' = [req EXCEPT ![s] = [Idle EXCEPT !.pc = "exact", !.old = old, !.date = date]]
    /\ UNCHANGED <<status, links, period, now>>

\* find_exact, then supersede_into_existing or the insert.
FindExact(s) ==
    /\ req[s].pc = "exact"
    /\ \/ \E dup \in Rows :
             /\ Live(dup)
             /\ dup # req[s].old
             /\ req[s].date \in {None, start[dup]}
             /\ req' = [req EXCEPT ![s].pc = "link", ![s].new = dup]
       \/ Goto(s, "insert")
    /\ UNCHANGED <<status, links, period, now>>

\* review::supersede reads the row to retire, then the row that replaces it.
ValidateReview(s, old) ==
    /\ "review" \in Kinds
    /\ req[s].pc = "idle"
    /\ Replaceable(s, old)
    /\ req' = [req EXCEPT ![s] = [Idle EXCEPT !.pc = "successor", !.old = old]]
    /\ UNCHANGED <<status, links, period, now>>

ReadSuccessor(s) ==
    /\ req[s].pc = "successor"
    /\ \/ \E new \in Reach[s] \ {req[s].old} :
             /\ Live(new)
             /\ req' = [req EXCEPT ![s].pc = "link", ![s].new = new]
       \/ End(s)
    /\ UNCHANGED <<status, links, period, now>>

\* The link passes of an archive merge: rows it has just written or collapsed
\* onto, linked whether or not they are live.
ImportLink(s, old, new) ==
    /\ "import" \in Kinds
    /\ req[s].pc = "idle"
    /\ old # new
    /\ status[old] = "here"
    /\ status[new] = "here"
    /\ req' = [req EXCEPT ![s] = [Idle EXCEPT !.pc = "link", !.old = old, !.new = new]]
    /\ UNCHANGED <<status, links, period, now>>

-----------------------------------------------------------------------------
(* The insert of a row that supersedes another.                            *)

\* The transaction of an insert or of a link begins, before its locks.
Begin(s) ==
    /\ req[s].pc \in {"insert", "link"}
    /\ req[s].began = None
    /\ req' = [req EXCEPT ![s].began = now]
    /\ UNCHANGED <<status, links, period, now>>

\* The insert and the lock on the predecessor; a predecessor that is gone
\* breaks the foreign key.  Rows bounds the inserts: without an id left the
\* request ends.
BeginInsert(s) ==
    /\ req[s].pc = "insert"
    /\ req[s].began # None
    /\ Free(s, {req[s].old})
    /\ \/ /\ status[req[s].old] = "here"
          /\ \E r \in Rows :
                /\ status[r] = "unborn"
                /\ status' = [status EXCEPT ![r] = "pending"]
                /\ start' = [start EXCEPT ![r] = req[s].date]
                /\ born' = [born EXCEPT ![r] = req[s].began]
                /\ req' = [req EXCEPT ![s].pc = "inserting", ![s].new = r]
       \/ /\ status[req[s].old] # "here" \/ \A r \in Rows : status[r] # "unborn"
          /\ End(s)
          /\ UNCHANGED <<status, start, born>>
    /\ UNCHANGED <<links, until, now>>

\* The insert rolled back: nobody saw the row.
Unborn(r) ==
    /\ status' = [status EXCEPT ![r] = "unborn"]
    /\ start' = [start EXCEPT ![r] = None]

\* The predecessor is retired and both commit, or neither: an inversion, or a
\* predecessor retired or expired meanwhile.
CommitInsert(s) ==
    /\ req[s].pc = "inserting"
    /\ LET old == req[s].old
           new == req[s].new
       IN \/ /\ ~Inverted(old, req[s].date)
             /\ Retirable(s, old)
             /\ Retire(old, new, SupersessionUntil(old, req[s].date, born[new]))
             /\ status' = [status EXCEPT ![new] = "here"]
             /\ sup' = [sup EXCEPT ![new] = old]
             /\ req' = [req EXCEPT ![s].pc = "link", ![s].again = TRUE, ![s].began = None]
             /\ UNCHANGED start
          \/ /\ Inverted(old, req[s].date) \/ ~Retirable(s, old)
             /\ Unborn(new)
             /\ End(s)
             /\ UNCHANGED <<links, until>>
    /\ UNCHANGED <<born, now>>

-----------------------------------------------------------------------------
(* PgMemoryRepository::supersede, which the insert's caller runs as well.  *)

\* Mutant: the rows the lock query did not return are not missed.
FoundEither(s) == TRUE

\* The lock query returned both rows.
Found(s) == status[req[s].old] = "here" /\ status[req[s].new] = "here"

\* Both rows are locked and read: a missing row, a link that is there already
\* and another successor end the request.
LockPair(s) ==
    /\ req[s].pc = "link"
    /\ req[s].began # None
    /\ Free(s, {req[s].old, req[s].new})
    /\ IF Found(s) /\ by[req[s].old] = None THEN Goto(s, "linking") ELSE End(s)
    /\ UNCHANGED <<status, links, period, now>>

\* CHAIN_IDS_SQL: the ids on the chain from a row, to the depth cap.
ChainIds(r) ==
    LET id[k \in 1 .. MaxDepth] ==
            IF k = 1 THEN r ELSE IF id[k - 1] = None THEN None ELSE by[id[k - 1]]
    IN {id[k] : k \in 1 .. MaxDepth} \ {None}

\* Mutant: no walk.
ClosesNoLoop(old, new) == FALSE

\* The link about to be written would close a loop.
ClosesLoop(old, new) == old \in ChainIds(new)

\* Mutant: the dates the service compared before the lock are good enough.
WalkUndated(s) ==
    /\ req[s].pc = "linking"
    /\ IF ClosesLoop(req[s].old, req[s].new) THEN End(s) ELSE Goto(s, "linked")
    /\ UNCHANGED <<status, links, period, now>>

\* Mutant: a refusal that keeps its transaction open.
WalkLeaks(s) ==
    /\ req[s].pc = "linking"
    /\ ~ClosesLoop(req[s].old, req[s].new)
    /\ IF Inverted(req[s].old, start[req[s].new]) THEN End(s) ELSE Goto(s, "linked")
    /\ UNCHANGED <<status, links, period, now>>

\* The walk and the dates, read under the locks.
Walk(s) ==
    /\ req[s].pc = "linking"
    /\ IF \/ ClosesLoop(req[s].old, req[s].new)
          \/ Inverted(req[s].old, start[req[s].new])
       THEN End(s) ELSE Goto(s, "linked")
    /\ UNCHANGED <<status, links, period, now>>

\* Mutant: the mirror is written whether or not the retire found its row.
LinkAnyway(s) ==
    /\ req[s].pc = "linked"
    /\ LET old == req[s].old
           new == req[s].new
       IN /\ IF Retirable(s, old)
             THEN Retire(old, new, SupersessionUntil(old, start[new], born[new]))
             ELSE UNCHANGED <<by, stamped, until>>
          /\ sup' = [sup EXCEPT ![new] = IF @ = None THEN old ELSE @]
    /\ End(s)
    /\ UNCHANGED <<status, start, born, now>>

\* The retire, the mirror where it is empty, and the commit.
Link(s) ==
    /\ req[s].pc = "linked"
    /\ LET old == req[s].old
           new == req[s].new
       IN IF Retirable(s, old)
          THEN /\ Retire(old, new, SupersessionUntil(old, start[new], born[new]))
               /\ sup' = [sup EXCEPT ![new] = IF @ = None THEN old ELSE @]
          ELSE UNCHANGED <<links, until>>
    /\ End(s)
    /\ UNCHANGED <<status, start, born, now>>

-----------------------------------------------------------------------------
(* Forget.                                                                 *)

\* chain_neighbours reads the row's own links, then its neighbours.
PlanOwn(s, doomed) ==
    /\ "forget" \in Kinds
    /\ req[s].pc = "idle"
    /\ doomed \in Reach[s]
    /\ status[doomed] = "here"
    /\ req' = [req EXCEPT ![s] = [Idle EXCEPT !.pc = "plan", !.old = doomed,
                                              !.splice = by[doomed]]]
    /\ UNCHANGED <<status, links, period, now>>

\* Mutant: the plan revives whoever the row had retired.
PlanAllowedAnyway(s, rows) == TRUE

\* plan_for: a row that comes back to life is one the caller may reach.
PlanAllowed(s, rows) == rows \subseteq Reach[s]

PlanLinks(s) ==
    /\ req[s].pc = "plan"
    /\ LET preds == Predecessors(req[s].old)
       IN IF req[s].splice # None THEN Goto(s, "delete")
          ELSE IF PlanAllowed(s, preds)
               THEN req' = [req EXCEPT ![s].pc = "delete", ![s].revive = preds]
               ELSE End(s)
    /\ UNCHANGED <<status, links, period, now>>

LockDoomed(s) ==
    /\ req[s].pc = "delete"
    /\ Free(s, {req[s].old})
    /\ IF status[req[s].old] = "here" THEN Goto(s, "deleting") ELSE End(s)
    /\ UNCHANGED <<status, links, period, now>>

\* Rows the delete's statements write, or whose key they hold.
DeleteNeeds(s) ==
    LET preds == Predecessors(req[s].old)
    IN preds \cup {r \in Rows : sup[r] = req[s].old}
             \cup (IF preds = {} THEN {} ELSE {req[s].splice} \ {None})

\* A predecessor the plan does not account for, or a splice onto a row that is
\* gone, breaks a foreign key and rolls the delete back.
DeleteConflicts(s) ==
    LET left == Predecessors(req[s].old) \ req[s].revive
    IN left # {} /\ (req[s].splice = None \/ status[req[s].splice] # "here")

\* Mutant: a revive that leaves the end the supersession wrote.
DeleteKeepsEnd(s) ==
    LET doomed  == req[s].old
        revived == req[s].revive \cap Predecessors(doomed)
    IN /\ by' = [r \in Rows |-> IF r = doomed \/ r \in revived THEN None
                                ELSE IF by[r] = doomed THEN req[s].splice ELSE by[r]]
       /\ stamped' = [r \in Rows |-> stamped[r] /\ r \notin revived]
       /\ sup' = [r \in Rows |-> IF r = doomed THEN None
                                 ELSE IF sup[r] = doomed THEN sup[doomed] ELSE sup[r]]
       /\ until' = until
       /\ status' = [status EXCEPT ![doomed] = "gone"]

\* The chain edits and the delete: the planned rows come back to life with an
\* open period, the others are spliced, the provenance links close the gap.
DeleteRow(s) ==
    LET doomed  == req[s].old
        revived == req[s].revive \cap Predecessors(doomed)
    IN /\ by' = [r \in Rows |-> IF r = doomed \/ r \in revived THEN None
                                ELSE IF by[r] = doomed THEN req[s].splice ELSE by[r]]
       /\ stamped' = [r \in Rows |-> stamped[r] /\ r \notin revived]
       /\ sup' = [r \in Rows |-> IF r = doomed THEN None
                                 ELSE IF sup[r] = doomed THEN sup[doomed] ELSE sup[r]]
       /\ until' = [r \in Rows |-> IF r \in revived THEN None ELSE until[r]]
       /\ status' = [status EXCEPT ![doomed] = "gone"]

Delete(s) ==
    /\ req[s].pc = "deleting"
    /\ Free(s, DeleteNeeds(s))
    /\ IF DeleteConflicts(s) THEN UNCHANGED <<status, links, until>> ELSE DeleteRow(s)
    /\ End(s)
    /\ UNCHANGED <<start, born, now>>

-----------------------------------------------------------------------------
(* Transactions that end without committing.                               *)

\* A lost connection, a timeout, or the deadlock two inserts of one predecessor
\* meet when both hold its key and want its row.
Abort(s) ==
    /\ req[s].pc \in {"inserting", "linking", "linked", "deleting"}
    /\ IF req[s].pc = "inserting" THEN Unborn(req[s].new) ELSE UNCHANGED <<status, start>>
    /\ End(s)
    /\ UNCHANGED <<links, until, born, now>>

\* A delete that waits for a row of another delete.
WaitsFor(s, t) ==
    /\ req[s].pc = "deleting"
    /\ req[t].pc = "deleting"
    /\ DeleteNeeds(s) \cap Locks(t) # {}

\* Postgres ends one of two deletes that wait for each other.
BreakDeadlock(s) ==
    /\ \E t \in Sessions \ {s} : WaitsFor(s, t) /\ WaitsFor(t, s)
    /\ End(s)
    /\ UNCHANGED <<status, links, period, now>>

\* What a session does once its request is under way.
Step(s) ==
    \/ FindExact(s) \/ ReadSuccessor(s) \/ Begin(s) \/ BeginInsert(s) \/ CommitInsert(s)
    \/ LockPair(s) \/ Walk(s) \/ Link(s)
    \/ PlanLinks(s) \/ LockDoomed(s) \/ Delete(s) \/ BreakDeadlock(s)

Next ==
    \/ Tick
    \/ \E r \in Rows : \/ \E d \in Dates \cup {None} : StoreFact(r, d) \/ FillDate(r, d)
                       \/ \E at \in 1 .. now : Expire(r, at)
                       \/ Unexpire(r)
    \/ \E s \in Sessions : \/ \E r \in Rows : \/ \E d \in Dates \cup {None} : ValidateWrite(s, r, d)
                                              \/ ValidateReview(s, r)
                                              \/ PlanOwn(s, r)
                                              \/ \E n \in Rows : ImportLink(s, r, n)
                           \/ Step(s) \/ Abort(s)

Spec == Init /\ [][Next]_vars

-----------------------------------------------------------------------------
(* Safety.                                                                 *)

\* From every row the chain leads to a row with no successor.  Rows on a loop
\* are in no live read, "data loss dressed as a correction" (supersede).
ChainsEnd == \A rows \in SUBSET Rows : rows # {} => \E r \in rows : by[r] \notin rows

\* The provenance link of a row names a row that this row retired, never one
\* that is live again or that another row retired.
MirrorAgrees == \A r \in Rows : sup[r] # None => by[sup[r]] = r

\* A retire never links a fact to one that became true before it, however the
\* dates moved between the service's check and the transaction.
LinkIsOrdered ==
    [][\A r \in Rows : by[r] = None /\ by'[r] # None =>
          ~(start'[r] # None /\ start'[by'[r]] # None /\ start'[by'[r]] < start'[r])]_vars

\* A transaction about to retire this row had begun before this instant.
BegunBefore(r, at) ==
    \E s \in Sessions : /\ req[s].pc \in {"inserting", "linked"}
                         /\ req[s].old = r
                         /\ req[s].began < at

\* A supersession leaves no empty or inverted period behind, and a row that
\* expired keeps its end and its lack of a successor (RETIRE_PREDECESSOR_SQL:
\* "An expired row takes no successor"): the one exception is an expiry that
\* came while the transaction that retires the row was open, and there the end
\* stays the expiry's, until a delete takes it for the supersession's own.  The service's check is older than either
\* and does not cover what happens before the retire.
PeriodsAreReal ==
    [][\A r \in Rows : by[r] = None /\ by'[r] # None =>
          IF until[r] = None
          THEN start'[r] = None \/ until'[r] = None \/ start'[r] < until'[r]
          ELSE until'[r] = until[r] /\ BegunBefore(r, until[r])]_vars

\* A row without a successor has an end only because somebody expired it: none
\* is left over from a supersession that a forget has undone.
EndsAreExpiries ==
    [][\A r \in Rows :
          /\ by'[r] = None /\ until'[r] # None /\ status'[r] = "here"
          /\ by[r] # None \/ until[r] = None
          => UNCHANGED links]_vars

\* A forget brings a row back to life only for a caller who may reach it,
\* whatever joined the chain since the plan was made.
ForeignStaysRetired ==
    [][\A r \in Rows : by[r] # None /\ by'[r] = None /\ status'[r] = "here" =>
          \E s \in Sessions : req[s].pc = "deleting" /\ req'[s] = Idle /\ r \in Reach[s]]_vars

\* The supersede a write runs after its own insert finds the link in place or a
\* row gone, and writes nothing.
ConfirmIsIdle == \A s \in Sessions : req[s].again => req[s].pc \notin {"linking", "linked"}

-----------------------------------------------------------------------------
(* What the proofs add to make the properties above inductive.             *)

\* A request under way names the rows its next statement needs.
RequestShape ==
    \A s \in Sessions :
        /\ req[s].pc # "idle" => req[s].old \in Rows
        /\ req[s].pc \in {"inserting", "link", "linking", "linked"} =>
              req[s].new \in Rows /\ req[s].new # req[s].old
        /\ req[s].revive \subseteq Reach[s]
        /\ req[s].pc \in {"inserting", "linking", "linked"} => req[s].began # None

\* No instant in the store is ahead of the clock.
NothingAhead ==
    /\ \A r \in Rows : /\ until[r] # None => until[r] <= now
                       /\ start[r] # None => start[r] <= now
                       /\ born[r] <= now
    /\ \A s \in Sessions : /\ req[s].date # None => req[s].date <= now
                           /\ req[s].began # None => req[s].began <= now

\* superseded_at and superseded_by are set and cleared together.
StampAgrees == \A r \in Rows : status[r] # "gone" => (stamped[r] <=> by[r] # None)

\* A row has one holder, and its holder alone deletes it or gives it up.
LocksHeld ==
    /\ \A s, t \in Sessions : s # t => Locks(s) \cap Locks(t) = {}
    /\ \A s \in Sessions :
          /\ req[s].pc \in {"inserting", "linking", "linked", "deleting"} =>
                status[req[s].old] = "here"
          /\ req[s].pc \in {"linking", "linked"} => status[req[s].new] = "here"
          /\ req[s].pc = "inserting" => status[req[s].new] = "pending"

\* The dates a transaction has compared stay as they are while it holds them.
DatesHeld ==
    \A s \in Sessions :
        /\ req[s].pc = "inserting" => start[req[s].new] = req[s].date
        /\ req[s].pc = "linked" => ~Inverted(req[s].old, start[req[s].new])

\* What the insert linked stays linked until one of the two rows is deleted.
InsertHeld ==
    \A s \in Sessions : req[s].again =>
        /\ req[s].pc = "link"
        /\ \/ by[req[s].old] = req[s].new
           \/ "gone" \in {status[req[s].old], status[req[s].new]}

IndInv == /\ TypeOK
          /\ RequestShape
          /\ NothingAhead
          /\ StampAgrees
          /\ LocksHeld
          /\ DatesHeld
          /\ InsertHeld

\* At most one transaction is between its walk and its commit.
OneLinks ==
    \A s, t \in Sessions : req[s].pc = "linked" /\ req[t].pc = "linked" => s = t

\* A row that is not in the store has no successor.
UnbornUnlinked == \A r \in Rows : status[r] \in {"unborn", "pending"} => by[r] = None

\* The rows a walk has seen still lead only to each other: the row about to be
\* retired is not on the chain of its successor.
WalkHolds ==
    \A s \in Sessions : req[s].pc = "linked" =>
        \E seen \in SUBSET Rows :
            /\ req[s].new \in seen
            /\ req[s].old \notin seen
            /\ \A r \in seen : by[r] \in seen \cup {None}

\* The successor a plan has read stays the successor while both rows exist.
SpliceHolds ==
    \A s \in Sessions :
        req[s].pc \in {"plan", "delete", "deleting"} /\ req[s].splice # None =>
            \/ by[req[s].old] = req[s].splice
            \/ "gone" \in {status[req[s].old], status[req[s].splice]}

LoopInv == ChainsEnd /\ UnbornUnlinked /\ WalkHolds /\ SpliceHolds

-----------------------------------------------------------------------------
(* Liveness.  The runtime polls every request and Postgres queues the      *)
(* waiters of a row lock, so a request that can go on again and again does *)
(* (strong fairness); Postgres also breaks deadlocks.                      *)

LiveSpec == Spec /\ \A s \in Sessions : SF_vars(Step(s))

\* Every request ends: no two transactions wait for each other for good.
RequestsEnd == \A s \in Sessions : req[s].pc # "idle" ~> req[s].pc = "idle"

=============================================================================
