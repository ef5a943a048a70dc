------------------------- MODULE SupersessionProofs -------------------------
(***************************************************************************)
(* Theorems about Supersession, for every set of rows and sessions, every  *)
(* grant and any length of chain.  Only the theorem on loops takes a store *)
(* that the walk of a link sees whole, which is where the code relies on   *)
(* MAX_CHAIN_DEPTH.                                                        *)
(***************************************************************************)
EXTENDS Supersession, FiniteSetTheorems, WellFoundedInduction, TLAPS

\* Rows a request holds at its statement.
Held(q) ==
    IF q.pc \in {"inserting", "linking", "linked"} THEN {q.old, q.new}
    ELSE IF q.pc = "deleting" THEN {q.old}
    ELSE {}

\* A request is where the store allows it to be.
Fits(s, q) ==
    /\ q \in Requests
    /\ q.pc # "idle" => q.old \in Rows
    /\ q.pc \in {"inserting", "link", "linking", "linked"} => q.new \in Rows /\ q.new # q.old
    /\ q.revive \subseteq Reach[s]
    /\ q.date # None => q.date <= now
    /\ q.began # None => q.began <= now
    /\ q.pc \in {"inserting", "linking", "linked"} => q.began # None
    /\ Free(s, Held(q))
    /\ q.pc \in {"inserting", "linking", "linked", "deleting"} => status[q.old] = "here"
    /\ q.pc \in {"linking", "linked"} => status[q.new] = "here"
    /\ q.pc = "inserting" => status[q.new] = "pending"
    /\ q.pc = "inserting" => start[q.new] = q.date
    /\ q.pc = "linked" => ~Inverted(q.old, start[q.new])
    /\ q.again => /\ q.pc = "link"
                  /\ by[q.old] = q.new \/ "gone" \in {status[q.old], status[q.new]}

\* The invariant says that every request fits.
LEMMA RequestsFit ==
    ASSUME IndInv, NEW s \in Sessions
    PROVE  /\ Fits(s, req[s])
           /\ req[s] \in Requests
           /\ Locks(s) = Held(req[s])
<1>1. req[s] \in Requests
  BY DEF IndInv, TypeOK
<1>2. Locks(s) = Held(req[s])
  BY DEF Locks, Held
<1>3. Free(s, Held(req[s]))
  BY <1>2 DEF IndInv, LocksHeld, Free
<1>4. QED
  BY <1>1, <1>2, <1>3
  DEF Fits, IndInv, RequestShape, NothingAhead, LocksHeld, DatesHeld, InsertHeld

\* The idle request fits everywhere.
LEMMA IdleFits == ASSUME NEW s \in Sessions, IndInv PROVE Fits(s, Idle)
BY ChainAssumption DEF Fits, Idle, Requests, PCs, OptRows, OptTimes, Held, Free

\* A step that changes one request and nothing else.
LEMMA RequestStep ==
    ASSUME IndInv, NEW s \in Sessions, NEW q, Fits(s, q),
           req' = [req EXCEPT ![s] = q], UNCHANGED <<status, links, period, now>>
    PROVE  IndInv'
<1>1. q \in Requests
  BY DEF Fits
<1>2. TypeOK'
  BY <1>1 DEF IndInv, TypeOK, links, period
<1>3. req'[s] = q /\ \A t \in Sessions \ {s} : req'[t] = req[t]
  BY DEF IndInv, TypeOK
<1>4. RequestShape' /\ NothingAhead' /\ StampAgrees'
  BY <1>3 DEF Fits, IndInv, RequestShape, NothingAhead, StampAgrees, links, period
<1>5. LocksHeld'
  <2>1. Locks(s)' = Held(q) /\ \A t \in Sessions \ {s} : Locks(t)' = Locks(t)
    BY <1>3 DEF Locks, Held
  <2>2. \A t \in Sessions \ {s} : Locks(t) \cap Held(q) = {}
    BY DEF Fits, Free
  <2>3. \A t, u \in Sessions : t # u => Locks(t)' \cap Locks(u)' = {}
    BY <2>1, <2>2 DEF IndInv, LocksHeld
  <2>4. QED
    BY <1>3, <2>3 DEF Fits, IndInv, LocksHeld
<1>6. DatesHeld' /\ InsertHeld'
  BY <1>3 DEF Fits, IndInv, DatesHeld, InsertHeld, Inverted, links, period
<1>7. QED
  BY <1>2, <1>4, <1>5, <1>6 DEF IndInv

\* A request that ends without writing.
LEMMA EndStep ==
    ASSUME IndInv, NEW s \in Sessions, End(s), UNCHANGED <<status, links, period, now>>
    PROVE  IndInv'
BY RequestStep, IdleFits DEF End

\* A date a write may state is an instant that has come.
LEMMA StatedType ==
    ASSUME IndInv, NEW d \in Stated
    PROVE  d \in OptTimes /\ (d # None => d <= now)
BY ChainAssumption DEF Stated, OptTimes, IndInv, TypeOK

\* The requests that begin keep the invariant.
LEMMA BeginStep ==
    ASSUME IndInv, NEW s \in Sessions, NEW r \in Rows,
           \/ \E d \in Dates \cup {None} : ValidateWrite(s, r, d)
           \/ ValidateReview(s, r)
           \/ PlanOwn(s, r)
           \/ \E n \in Rows : ImportLink(s, r, n)
    PROVE  IndInv'
<1>1. CASE \E d \in Dates \cup {None} : ValidateWrite(s, r, d)
  <2>1. PICK d \in Dates \cup {None} : ValidateWrite(s, r, d)
    BY <1>1
  <2>2. d \in OptTimes /\ (d # None => d <= now)
    BY <2>1, StatedType DEF ValidateWrite
  <2> DEFINE q == [Idle EXCEPT !.pc = "exact", !.old = r, !.date = d]
  <2>3. Fits(s, q)
    BY <2>2 DEF Fits, Idle, Requests, PCs, OptRows, OptTimes, Held, Free
  <2>4. QED
    BY <2>1, <2>3, RequestStep DEF ValidateWrite
<1>2. CASE ValidateReview(s, r)
  <2> DEFINE q == [Idle EXCEPT !.pc = "successor", !.old = r]
  <2>3. Fits(s, q)
    BY DEF Fits, Idle, Requests, PCs, OptRows, OptTimes, Held, Free
  <2>4. QED
    BY <1>2, <2>3, RequestStep DEF ValidateReview
<1>3. CASE PlanOwn(s, r)
  <2> DEFINE q == [Idle EXCEPT !.pc = "plan", !.old = r, !.splice = by[r]]
  <2>3. Fits(s, q)
    BY DEF Fits, Idle, Requests, PCs, OptRows, OptTimes, Held, Free, IndInv, TypeOK
  <2>4. QED
    BY <1>3, <2>3, RequestStep DEF PlanOwn
<1>4. CASE \E n \in Rows : ImportLink(s, r, n)
  <2>1. PICK n \in Rows : ImportLink(s, r, n)
    BY <1>4
  <2> DEFINE q == [Idle EXCEPT !.pc = "link", !.old = r, !.new = n]
  <2>3. Fits(s, q)
    BY <2>1 DEF Fits, Idle, Requests, PCs, OptRows, OptTimes, Held, Free, ImportLink
  <2>4. QED
    BY <2>1, <2>3, RequestStep DEF ImportLink
<1>5. QED
  BY <1>1, <1>2, <1>3, <1>4

\* A request moves on without taking a lock.
LEMMA GotoStep ==
    ASSUME IndInv, NEW s \in Sessions, NEW pc \in {"insert", "delete"}, ~req[s].again,
           req[s].pc # "idle", Goto(s, pc), UNCHANGED <<status, links, period, now>>
    PROVE  IndInv'
<1> DEFINE q == [req[s] EXCEPT !.pc = pc]
<1>1. Fits(s, req[s]) /\ req[s] \in Requests
  BY RequestsFit
<1>2. Fits(s, q)
  BY <1>1 DEF Fits, Requests, PCs, Held, Free
<1>3. QED
  BY <1>2, RequestStep DEF Goto

\* The unlocked reads keep the invariant.
LEMMA ReadStep ==
    ASSUME IndInv, NEW s \in Sessions, FindExact(s) \/ ReadSuccessor(s) \/ PlanLinks(s)
    PROVE  IndInv'
<1>0. Fits(s, req[s]) /\ req[s] \in Requests /\ ~req[s].again
  BY RequestsFit DEF Fits, FindExact, ReadSuccessor, PlanLinks
<1>1. ASSUME NEW n \in Rows, n # req[s].old, req[s].pc # "idle",
             req' = [req EXCEPT ![s].pc = "link", ![s].new = n],
             UNCHANGED <<status, links, period, now>>
      PROVE  IndInv'
  <2> DEFINE q == [req[s] EXCEPT !.pc = "link", !.new = n]
  <2>1. Fits(s, q)
    BY <1>0, <1>1 DEF Fits, Requests, PCs, OptRows, Held, Free
  <2>2. req' = [req EXCEPT ![s] = q]
    BY <1>1 DEF IndInv, TypeOK
  <2>3. QED
    BY <1>1, <2>1, <2>2, RequestStep
<1>2. CASE FindExact(s)
  BY <1>0, <1>1, <1>2, GotoStep DEF FindExact
<1>3. CASE ReadSuccessor(s)
  BY <1>1, <1>3, EndStep, ChainAssumption DEF ReadSuccessor
<1>4. CASE PlanLinks(s)
  <2> DEFINE preds == Predecessors(req[s].old)
  <2> DEFINE q == [req[s] EXCEPT !.pc = "delete", !.revive = preds]
  <2>1. ASSUME preds \subseteq Reach[s] PROVE Fits(s, q)
    BY <1>0, <1>4, <2>1 DEF Fits, Requests, PCs, Held, Free, Predecessors, PlanLinks
  <2>2. ASSUME preds \subseteq Reach[s], req' = [req EXCEPT ![s].pc = "delete", ![s].revive = preds]
        PROVE  req' = [req EXCEPT ![s] = q]
    BY <2>2 DEF IndInv, TypeOK
  <2>3. QED
    BY <1>0, <1>4, <2>1, <2>2, RequestStep, GotoStep, EndStep DEF PlanLinks, PlanAllowed
<1>5. QED
  BY <1>2, <1>3, <1>4

\* A transaction begins: its instant has come.
LEMMA OpenStep == ASSUME IndInv, NEW s \in Sessions, Begin(s) PROVE IndInv'
<1> DEFINE q == [req[s] EXCEPT !.began = now]
<1>0. Fits(s, req[s]) /\ req[s] \in Requests /\ req[s].pc \in {"insert", "link"} /\ now \in Nat
  BY RequestsFit DEF Begin, IndInv, TypeOK
<1>1. q \in Requests
  BY <1>0 DEF Requests, OptTimes
<1>2. /\ q.pc = req[s].pc /\ q.old = req[s].old /\ q.new = req[s].new /\ q.date = req[s].date
      /\ q.again = req[s].again /\ q.revive = req[s].revive /\ q.began = now
  BY <1>0 DEF Requests
<1> HIDE DEF q
<1>3. Fits(s, q)
  BY <1>0, <1>1, <1>2 DEF Fits, Held
<1>4. QED
  BY <1>3, RequestStep DEF Begin, q

\* Taking row locks, and reading under them.
LEMMA LockStep ==
    ASSUME IndInv, NEW s \in Sessions, LockPair(s) \/ Walk(s) \/ LockDoomed(s)
    PROVE  IndInv'
<1>0. Fits(s, req[s]) /\ req[s] \in Requests /\ Locks(s) = Held(req[s])
  BY RequestsFit
<1>1. CASE LockPair(s)
  <2> DEFINE q == [req[s] EXCEPT !.pc = "linking"]
  <2>1. ASSUME Found(s), by[req[s].old] = None PROVE Fits(s, q)
    <3>1. ~req[s].again
      BY <1>0, <1>1, <2>1, ChainAssumption DEF Fits, Found, LockPair
    <3>2. Free(s, {req[s].old, req[s].new})
      BY <1>1 DEF LockPair
    <3>3. QED
      BY <1>0, <1>1, <2>1, <3>1, <3>2 DEF Fits, Requests, PCs, Held, LockPair, Found
  <2>2. QED
    BY <1>1, <2>1, RequestStep, EndStep DEF LockPair, Goto
<1>2. CASE Walk(s)
  <2> DEFINE q == [req[s] EXCEPT !.pc = "linked"]
  <2>1. ASSUME ~Inverted(req[s].old, start[req[s].new]) PROVE Fits(s, q)
    BY <1>0, <1>2, <2>1 DEF Fits, Requests, PCs, Held, Free, Walk
  <2>2. QED
    BY <1>2, <2>1, RequestStep, EndStep DEF Walk, Goto
<1>3. CASE LockDoomed(s)
  <2> DEFINE q == [req[s] EXCEPT !.pc = "deleting"]
  <2>1. ASSUME status[req[s].old] = "here" PROVE Fits(s, q)
    BY <1>0, <1>3, <2>1 DEF Fits, Requests, PCs, Held, Free, LockDoomed
  <2>2. QED
    BY <1>3, <2>1, RequestStep, EndStep DEF LockDoomed, Goto
<1>4. QED
  BY <1>1, <1>2, <1>3

\* The clock, new facts and the edits of a period keep the invariant: none
\* touches a row that a transaction holds.
LEMMA PeriodStep ==
    ASSUME IndInv, NEW r \in Rows, NEW d,
           \/ Tick \/ StoreFact(r, d) \/ FillDate(r, d)
           \/ \E at \in 1 .. now : Expire(r, at)
           \/ Unexpire(r)
    PROVE  IndInv'
<1> USE DEF Expire
<1>0. req' = req /\ links' = links /\ by' = by /\ sup' = sup /\ stamped' = stamped
  BY DEF Tick, StoreFact, FillDate, Expire, Unexpire, links, period
<1>1. \A s \in Sessions : Locks(s)' = Locks(s)
  BY <1>0 DEF Locks
<1>2. ASSUME d \in Stated PROVE d \in OptTimes /\ (d # None => d <= now)
  BY <1>2, StatedType
<1>3. TypeOK'
  BY <1>0, <1>2 DEF IndInv, TypeOK, OptTimes, Tick, StoreFact, FillDate, Expire, Unexpire, period
<1>4. RequestShape'
  BY <1>0 DEF IndInv, RequestShape
<1>5. NothingAhead'
  BY <1>0, <1>2, ChainAssumption
  DEF IndInv, NothingAhead, TypeOK, OptTimes, Requests, Tick, StoreFact, FillDate, Expire, Unexpire, period
<1>6. \A x \in Rows : status'[x] # status[x] => status[x] = "unborn" /\ status'[x] = "here"
  BY DEF IndInv, TypeOK, Tick, StoreFact, FillDate, Expire, Unexpire
<1>7. StampAgrees'
  BY <1>0, <1>6 DEF IndInv, StampAgrees
<1>8. \A s \in Sessions : \A x \in Locks(s) \cap Rows :
          status[x] # "unborn" /\ status'[x] = status[x] /\ start'[x] = start[x]
  <2> SUFFICES ASSUME NEW s \in Sessions, NEW x \in Locks(s), x \in Rows
               PROVE  status[x] # "unborn" /\ status'[x] = status[x] /\ start'[x] = start[x]
    OBVIOUS
  <2>1. status[x] # "unborn"
    BY DEF Locks, IndInv, LocksHeld
  <2>2. status'[x] = status[x]
    BY <2>1, <1>6
  <2>3. start'[x] = start[x]
    <3>1. start \in [Rows -> OptTimes]
      BY DEF IndInv, TypeOK
    <3>2. CASE StoreFact(r, d)
      <4>1. x # r /\ start' = [start EXCEPT ![r] = d]
        BY <2>1, <3>2 DEF StoreFact
      <4>2. QED
        BY <3>1, <4>1
    <3>3. CASE FillDate(r, d)
      <4>1. x # r /\ start' = [start EXCEPT ![r] = d]
        BY <3>3 DEF FillDate, Unlocked
      <4>2. QED
        BY <3>1, <4>1
    <3>4. CASE Tick \/ (\E at \in 1 .. now : Expire(r, at)) \/ Unexpire(r)
      BY <3>4 DEF Tick, Expire, Unexpire, period
    <3>5. QED
      BY <3>2, <3>3, <3>4
  <2>4. QED
    BY <2>1, <2>2, <2>3
<1>9. LocksHeld'
  <2>1. \A s, t \in Sessions : s # t => Locks(s)' \cap Locks(t)' = {}
    BY <1>1 DEF IndInv, LocksHeld
  <2>2. ASSUME NEW s \in Sessions
        PROVE  /\ req[s].pc \in {"inserting", "linking", "linked", "deleting"} =>
                      status'[req[s].old] = "here"
               /\ req[s].pc \in {"linking", "linked"} => status'[req[s].new] = "here"
               /\ req[s].pc = "inserting" => status'[req[s].new] = "pending"
    BY <1>8 DEF IndInv, LocksHeld, RequestShape, Locks
  <2>3. QED
    BY <1>0, <2>1, <2>2 DEF LocksHeld
<1>10. DatesHeld'
  BY <1>0, <1>8 DEF IndInv, DatesHeld, RequestShape, Locks, Inverted
<1>11. InsertHeld'
  BY <1>0, <1>6 DEF IndInv, InsertHeld, RequestShape
<1>12. QED
  BY <1>3, <1>4, <1>5, <1>7, <1>9, <1>10, <1>11 DEF IndInv

\* A step of one session that leaves the rows the others hold as they are.
LEMMA StoreStep ==
    ASSUME IndInv, NEW s \in Sessions, TypeOK', now' = now,
           \A t \in Sessions \ {s} : req'[t] = req[t],
           Fits(s, req[s])',
           \A t \in Sessions \ {s} : \A x \in Locks(t) \cap Rows :
               status'[x] = status[x] /\ start'[x] = start[x],
           \A t \in Sessions \ {s} : req[t].again =>
               \/ by'[req[t].old] = req[t].new
               \/ "gone" \in {status'[req[t].old], status'[req[t].new]},
           StampAgrees',
           \A r \in Rows : /\ until'[r] # None => until'[r] <= now
                           /\ start'[r] # None => start'[r] <= now
                           /\ born'[r] <= now
    PROVE  IndInv'
<1>1. RequestShape' /\ NothingAhead'
  BY DEF IndInv, RequestShape, NothingAhead, Fits
<1>2. Locks(s)' = Held(req[s])' /\ \A t \in Sessions \ {s} : Locks(t)' = Locks(t)
  BY DEF Locks, Held
<1>3. \A t \in Sessions \ {s} : Locks(t)' \cap Locks(s)' = {}
  BY <1>2 DEF Fits, Free
<1>4. \A t, u \in Sessions : t # u => Locks(t)' \cap Locks(u)' = {}
  BY <1>2, <1>3 DEF IndInv, LocksHeld
<1>5. ASSUME NEW t \in Sessions \ {s}
      PROVE  /\ req[t].pc \in {"inserting", "linking", "linked", "deleting"} =>
                   status'[req[t].old] = "here" /\ start'[req[t].old] = start[req[t].old]
             /\ req[t].pc \in {"linking", "linked"} => status'[req[t].new] = "here"
             /\ req[t].pc = "inserting" => status'[req[t].new] = "pending"
             /\ req[t].pc \in {"inserting", "linking", "linked"} =>
                   start'[req[t].new] = start[req[t].new]
  BY DEF Locks, IndInv, LocksHeld, RequestShape
<1>6. LocksHeld'
  BY <1>4, <1>5 DEF LocksHeld, Fits
<1>7. DatesHeld'
  BY <1>5 DEF IndInv, DatesHeld, Fits, Inverted
<1>8. InsertHeld'
  BY DEF IndInv, InsertHeld, Fits
<1>9. QED
  BY <1>1, <1>6, <1>7, <1>8 DEF IndInv

\* The insert of a row that supersedes another.
LEMMA BeginInsertStep == ASSUME IndInv, NEW s \in Sessions, BeginInsert(s) PROVE IndInv'
<1>0. Fits(s, req[s]) /\ req[s] \in Requests /\ req[s].old \in Rows /\ ~req[s].again
  BY RequestsFit DEF Fits, BeginInsert
<1>1. CASE End(s) /\ UNCHANGED <<status, start, born>>
  BY <1>1, EndStep DEF BeginInsert, period, links
<1>2. CASE ~(End(s) /\ UNCHANGED <<status, start, born>>)
  <2>1. PICK r \in Rows :
            /\ status[r] = "unborn"
            /\ status' = [status EXCEPT ![r] = "pending"]
            /\ start' = [start EXCEPT ![r] = req[s].date]
            /\ born' = [born EXCEPT ![r] = req[s].began]
            /\ req' = [req EXCEPT ![s].pc = "inserting", ![s].new = r]
    BY <1>2 DEF BeginInsert
  <2>2. /\ status[req[s].old] = "here"
        /\ Free(s, {req[s].old})
        /\ UNCHANGED <<by, sup, stamped, until, now>>
        /\ req[s].began \in Nat /\ req[s].began <= now
    BY <1>0, <1>2 DEF BeginInsert, links, Fits, Requests, OptTimes
  <2> DEFINE q == [req[s] EXCEPT !.pc = "inserting", !.new = r]
  <2>3. q \in Requests
    BY <1>0 DEF Requests, PCs, OptRows
  <2>4. req' = [req EXCEPT ![s] = q]
    BY <2>1 DEF IndInv, TypeOK
  <2>5. req'[s] = q /\ \A t \in Sessions \ {s} : req'[t] = req[t]
    BY <2>4 DEF IndInv, TypeOK
  <2>6. TypeOK'
    BY <2>1, <2>2, <2>3, <2>4, <1>0 DEF IndInv, TypeOK, Requests
  <2>7. \A t \in Sessions : r \notin Locks(t)
    BY <2>1 DEF Locks, IndInv, LocksHeld
  <2>8. /\ q.pc = "inserting" /\ q.new = r /\ q.old = req[s].old /\ q.date = req[s].date
        /\ q.again = req[s].again /\ q.revive = req[s].revive /\ q.began = req[s].began
    BY <1>0 DEF Requests
  <2> HIDE DEF q
  <2>9. Fits(s, req[s])'
    <3>1. \A t \in Sessions \ {s} : Locks(t)' = Locks(t)
      BY <2>5 DEF Locks
    <3>2. Held(req'[s]) = {req[s].old, r}
      BY <2>5, <2>8 DEF Held
    <3>3. \A t \in Sessions \ {s} : Held(req'[s]) \cap Locks(t)' = {}
      BY <3>1, <3>2, <2>2, <2>7 DEF Free
    <3>4. Free(s, Held(req[s]))'
      BY <3>3 DEF Free
    <3>5. /\ req[s].date # None => req[s].date <= now
          /\ req[s].began # None /\ req[s].began <= now
      BY <1>0, <2>2, ChainAssumption DEF Fits
    <3>6. status'[r] = "pending" /\ start'[r] = req[s].date /\ status'[req[s].old] = "here"
          /\ r # req[s].old
      BY <1>0, <2>1, <2>2 DEF IndInv, TypeOK
    <3>7. QED
      BY <1>0, <2>1, <2>2, <2>3, <2>5, <2>8, <3>4, <3>5, <3>6 DEF Fits
  <2>10. \A t \in Sessions \ {s} : \A x \in Locks(t) \cap Rows :
             status'[x] = status[x] /\ start'[x] = start[x]
    BY <2>1, <2>7 DEF IndInv, TypeOK
  <2>11. \A x \in Rows : x # r => status'[x] = status[x]
    BY <2>1 DEF IndInv, TypeOK
  <2>12. \A t \in Sessions \ {s} : req[t].again =>
               \/ by'[req[t].old] = req[t].new
               \/ "gone" \in {status'[req[t].old], status'[req[t].new]}
    BY <2>1, <2>2, <2>11 DEF IndInv, InsertHeld, RequestShape
  <2>13. StampAgrees'
    BY <2>1, <2>2, <2>11 DEF IndInv, StampAgrees
  <2>14. \A x \in Rows : /\ until'[x] # None => until'[x] <= now
                         /\ start'[x] # None => start'[x] <= now
                         /\ born'[x] <= now
    <3>1. \A x \in Rows : start'[x] = IF x = r THEN req[s].date ELSE start[x]
      BY <2>1 DEF IndInv, TypeOK
    <3>2. \A x \in Rows : born'[x] = IF x = r THEN req[s].began ELSE born[x]
      BY <2>1 DEF IndInv, TypeOK
    <3>3. req[s].date # None => req[s].date <= now
      BY <1>0 DEF Fits
    <3>4. \A x \in Rows : /\ until[x] # None => until[x] <= now
                          /\ start[x] # None => start[x] <= now
                          /\ born[x] <= now
      BY DEF IndInv, NothingAhead
    <3>5. until' = until
      BY <2>2
    <3>6. QED
      BY <2>2, <3>1, <3>2, <3>3, <3>4, <3>5
  <2>15. QED
    BY <2>2, <2>5, <2>6, <2>9, <2>10, <2>12, <2>13, <2>14, StoreStep
<1>3. QED
  BY <1>1, <1>2

\* The insert rolls back: its row is held by its session alone.
LEMMA UnbornStep ==
    ASSUME IndInv, NEW s \in Sessions, req[s].pc = "inserting", Unborn(req[s].new), End(s),
           UNCHANGED <<by, sup, stamped, until, born, now>>
    PROVE  IndInv'
<1> DEFINE n == req[s].new
<1>1. n \in Rows /\ status[n] = "pending" /\ n \in Locks(s)
  BY DEF IndInv, RequestShape, LocksHeld, Locks
<1>2. status' = [status EXCEPT ![n] = "unborn"] /\ start' = [start EXCEPT ![n] = None]
  BY DEF Unborn
<1>3. req'[s] = Idle /\ \A t \in Sessions \ {s} : req'[t] = req[t]
  BY DEF End, IndInv, TypeOK
<1>4. Idle \in Requests
  BY IdleFits DEF Fits
<1>5. TypeOK'
  BY <1>1, <1>2, <1>4 DEF IndInv, TypeOK, OptTimes, End
<1>6. \A t \in Sessions \ {s} : n \notin Locks(t)
  BY <1>1 DEF IndInv, LocksHeld
<1> HIDE DEF n
<1>7. Fits(s, req[s])'
  BY <1>3, <1>4, ChainAssumption DEF Fits, Idle, Held, Free
<1>8. \A x \in Rows : x # n => status'[x] = status[x] /\ start'[x] = start[x]
  BY <1>2 DEF IndInv, TypeOK
<1>9. \A t \in Sessions \ {s} : \A x \in Locks(t) \cap Rows :
          status'[x] = status[x] /\ start'[x] = start[x]
  BY <1>6, <1>8
<1>10. \A t \in Sessions \ {s} : req[t].again =>
               \/ by'[req[t].old] = req[t].new
               \/ "gone" \in {status'[req[t].old], status'[req[t].new]}
  BY <1>1, <1>8 DEF IndInv, InsertHeld, RequestShape
<1>11. StampAgrees'
  BY <1>1, <1>8 DEF IndInv, StampAgrees
<1>12. \A x \in Rows : /\ until'[x] # None => until'[x] <= now
                       /\ start'[x] # None => start'[x] <= now
                       /\ born'[x] <= now
  BY <1>2 DEF IndInv, NothingAhead, TypeOK
<1>13. QED
  BY <1>3, <1>5, <1>7, <1>9, <1>10, <1>11, <1>12, StoreStep

\* The end a supersession writes is an instant that has come.
LEMMA UntilHasCome ==
    ASSUME IndInv, NEW old \in Rows, NEW new \in Rows, NEW d \in OptTimes, d # None => d <= now
    PROVE  /\ SupersessionUntil(old, d, born[new]) \in OptTimes
           /\ SupersessionUntil(old, d, born[new]) # None => SupersessionUntil(old, d, born[new]) <= now
BY ChainAssumption DEF SupersessionUntil, IndInv, TypeOK, NothingAhead, OptTimes

\* What a retire leaves behind: the end that was there, or the one it writes.
LEMMA RetireEffect ==
    ASSUME IndInv, NEW s \in Sessions, NEW old \in Rows, NEW new \in Rows, NEW end \in OptTimes,
           end # None => end <= now, Retirable(s, old), Retire(old, new, end)
    PROVE  /\ by' \in [Rows -> OptRows] /\ stamped' \in [Rows -> BOOLEAN]
           /\ until' \in [Rows -> OptTimes]
           /\ by'[old] = new /\ stamped'[old]
           /\ until'[old] = IF until[old] = None THEN end ELSE until[old]
           /\ \A x \in Rows \ {old} : by'[x] = by[x] /\ stamped'[x] = stamped[x] /\ until'[x] = until[x]
           /\ \A x \in Rows : until'[x] # None => until'[x] <= now
           /\ \A x \in Rows : by[x] # None => by'[x] = by[x]
<1>1. by[old] = None
  BY DEF Retirable
<1>2. by' = [by EXCEPT ![old] = new] /\ stamped' = [stamped EXCEPT ![old] = TRUE]
  BY DEF Retire
<1>3. until' = [until EXCEPT ![old] = IF until[old] = None THEN end ELSE until[old]]
  BY DEF Retire, IndInv, TypeOK
<1>4. \A x \in Rows : until'[x] # None => until'[x] <= now
  BY <1>3 DEF IndInv, TypeOK, NothingAhead
<1>5. QED
  BY <1>1, <1>2, <1>3, <1>4 DEF IndInv, TypeOK, OptRows

\* The insert commits with its predecessor retired, or rolls back.
LEMMA CommitInsertStep == ASSUME IndInv, NEW s \in Sessions, CommitInsert(s) PROVE IndInv'
<1> DEFINE old == req[s].old
           new == req[s].new
           q == [req[s] EXCEPT !.pc = "link", !.again = TRUE, !.began = None]
<1>0. /\ Fits(s, req[s]) /\ req[s] \in Requests /\ req[s].pc = "inserting"
      /\ old \in Rows /\ new \in Rows /\ new # old
      /\ status[old] = "here" /\ status[new] = "pending"
      /\ req[s].date \in OptTimes /\ (req[s].date # None => req[s].date <= now)
  BY RequestsFit DEF Fits, CommitInsert, Requests
<1>1. CASE Unborn(new) /\ End(s) /\ UNCHANGED <<links, until>>
  BY <1>0, <1>1, UnbornStep DEF CommitInsert, links
<1>2. CASE ~(Unborn(new) /\ End(s) /\ UNCHANGED <<links, until>>)
  <2> DEFINE end == SupersessionUntil(old, req[s].date, born[new])
  <2>1. /\ Retirable(s, old) /\ Retire(old, new, end)
        /\ status' = [status EXCEPT ![new] = "here"]
        /\ sup' = [sup EXCEPT ![new] = old]
        /\ req' = [req EXCEPT ![s].pc = "link", ![s].again = TRUE, ![s].began = None]
        /\ start' = start /\ born' = born /\ now' = now
    BY <1>2 DEF CommitInsert
  <2>2. end \in OptTimes /\ (end # None => end <= now)
    BY <1>0, UntilHasCome
  <2> HIDE DEF end
  <2>3. /\ by' \in [Rows -> OptRows] /\ stamped' \in [Rows -> BOOLEAN]
        /\ until' \in [Rows -> OptTimes]
        /\ by'[old] = new /\ stamped'[old]
        /\ \A x \in Rows \ {old} : by'[x] = by[x] /\ stamped'[x] = stamped[x] /\ until'[x] = until[x]
        /\ \A x \in Rows : until'[x] # None => until'[x] <= now
        /\ \A x \in Rows : by[x] # None => by'[x] = by[x]
    BY <1>0, <2>1, <2>2, RetireEffect
  <2>4. q \in Requests /\ q.pc = "link" /\ q.again /\ q.old = old /\ q.new = new
        /\ q.date = req[s].date /\ q.revive = req[s].revive /\ q.began = None
    BY <1>0 DEF Requests, PCs, OptTimes
  <2>5. req' = [req EXCEPT ![s] = q]
    BY <2>1 DEF IndInv, TypeOK
  <2>6. req'[s] = q /\ \A t \in Sessions \ {s} : req'[t] = req[t]
    BY <2>5 DEF IndInv, TypeOK
  <2>7. TypeOK'
    <3>1. status' \in [Rows -> {"unborn", "pending", "here", "gone"}] /\ sup' \in [Rows -> OptRows]
      BY <1>0, <2>1 DEF IndInv, TypeOK, OptRows
    <3>2. req' \in [Sessions -> Requests]
      BY <2>4, <2>5 DEF IndInv, TypeOK
    <3>3. QED
      BY <2>1, <2>3, <3>1, <3>2 DEF IndInv, TypeOK
  <2>8. \A t \in Sessions \ {s} : new \notin Locks(t)
    BY <1>0 DEF IndInv, LocksHeld, Locks
  <2> HIDE DEF q
  <2>9. Fits(s, req[s])'
    <3>1. Held(req'[s]) = {}
      BY <2>4, <2>6 DEF Held
    <3>2. Free(s, Held(req[s]))'
      BY <3>1 DEF Free
    <3>3. /\ req'[s] \in Requests /\ req'[s].pc = "link" /\ req'[s].again
          /\ req'[s].old = old /\ req'[s].new = new /\ req'[s].began = None
          /\ req'[s].date = req[s].date /\ req'[s].revive = req[s].revive
      BY <2>4, <2>6
    <3>4. by'[old] = new /\ now' = now
      BY <2>1, <2>3
    <3>5. req[s].revive \subseteq Reach[s]
      BY <1>0 DEF Fits
    <3> HIDE DEF old, new
    <3>6. QED
      BY <1>0, <3>2, <3>3, <3>4, <3>5 DEF Fits
  <2>10. \A x \in Rows : x # new => status'[x] = status[x]
    BY <2>1 DEF IndInv, TypeOK
  <2>11. \A t \in Sessions \ {s} : \A x \in Locks(t) \cap Rows :
             status'[x] = status[x] /\ start'[x] = start[x]
    BY <2>1, <2>8, <2>10
  <2>12. \A t \in Sessions \ {s} : req[t].again =>
               \/ by'[req[t].old] = req[t].new
               \/ "gone" \in {status'[req[t].old], status'[req[t].new]}
    BY <1>0, <2>3, <2>10, ChainAssumption DEF IndInv, InsertHeld, RequestShape
  <2>13. StampAgrees'
    <3>1. \A x \in Rows : status'[x] # "gone" => status[x] # "gone"
      BY <1>0, <2>10
    <3>2. QED
      BY <1>0, <2>3, <3>1, ChainAssumption DEF IndInv, StampAgrees
  <2>14. \A x \in Rows : /\ until'[x] # None => until'[x] <= now
                         /\ start'[x] # None => start'[x] <= now
                         /\ born'[x] <= now
    BY <2>1, <2>3 DEF IndInv, NothingAhead
  <2>15. QED
    BY <2>1, <2>6, <2>7, <2>9, <2>11, <2>12, <2>13, <2>14, StoreStep
<1>3. QED
  BY <1>1, <1>2

\* The link of an existing pair.
LEMMA LinkStep == ASSUME IndInv, NEW s \in Sessions, Link(s) PROVE IndInv'
<1> DEFINE old == req[s].old
           new == req[s].new
           end == SupersessionUntil(old, start[new], born[new])
<1>0. /\ req[s].pc = "linked" /\ old \in Rows /\ new \in Rows /\ new # old
      /\ status[old] = "here" /\ End(s) /\ UNCHANGED <<status, start, born, now>>
  BY RequestsFit DEF Fits, Link
<1>1. CASE UNCHANGED <<links, until>>
  BY <1>0, <1>1, EndStep DEF period
<1>2. CASE ~UNCHANGED <<links, until>>
  <2>1. /\ Retirable(s, old) /\ Retire(old, new, end)
        /\ sup' = [sup EXCEPT ![new] = IF @ = None THEN old ELSE @]
    BY <1>2 DEF Link
  <2>2. end \in OptTimes /\ (end # None => end <= now)
    <3>1. start[new] \in OptTimes /\ (start[new] # None => start[new] <= now)
      BY <1>0 DEF IndInv, TypeOK, NothingAhead
    <3>2. QED
      BY <1>0, <3>1, UntilHasCome
  <2> HIDE DEF end
  <2>3. /\ by' \in [Rows -> OptRows] /\ stamped' \in [Rows -> BOOLEAN]
        /\ until' \in [Rows -> OptTimes]
        /\ by'[old] = new /\ stamped'[old]
        /\ \A x \in Rows \ {old} : by'[x] = by[x] /\ stamped'[x] = stamped[x] /\ until'[x] = until[x]
        /\ \A x \in Rows : until'[x] # None => until'[x] <= now
        /\ \A x \in Rows : by[x] # None => by'[x] = by[x]
    BY <1>0, <2>1, <2>2, RetireEffect
  <2>4. req'[s] = Idle /\ \A t \in Sessions \ {s} : req'[t] = req[t]
    BY <1>0 DEF End, IndInv, TypeOK
  <2>5. Idle \in Requests
    BY IdleFits DEF Fits
  <2>6. TypeOK'
    <3>1. sup' \in [Rows -> OptRows]
      BY <1>0, <2>1 DEF IndInv, TypeOK, OptRows
    <3>2. QED
      BY <1>0, <2>3, <2>5, <3>1 DEF IndInv, TypeOK, End
  <2>7. Fits(s, req[s])'
    BY <2>4, <2>5, ChainAssumption DEF Fits, Idle, Held, Free
  <2>8. \A t \in Sessions \ {s} : req[t].again =>
               \/ by'[req[t].old] = req[t].new
               \/ "gone" \in {status'[req[t].old], status'[req[t].new]}
    BY <1>0, <2>3, ChainAssumption DEF IndInv, InsertHeld, RequestShape
  <2>9. StampAgrees'
    BY <1>0, <2>3, ChainAssumption DEF IndInv, StampAgrees
  <2>10. \A x \in Rows : /\ until'[x] # None => until'[x] <= now
                         /\ start'[x] # None => start'[x] <= now
                         /\ born'[x] <= now
    BY <1>0, <2>3 DEF IndInv, NothingAhead
  <2>11. QED
    BY <1>0, <2>4, <2>6, <2>7, <2>8, <2>9, <2>10, StoreStep
<1>3. QED
  BY <1>1, <1>2

\* What a delete does to the rows it leaves: a row keeps its successor, is
\* spliced onto another, or is revived under the plan.
LEMMA DeleteEffect ==
    ASSUME IndInv, NEW s \in Sessions, Delete(s), ~DeleteConflicts(s)
    PROVE  /\ req[s].old \in Rows /\ status[req[s].old] = "here" /\ req[s].old \in Locks(s)
           /\ by' \in [Rows -> OptRows] /\ sup' \in [Rows -> OptRows]
           /\ stamped' \in [Rows -> BOOLEAN] /\ until' \in [Rows -> OptTimes]
           /\ status'[req[s].old] = "gone"
           /\ \A r \in Rows \ {req[s].old} :
                 /\ status'[r] = status[r]
                 /\ by[r] # req[s].old => by'[r] = by[r] /\ stamped'[r] = stamped[r]
                                          /\ until'[r] = until[r]
                 /\ by[r] = req[s].old /\ r \in req[s].revive =>
                       by'[r] = None /\ ~stamped'[r] /\ until'[r] = None /\ r \in Reach[s]
                 /\ by[r] = req[s].old /\ r \notin req[s].revive =>
                       by'[r] # None /\ stamped'[r] = stamped[r] /\ until'[r] = until[r]
<1> DEFINE doomed == req[s].old
           revived == req[s].revive \cap Predecessors(doomed)
<1>1. /\ doomed \in Rows /\ status[doomed] = "here" /\ doomed \in Locks(s)
      /\ req[s].revive \subseteq Reach[s] /\ req[s].splice \in OptRows /\ req[s].pc = "deleting"
  BY RequestsFit DEF Fits, Delete, Locks, Requests
<1>2. DeleteRow(s)
  BY DEF Delete
<1>3. /\ by' = [r \in Rows |-> IF r = doomed \/ r \in revived THEN None
                                ELSE IF by[r] = doomed THEN req[s].splice ELSE by[r]]
      /\ stamped' = [r \in Rows |-> stamped[r] /\ r \notin revived]
      /\ until' = [r \in Rows |-> IF r \in revived THEN None ELSE until[r]]
      /\ status' = [status EXCEPT ![doomed] = "gone"]
  BY <1>2 DEF DeleteRow
<1>4. sup' \in [Rows -> OptRows]
  BY <1>1, <1>2 DEF DeleteRow, IndInv, TypeOK, OptRows
<1>5. \A r \in Rows : r \in revived <=> by[r] = doomed /\ r \in req[s].revive
  BY DEF Predecessors
<1>6. \A r \in Rows : by[r] = doomed /\ r \notin req[s].revive => req[s].splice # None
  BY DEF DeleteConflicts, Predecessors
<1> HIDE DEF revived, doomed
<1>7. by' \in [Rows -> OptRows]
  BY <1>1, <1>3 DEF IndInv, TypeOK, OptRows
<1>8. stamped' \in [Rows -> BOOLEAN] /\ until' \in [Rows -> OptTimes]
  BY <1>3 DEF IndInv, TypeOK, OptTimes
<1>9. \A r \in Rows \ {doomed} : status'[r] = status[r]
  BY <1>3 DEF IndInv, TypeOK
<1>10. status'[doomed] = "gone"
  BY <1>1, <1>3 DEF IndInv, TypeOK
<1>11. ASSUME NEW r \in Rows, r # doomed
       PROVE  /\ by[r] # doomed => by'[r] = by[r] /\ stamped'[r] = stamped[r] /\ until'[r] = until[r]
              /\ by[r] = doomed /\ r \in req[s].revive =>
                    by'[r] = None /\ ~stamped'[r] /\ until'[r] = None /\ r \in Reach[s]
              /\ by[r] = doomed /\ r \notin req[s].revive =>
                    by'[r] # None /\ stamped'[r] = stamped[r] /\ until'[r] = until[r]
  <2>1. r \in revived => by'[r] = None /\ ~stamped'[r] /\ until'[r] = None
    BY <1>3, <1>11
  <2>2. r \notin revived => /\ stamped'[r] = stamped[r] /\ until'[r] = until[r]
                            /\ by'[r] = IF by[r] = doomed THEN req[s].splice ELSE by[r]
    BY <1>3, <1>11 DEF IndInv, TypeOK
  <2>3. QED
    BY <1>1, <1>5, <1>6, <2>1, <2>2
<1>12. QED
  BY <1>1, <1>4, <1>7, <1>8, <1>9, <1>10, <1>11 DEF doomed

\* A forget's transaction.
LEMMA DeleteStep == ASSUME IndInv, NEW s \in Sessions, Delete(s) PROVE IndInv'
<1>1. CASE DeleteConflicts(s)
  BY <1>1, EndStep DEF Delete, period
<1>2. CASE ~DeleteConflicts(s)
  <2> DEFINE doomed == req[s].old
  <2>1. UNCHANGED <<start, born, now>> /\ End(s)
    BY DEF Delete
  <2>2. /\ doomed \in Rows /\ status[doomed] = "here" /\ doomed \in Locks(s)
        /\ by' \in [Rows -> OptRows] /\ sup' \in [Rows -> OptRows]
        /\ stamped' \in [Rows -> BOOLEAN] /\ until' \in [Rows -> OptTimes]
        /\ status'[doomed] = "gone"
        /\ \A r \in Rows \ {doomed} :
              /\ status'[r] = status[r]
              /\ by[r] # doomed => by'[r] = by[r] /\ stamped'[r] = stamped[r]
                                       /\ until'[r] = until[r]
              /\ by[r] = doomed /\ r \in req[s].revive =>
                    by'[r] = None /\ ~stamped'[r] /\ until'[r] = None
              /\ by[r] = doomed /\ r \notin req[s].revive =>
                    by'[r] # None /\ stamped'[r] = stamped[r] /\ until'[r] = until[r]
    BY <1>2, DeleteEffect
  <2>3. req'[s] = Idle /\ \A t \in Sessions \ {s} : req'[t] = req[t]
    BY <2>1 DEF End, IndInv, TypeOK
  <2>4. Idle \in Requests
    BY IdleFits DEF Fits
  <2>5. TypeOK'
    <3>1. status' \in [Rows -> {"unborn", "pending", "here", "gone"}]
      BY <1>2 DEF Delete, DeleteRow, IndInv, TypeOK
    <3>2. QED
      BY <2>1, <2>2, <2>4, <3>1 DEF IndInv, TypeOK, End
  <2>6. Fits(s, req[s])'
    BY <2>3, <2>4, ChainAssumption DEF Fits, Idle, Held, Free
  <2>7. \A t \in Sessions \ {s} : \A x \in Locks(t) \cap Rows :
            status'[x] = status[x] /\ start'[x] = start[x]
    BY <2>1, <2>2 DEF IndInv, LocksHeld
  <2>8. \A t \in Sessions \ {s} : req[t].again =>
               \/ by'[req[t].old] = req[t].new
               \/ "gone" \in {status'[req[t].old], status'[req[t].new]}
    <3> SUFFICES ASSUME NEW t \in Sessions \ {s}, req[t].again
                 PROVE  \/ by'[req[t].old] = req[t].new
                        \/ "gone" \in {status'[req[t].old], status'[req[t].new]}
      OBVIOUS
    <3>1. /\ req[t].old \in Rows /\ req[t].new \in Rows
          /\ by[req[t].old] = req[t].new \/ "gone" \in {status[req[t].old], status[req[t].new]}
      BY DEF IndInv, InsertHeld, RequestShape
    <3>2. QED
      BY <2>2, <3>1
  <2>9. StampAgrees'
    BY <2>2, ChainAssumption DEF IndInv, StampAgrees
  <2>10. \A x \in Rows : /\ until'[x] # None => until'[x] <= now
                         /\ start'[x] # None => start'[x] <= now
                         /\ born'[x] <= now
    <3>1. \A x \in Rows : until'[x] # None => until'[x] = until[x]
      BY <1>2 DEF Delete, DeleteRow
    <3>2. QED
      BY <2>1, <3>1 DEF IndInv, NothingAhead
  <2>11. QED
    BY <2>1, <2>3, <2>5, <2>6, <2>7, <2>8, <2>9, <2>10, StoreStep
<1>3. QED
  BY <1>1, <1>2

\* A transaction that is rolled back.
LEMMA AbortStep ==
    ASSUME IndInv, NEW s \in Sessions, Abort(s) \/ BreakDeadlock(s) PROVE IndInv'
<1>1. CASE Abort(s) /\ req[s].pc = "inserting"
  BY <1>1, UnbornStep DEF Abort, links
<1>2. CASE Abort(s) /\ req[s].pc # "inserting"
  BY <1>2, EndStep DEF Abort, period
<1>3. CASE BreakDeadlock(s)
  BY <1>3, EndStep DEF BreakDeadlock
<1>4. QED
  BY <1>1, <1>2, <1>3

\* An empty run of requests over a store of unlinked facts.
LEMMA InitInv == Init => IndInv
<1> SUFFICES ASSUME Init PROVE IndInv
  OBVIOUS
<1>1. Idle \in Requests
  BY DEF Idle, Requests, PCs, OptRows, OptTimes
<1>2. TypeOK
  BY <1>1 DEF Init, TypeOK, OptRows, OptTimes
<1>3. \A s \in Sessions : req[s].pc = "idle" /\ ~req[s].again /\ req[s].date = None
                          /\ req[s].began = None /\ req[s].revive = {}
  BY DEF Init, Idle
<1>4. QED
  BY <1>2, <1>3
  DEF Init, IndInv, RequestShape, NothingAhead, StampAgrees, LocksHeld, DatesHeld, InsertHeld, Locks

\* A step that changes nothing.
LEMMA StutterStep == ASSUME IndInv, UNCHANGED vars PROVE IndInv'
BY DEF IndInv, TypeOK, RequestShape, NothingAhead, StampAgrees, LocksHeld, DatesHeld, InsertHeld,
       Locks, Inverted, vars

\* Every step keeps the invariant.
LEMMA NextInv == IndInv /\ [Next]_vars => IndInv'
<1> SUFFICES ASSUME IndInv, [Next]_vars PROVE IndInv'
  OBVIOUS
<1>1. CASE UNCHANGED vars
  BY <1>1, StutterStep
<1>2. CASE Tick
  <2>1. CASE Rows = {}
    BY <1>2, <2>1 DEF IndInv, TypeOK, Tick, links, period, RequestShape, NothingAhead,
                      StampAgrees, LocksHeld, DatesHeld, InsertHeld, Locks, Inverted, Requests, OptTimes
  <2>2. CASE Rows # {}
    BY <1>2, <2>2, PeriodStep
  <2>3. QED
    BY <2>1, <2>2
<1>3. ASSUME NEW r \in Rows, NEW d \in Dates \cup {None},
             \/ StoreFact(r, d) \/ FillDate(r, d)
             \/ (\E at \in 1 .. now : Expire(r, at)) \/ Unexpire(r)
      PROVE  IndInv'
  BY <1>3, PeriodStep
<1>4. ASSUME NEW s \in Sessions, Step(s) \/ Abort(s) PROVE IndInv'
  BY <1>4, ReadStep, OpenStep, LockStep, BeginInsertStep, CommitInsertStep, LinkStep, DeleteStep, AbortStep
  DEF Step
<1>5. QED
  BY <1>1, <1>2, <1>3, <1>4, BeginStep DEF Next

\* The invariant holds in every state of the specification.
THEOREM Inductive == Spec => []IndInv
BY InitInv, NextInv, PTL DEF Spec

-----------------------------------------------------------------------------
(* What the invariant buys.                                                *)

\* The store stays well typed through every interleaving of the requests.
THEOREM TypeCorrect == Spec => []TypeOK
<1>1. IndInv => TypeOK
  BY DEF IndInv
<1>2. QED
  BY <1>1, Inductive, PTL

\* The supersede that follows a write's own insert never gets as far as a
\* second link, whatever other requests did in between.
THEOREM ConfirmWritesNothing == Spec => []ConfirmIsIdle
<1>1. IndInv => ConfirmIsIdle
  BY DEF IndInv, InsertHeld, ConfirmIsIdle
<1>2. QED
  BY <1>1, Inductive, PTL

\* The steps that link no rows.
LEMMA LinksKept ==
    ASSUME [Next]_vars, \A s \in Sessions : ~CommitInsert(s) /\ ~Link(s) /\ ~Delete(s)
    PROVE  UNCHANGED links
<1>1. CASE Tick \/ UNCHANGED vars
  BY <1>1 DEF Tick, vars, links
<1>2. ASSUME NEW r \in Rows, NEW d \in Dates \cup {None},
             \/ StoreFact(r, d) \/ FillDate(r, d)
             \/ (\E at \in 1 .. now : Expire(r, at)) \/ Unexpire(r)
      PROVE  UNCHANGED links
  BY <1>2 DEF StoreFact, FillDate, Expire, Unexpire
<1>3. ASSUME NEW s \in Sessions, NEW r \in Rows,
             \/ \E d \in Dates \cup {None} : ValidateWrite(s, r, d)
             \/ ValidateReview(s, r) \/ PlanOwn(s, r)
             \/ \E n \in Rows : ImportLink(s, r, n)
      PROVE  UNCHANGED links
  BY <1>3 DEF ValidateWrite, ValidateReview, PlanOwn, ImportLink
<1>4. ASSUME NEW s \in Sessions, Step(s) \/ Abort(s)
      PROVE  UNCHANGED links
  BY <1>4 DEF Step, FindExact, ReadSuccessor, Begin, BeginInsert, LockPair, Walk, PlanLinks, LockDoomed,
     BreakDeadlock, Abort
<1>5. QED
  BY <1>1, <1>2, <1>3, <1>4 DEF Next

\* A commit that links: the row retired had no end, or one that came after the
\* transaction began and stays; the dates are those of the rows, and an end
\* that is written is the one supersession_until gives.
LEMMA Retires ==
    ASSUME IndInv, NEW s \in Sessions, CommitInsert(s) \/ Link(s), ~UNCHANGED links
    PROVE  LET old == req[s].old
               new == req[s].new
           IN /\ old \in Rows /\ new \in Rows
              /\ by[old] = None /\ stamped'[old]
              /\ until[old] # None => until'[old] = until[old] /\ BegunBefore(old, until[old])
              /\ start' = start /\ ~Inverted(old, start[new])
              /\ by'[old] = new
              /\ until[old] = None => until'[old] = SupersessionUntil(old, start[new], born[new])
              /\ \A x \in Rows \ {old} : by'[x] = by[x] /\ until'[x] = until[x]
<1> DEFINE old == req[s].old
           new == req[s].new
           end == SupersessionUntil(old, start[new], born[new])
<1>1. /\ old \in Rows /\ new \in Rows /\ status[old] = "here"
      /\ req[s].pc \in {"inserting", "linked"}
      /\ req[s].pc = "inserting" => req[s].date = start[new]
      /\ req[s].pc = "linked" => ~Inverted(old, start[new])
  BY DEF CommitInsert, Link, IndInv, RequestShape, LocksHeld, DatesHeld
<1>2. Retirable(s, old) /\ Retire(old, new, end) /\ start' = start /\ ~Inverted(old, start[new])
  <2>1. CASE CommitInsert(s)
    <3>1. ~(Unborn(new) /\ End(s) /\ UNCHANGED <<links, until>>)
      OBVIOUS
    <3>2. QED
      BY <1>1, <2>1, <3>1 DEF CommitInsert
  <2>2. CASE Link(s)
    BY <1>1, <2>2 DEF Link
  <2>3. QED
    BY <2>1, <2>2
<1>3. end \in OptTimes /\ (end # None => end <= now)
  <2>1. start[new] \in OptTimes /\ (start[new] # None => start[new] <= now)
    BY <1>1 DEF IndInv, TypeOK, NothingAhead
  <2>2. QED
    BY <1>1, <2>1, UntilHasCome
<1>4. by[old] = None /\ (until[old] # None => BegunBefore(old, until[old]))
  BY <1>1, <1>2 DEF Retirable, BegunBefore, IndInv, TypeOK, StampAgrees
<1> HIDE DEF end
<1>5. /\ by'[old] = new /\ stamped'[old]
      /\ until'[old] = IF until[old] = None THEN end ELSE until[old]
      /\ \A x \in Rows \ {old} : by'[x] = by[x] /\ until'[x] = until[x]
  BY <1>1, <1>2, <1>3, RetireEffect
<1>6. QED
  BY <1>1, <1>2, <1>4, <1>5 DEF end

\* A row gains a successor from a commit that links it, and from nothing else.
LEMMA NewSuccessor ==
    ASSUME IndInv, [Next]_vars, NEW r \in Rows, by[r] = None, by'[r] # None
    PROVE  \E new \in Rows :
              /\ start' = start /\ ~Inverted(r, start[new])
              /\ by'[r] = new
              /\ until[r] = None => until'[r] = SupersessionUntil(r, start[new], born[new])
              /\ until[r] # None => until'[r] = until[r] /\ BegunBefore(r, until[r])
<1>1. ~UNCHANGED links
  BY DEF links
<1>2. PICK s \in Sessions : CommitInsert(s) \/ Link(s) \/ Delete(s)
  BY <1>1, LinksKept
<1>3. ~Delete(s)
  <2>1. ASSUME Delete(s), ~DeleteConflicts(s) PROVE FALSE
    <3>1. req[s].old \in Rows
      BY <2>1, DeleteEffect
    <3>2. by'[r] = None
      BY <2>1, <3>1, ChainAssumption DEF Delete, DeleteRow, Predecessors
    <3>3. QED
      BY <3>2
  <2>2. ASSUME Delete(s), DeleteConflicts(s) PROVE FALSE
    BY <1>1, <2>2 DEF Delete
  <2>3. QED
    BY <2>1, <2>2
<1>4. QED
  BY <1>1, <1>2, <1>3, Retires

\* However the dates and periods moved while the request waited, a retire
\* never links a fact to one that was true before it.
THEOREM LinksAreOrdered == Spec => LinkIsOrdered
<1>1. ASSUME IndInv, [Next]_vars, NEW r \in Rows, by[r] = None, by'[r] # None
      PROVE  ~(start'[r] # None /\ start'[by'[r]] # None /\ start'[by'[r]] < start'[r])
  <2>1. PICK new \in Rows : start' = start /\ ~Inverted(r, start[new]) /\ by'[r] = new
    BY <1>1, NewSuccessor
  <2>2. QED
    BY <2>1 DEF Inverted
<1>2. IndInv /\ [Next]_vars => [\A r \in Rows : by[r] = None /\ by'[r] # None =>
          ~(start'[r] # None /\ start'[by'[r]] # None /\ start'[by'[r]] < start'[r])]_vars
  BY <1>1
<1>3. QED
  BY <1>2, Inductive, PTL DEF Spec, LinkIsOrdered

\* The end a supersession writes never empties or inverts a period, and the
\* only end it finds is that of an expiry that came after its transaction
\* began, which it keeps.
THEOREM NoEmptyPeriods == Spec => PeriodsAreReal
<1>1. ASSUME IndInv, [Next]_vars, NEW r \in Rows, by[r] = None, by'[r] # None
      PROVE  IF until[r] = None
             THEN start'[r] = None \/ until'[r] = None \/ start'[r] < until'[r]
             ELSE until'[r] = until[r] /\ BegunBefore(r, until[r])
  <2>1. PICK new \in Rows :
            /\ start' = start
            /\ until[r] = None => until'[r] = SupersessionUntil(r, start[new], born[new])
            /\ until[r] # None => until'[r] = until[r] /\ BegunBefore(r, until[r])
    BY <1>1, NewSuccessor
  <2>2. /\ start[r] \in OptTimes /\ start[new] \in OptTimes /\ born[new] \in Nat
    BY <1>1, <2>1 DEF IndInv, TypeOK
  <2>3. CASE until[r] = None
    BY <2>1, <2>2, <2>3, ChainAssumption DEF SupersessionUntil, OptTimes
  <2>4. CASE until[r] # None
    BY <2>1, <2>4
  <2>5. QED
    BY <2>3, <2>4
<1>2. IndInv /\ [Next]_vars => [\A r \in Rows : by[r] = None /\ by'[r] # None =>
          IF until[r] = None
          THEN start'[r] = None \/ until'[r] = None \/ start'[r] < until'[r]
          ELSE until'[r] = until[r] /\ BegunBefore(r, until[r])]_vars
  BY <1>1
<1>3. QED
  BY <1>2, Inductive, PTL DEF Spec, PeriodsAreReal

\* A row comes back to life only for a session whose grant reaches it.
THEOREM RevivesAreReached == Spec => ForeignStaysRetired
<1>1. ASSUME IndInv, [Next]_vars, NEW r \in Rows, by[r] # None, by'[r] = None, status'[r] = "here"
      PROVE  \E s \in Sessions : req[s].pc = "deleting" /\ req'[s] = Idle /\ r \in Reach[s]
  <2>1. ~UNCHANGED links
    BY <1>1 DEF links
  <2>2. PICK s \in Sessions : CommitInsert(s) \/ Link(s) \/ Delete(s)
    BY <1>1, <2>1, LinksKept
  <2>3. ~(CommitInsert(s) \/ Link(s))
    BY <1>1, <2>1, Retires, ChainAssumption
  <2>4. Delete(s) /\ ~DeleteConflicts(s)
    BY <2>1, <2>2, <2>3 DEF Delete
  <2>5. r \in Reach[s]
    BY <1>1, <2>4, DeleteEffect
  <2>6. req[s].pc = "deleting" /\ req'[s] = Idle
    BY <1>1, <2>4 DEF Delete, End, IndInv, TypeOK
  <2>7. QED
    BY <2>5, <2>6
<1>2. IndInv /\ [Next]_vars =>
         [\A r \in Rows : by[r] # None /\ by'[r] = None /\ status'[r] = "here" =>
             \E s \in Sessions : req[s].pc = "deleting" /\ req'[s] = Idle /\ r \in Reach[s]]_vars
  BY <1>1
<1>3. QED
  BY <1>2, Inductive, PTL DEF Spec, ForeignStaysRetired

\* No forget leaves a row open to successors and closed in time.
THEOREM NoEndIsLeftOver == Spec => EndsAreExpiries
<1>1. ASSUME IndInv, [Next]_vars, NEW r \in Rows, by'[r] = None, until'[r] # None,
             status'[r] = "here", by[r] # None \/ until[r] = None
      PROVE  UNCHANGED links
  <2> SUFFICES ASSUME ~UNCHANGED links PROVE FALSE
    OBVIOUS
  <2>1. PICK s \in Sessions : CommitInsert(s) \/ Link(s) \/ Delete(s)
    BY <1>1, LinksKept
  <2>2. ~(CommitInsert(s) \/ Link(s))
    BY <1>1, Retires, ChainAssumption
  <2>3. Delete(s) /\ ~DeleteConflicts(s)
    BY <2>1, <2>2 DEF Delete
  <2>4. QED
    BY <1>1, <2>3, DeleteEffect
<1>2. IndInv /\ [Next]_vars =>
         [\A r \in Rows :
             /\ by'[r] = None /\ until'[r] # None /\ status'[r] = "here"
             /\ by[r] # None \/ until[r] = None
             => UNCHANGED links]_vars
  BY <1>1
<1>3. QED
  BY <1>2, Inductive, PTL DEF Spec, EndsAreExpiries

-----------------------------------------------------------------------------
(* Chains.                                                                 *)

\* A set of numbers has a least one.
LEMMA LeastNat ==
    ASSUME NEW T \in SUBSET Nat, T # {}
    PROVE  \E x \in T : \A y \in T : x <= y
<1>1. PICK x \in T : \A y \in T : ~(<<y, x>> \in OpToRel(<, Nat))
  BY NatLessThanWellFounded, WFMin
<1>2. \A y \in T : ~(y < x)
  BY <1>1 DEF OpToRel
<1>3. QED
  BY <1>2

\* The equation of the walk.
WalkEq(f, r, n) ==
    f = [k \in 1 .. n |-> IF k = 1 THEN r ELSE IF f[k - 1] = None THEN None ELSE by[f[k - 1]]]

\* The equation has a solution of every length.
LEMMA WalkExists == ASSUME NEW r, NEW n \in Nat PROVE \E f : WalkEq(f, r, n)
<1> DEFINE Bad == {m \in Nat : ~\E f : WalkEq(f, r, m)}
<1>1. SUFFICES ASSUME Bad # {} PROVE FALSE
  OBVIOUS
<1>2. PICK m \in Bad : \A y \in Bad : m <= y
  BY <1>1, LeastNat
<1>3. CASE m = 0
  <2> DEFINE f == [k \in 1 .. 0 |-> r]
  <2>1. WalkEq(f, r, 0)
    BY DEF WalkEq
  <2>2. QED
    BY <1>3, <2>1
<1>4. CASE m # 0
  <2>1. m - 1 \in Nat /\ m - 1 \notin Bad
    BY <1>2, <1>4
  <2>2. PICK f : WalkEq(f, r, m - 1)
    BY <2>1
  <2> DEFINE e == IF m = 1 THEN r ELSE IF f[m - 1] = None THEN None ELSE by[f[m - 1]]
             g == [k \in 1 .. m |-> IF k = m THEN e ELSE f[k]]
  <2>3. ASSUME NEW k \in 1 .. m
        PROVE  g[k] = IF k = 1 THEN r ELSE IF g[k - 1] = None THEN None ELSE by[g[k - 1]]
    <3>1. k # 1 => k - 1 \in 1 .. m /\ k - 1 # m
      BY <2>3
    <3>2. k # 1 => g[k - 1] = f[k - 1]
      BY <3>1
    <3>3. CASE k = m
      BY <3>2, <3>3
    <3>4. CASE k # m
      <4>1. k \in 1 .. (m - 1)
        BY <3>4
      <4>2. f[k] = IF k = 1 THEN r ELSE IF f[k - 1] = None THEN None ELSE by[f[k - 1]]
        BY <2>2, <4>1 DEF WalkEq
      <4>3. g[k] = f[k]
        BY <3>4
      <4> HIDE DEF g
      <4>4. QED
        BY <3>2, <4>2, <4>3
    <3>5. QED
      BY <3>3, <3>4
  <2>4. WalkEq(g, r, m)
    BY <2>3 DEF WalkEq
  <2>5. QED
    BY <2>4
<1>5. QED
  BY <1>3, <1>4

\* What the walk visits.
LEMMA WalkIs ==
    ASSUME IndInv, NEW r \in Rows
    PROVE  \E id \in [1 .. MaxDepth -> OptRows] :
              /\ id[1] = r
              /\ \A k \in 2 .. MaxDepth : id[k] = IF id[k - 1] = None THEN None ELSE by[id[k - 1]]
              /\ ChainIds(r) = {id[k] : k \in 1 .. MaxDepth} \ {None}
<1> DEFINE id == CHOOSE f : WalkEq(f, r, MaxDepth)
<1>1. WalkEq(id, r, MaxDepth)
  BY WalkExists, ChainAssumption
<1>2. ChainIds(r) = {id[k] : k \in 1 .. MaxDepth} \ {None}
  BY DEF ChainIds, WalkEq
<1> HIDE DEF id
<1>3. \A k \in 1 .. MaxDepth :
          id[k] = IF k = 1 THEN r ELSE IF id[k - 1] = None THEN None ELSE by[id[k - 1]]
  BY <1>1 DEF WalkEq
<1>4. \A k \in 1 .. MaxDepth : id[k] \in OptRows
  <2> DEFINE Bad == {k \in Nat : k \in 1 .. MaxDepth /\ id[k] \notin OptRows}
  <2>1. SUFFICES ASSUME Bad # {} PROVE FALSE
    OBVIOUS
  <2>2. PICK k \in Bad : \A y \in Bad : k <= y
    BY <2>1, LeastNat
  <2>3. k # 1
    BY <1>3, <2>2 DEF OptRows
  <2>4. k - 1 \in 1 .. MaxDepth /\ k - 1 \in Nat /\ ~(k <= k - 1)
    BY <2>2, <2>3, ChainAssumption
  <2>5. id[k - 1] \in OptRows
    BY <2>2, <2>4
  <2>6. QED
    BY <1>3, <2>2, <2>3, <2>5 DEF OptRows, IndInv, TypeOK
<1>5. id \in [1 .. MaxDepth -> OptRows]
  BY <1>1, <1>4 DEF WalkEq
<1>6. id[1] = r
  BY <1>3, ChainAssumption
<1>7. \A k \in 2 .. MaxDepth : id[k] = IF id[k - 1] = None THEN None ELSE by[id[k - 1]]
  <2>1. \A k \in 2 .. MaxDepth : k \in 1 .. MaxDepth /\ k # 1
    BY ChainAssumption
  <2>2. QED
    BY <1>3, <2>1
<1>8. QED
  BY <1>2, <1>5, <1>6, <1>7

\* Without a loop, a walk as deep as the store visits the whole chain.
LEMMA WalkSeesAll ==
    ASSUME IsFiniteSet(Rows), Cardinality(Rows) <= MaxDepth, IndInv, ChainsEnd, NEW r \in Rows
    PROVE  /\ r \in ChainIds(r)
           /\ ChainIds(r) \subseteq Rows
           /\ \A x \in ChainIds(r) : by[x] \in ChainIds(r) \cup {None}
<1>1. PICK id \in [1 .. MaxDepth -> OptRows] :
          /\ id[1] = r
          /\ \A k \in 2 .. MaxDepth : id[k] = IF id[k - 1] = None THEN None ELSE by[id[k - 1]]
          /\ ChainIds(r) = {id[k] : k \in 1 .. MaxDepth} \ {None}
  BY WalkIs
<1>2. MaxDepth \in Nat /\ MaxDepth # 0 /\ None \notin Rows
  BY ChainAssumption
<1>3. r \in ChainIds(r) /\ ChainIds(r) \subseteq Rows
  BY <1>1, <1>2 DEF OptRows
<1>4. by \in [Rows -> OptRows]
  BY DEF IndInv, TypeOK
<1>5. ASSUME NEW k \in 1 .. MaxDepth, k # MaxDepth, id[k] # None
      PROVE  by[id[k]] \in ChainIds(r) \cup {None}
  <2>1. k + 1 \in 2 .. MaxDepth /\ k + 1 \in 1 .. MaxDepth /\ (k + 1) - 1 = k
    BY <1>2, <1>5
  <2>2. id[k + 1] = by[id[k]]
    BY <1>1, <1>5, <2>1
  <2>3. QED
    BY <1>1, <2>1, <2>2
<1>6. ASSUME id[MaxDepth] # None PROVE by[id[MaxDepth]] \in ChainIds(r) \cup {None}
  <2>1. \A k \in 1 .. MaxDepth : id[k] # None
    <3> DEFINE Bad == {d \in Nat : d < MaxDepth /\ id[MaxDepth - d] = None}
    <3>1. ASSUME Bad # {} PROVE FALSE
      <4>1. PICK d \in Bad : \A y \in Bad : d <= y
        BY <3>1, LeastNat
      <4>2. d # 0 /\ d < MaxDepth /\ id[MaxDepth - d] = None
        BY <1>2, <1>6, <4>1
      <4>3. /\ MaxDepth - (d - 1) \in 2 .. MaxDepth
            /\ (MaxDepth - (d - 1)) - 1 = MaxDepth - d
            /\ d - 1 \in Nat /\ d - 1 < MaxDepth /\ ~(d <= d - 1)
        BY <1>2, <4>1, <4>2
      <4>4. id[MaxDepth - (d - 1)] = None
        BY <1>1, <4>2, <4>3
      <4>5. QED
        BY <4>1, <4>3, <4>4
    <3>2. ASSUME NEW k \in 1 .. MaxDepth PROVE id[k] # None
      <4>1. MaxDepth - k \in Nat /\ MaxDepth - k < MaxDepth /\ MaxDepth - (MaxDepth - k) = k
        BY <1>2, <3>2
      <4>2. QED
        BY <3>1, <4>1
    <3>3. QED
      BY <3>2
  <2>2. ASSUME NEW i \in 1 .. MaxDepth, NEW j \in 1 .. MaxDepth, i < j, id[i] = id[j]
        PROVE  FALSE
    <3> DEFINE loop == {id[k] : k \in i .. (j - 1)}
    <3>1. \A k \in i .. (j - 1) : /\ k \in 1 .. MaxDepth /\ k + 1 \in 2 .. MaxDepth
                                  /\ (k + 1) - 1 = k
                                  /\ k + 1 \in i .. (j - 1) \/ k + 1 = j
      BY <1>2, <2>2
    <3>2. \A k \in i .. (j - 1) : by[id[k]] = id[k + 1]
      BY <1>1, <2>1, <3>1
    <3>3. i \in i .. (j - 1)
      BY <2>2
    <3>4. \A k \in i .. (j - 1) : by[id[k]] \in loop
      BY <2>2, <3>1, <3>2, <3>3
    <3>5. loop \in SUBSET Rows /\ loop # {}
      BY <1>1, <2>1, <3>1, <3>3 DEF OptRows
    <3>6. QED
      BY <3>4, <3>5 DEF ChainsEnd
  <2>3. \A i, j \in 1 .. MaxDepth : id[i] = id[j] => i = j
    BY <1>2, <2>2
  <2>4. id \in Injection(1 .. MaxDepth, Rows)
    <3>1. id \in [1 .. MaxDepth -> Rows]
      BY <1>1, <2>1 DEF OptRows
    <3>2. QED
      BY <2>3, <3>1 DEF Injection, IsInjective
  <2>5. Cardinality(1 .. MaxDepth) = MaxDepth
    BY <1>2, FS_Interval
  <2>6. Cardinality(Rows) = MaxDepth
    BY <1>2, <2>4, <2>5, FS_Injection, FS_CardinalityType
  <2>7. id \in Surjection(1 .. MaxDepth, Rows)
    BY <2>4, <2>5, <2>6, FS_Injection
  <2>8. ChainIds(r) = Rows
    BY <1>1, <1>3, <2>1, <2>7 DEF Surjection
  <2>9. QED
    BY <1>1, <1>2, <1>4, <2>8, <1>6 DEF OptRows
<1>7. QED
  BY <1>1, <1>3, <1>5, <1>6

-----------------------------------------------------------------------------
(* Loops.                                                                  *)

\* Only its own session moves a request.
LEMMA OwnMove ==
    ASSUME IndInv, [Next]_vars, NEW s \in Sessions, req'[s] # req[s]
    PROVE  \/ \E r \in Rows : \/ \E d \in Dates \cup {None} : ValidateWrite(s, r, d)
                              \/ ValidateReview(s, r) \/ PlanOwn(s, r)
                              \/ \E n \in Rows : ImportLink(s, r, n)
           \/ Step(s) \/ Abort(s)
<1>1. req # req'
  OBVIOUS
<1>2. ~Tick /\ ~UNCHANGED vars
  BY <1>1 DEF Tick, vars
<1>3. \A r \in Rows : \A d \in Dates \cup {None} :
          ~StoreFact(r, d) /\ ~FillDate(r, d) /\ ~(\E at \in 1 .. now : Expire(r, at)) /\ ~Unexpire(r)
  BY <1>1 DEF StoreFact, FillDate, Expire, Unexpire
<1>4. PICK t \in Sessions :
          \/ \E r \in Rows : \/ \E d \in Dates \cup {None} : ValidateWrite(t, r, d)
                             \/ ValidateReview(t, r) \/ PlanOwn(t, r)
                             \/ \E n \in Rows : ImportLink(t, r, n)
          \/ Step(t) \/ Abort(t)
  BY <1>2, <1>3 DEF Next
<1>5. \A u \in Sessions \ {t} : req'[u] = req[u]
  <2>1. req \in [Sessions -> Requests]
    BY DEF IndInv, TypeOK
  <2>2. ASSUME NEW r \in Rows, \/ \E d \in Dates \cup {None} : ValidateWrite(t, r, d)
                               \/ ValidateReview(t, r) \/ PlanOwn(t, r)
                               \/ \E n \in Rows : ImportLink(t, r, n)
        PROVE  \A u \in Sessions \ {t} : req'[u] = req[u]
    BY <2>1, <2>2 DEF ValidateWrite, ValidateReview, PlanOwn, ImportLink
  <2>3. CASE Step(t) \/ Abort(t)
    BY <2>1, <2>3 DEF Step, Abort, FindExact, ReadSuccessor, Begin, BeginInsert, CommitInsert, LockPair,
       Walk, Link, PlanLinks, LockDoomed, Delete, BreakDeadlock, End, Goto
  <2>4. QED
    BY <1>4, <2>2, <2>3
<1>6. s = t
  BY <1>5
<1>7. QED
  BY <1>4, <1>6

\* A request has walked its chain when it is about to link.
LEMMA LinkedFrom ==
    ASSUME IndInv, [Next]_vars, NEW s \in Sessions, req'[s].pc = "linked"
    PROVE  /\ req'[s].old = req[s].old /\ req'[s].new = req[s].new
           /\ \/ req[s] = req'[s]
              \/ /\ Walk(s) /\ ~ClosesLoop(req[s].old, req[s].new)
                 /\ req[s].new \in Rows /\ UNCHANGED links
<1>1. CASE req'[s] = req[s]
  BY <1>1
<1>2. CASE req'[s] # req[s]
  <2>0. req[s] \in Requests /\ req \in [Sessions -> Requests]
    BY DEF IndInv, TypeOK
  <2>1. ASSUME NEW r \in Rows, \/ \E d \in Dates \cup {None} : ValidateWrite(s, r, d)
                               \/ ValidateReview(s, r) \/ PlanOwn(s, r)
                               \/ \E n \in Rows : ImportLink(s, r, n)
        PROVE  FALSE
    BY <2>0, <2>1 DEF ValidateWrite, ValidateReview, PlanOwn, ImportLink, Idle
  <2>2. ~Abort(s)
    BY <2>0 DEF Abort, End, Idle
  <2>3. Step(s)
    BY <1>2, <2>1, <2>2, OwnMove
  <2>4. ~(FindExact(s) \/ ReadSuccessor(s) \/ Begin(s) \/ BeginInsert(s) \/ CommitInsert(s) \/ LockPair(s))
    BY <2>0 DEF FindExact, ReadSuccessor, Begin, BeginInsert, CommitInsert, LockPair, End, Goto, Idle, Requests
  <2>5. ~(Link(s) \/ PlanLinks(s) \/ LockDoomed(s) \/ Delete(s) \/ BreakDeadlock(s))
    BY <2>0 DEF Link, PlanLinks, LockDoomed, Delete, BreakDeadlock, End, Goto, Idle, Requests
  <2>6. Walk(s)
    BY <2>3, <2>4, <2>5 DEF Step
  <2>7. ~End(s)
    BY <2>0 DEF End, Idle
  <2>8. ~ClosesLoop(req[s].old, req[s].new) /\ Goto(s, "linked") /\ UNCHANGED links
    BY <2>6, <2>7 DEF Walk
  <2>9. req[s].new \in Rows
    BY <2>6 DEF Walk, IndInv, RequestShape
  <2>10. req'[s].old = req[s].old /\ req'[s].new = req[s].new
    BY <2>0, <2>8 DEF Goto, Requests
  <2>11. QED
    BY <2>6, <2>8, <2>9, <2>10
<1>3. QED
  BY <1>1, <1>2

\* A plan keeps the successor it read first.
LEMMA PlanFrom ==
    ASSUME IndInv, [Next]_vars, NEW s \in Sessions, req'[s].pc \in {"plan", "delete", "deleting"}
    PROVE  /\ req'[s].old \in Rows /\ req'[s].splice \in OptRows
           /\ \/ /\ req[s].pc \in {"plan", "delete", "deleting"}
                 /\ req'[s].old = req[s].old /\ req'[s].splice = req[s].splice
              \/ UNCHANGED links /\ req'[s].splice = by[req'[s].old]
<1>0. req[s] \in Requests /\ req \in [Sessions -> Requests] /\ IndInv'
  BY NextInv DEF IndInv, TypeOK
<1>1. req'[s].old \in Rows /\ req'[s].splice \in OptRows
  BY <1>0 DEF IndInv, TypeOK, RequestShape, Requests
<1>2. CASE req'[s] = req[s]
  BY <1>1, <1>2
<1>3. CASE req'[s] # req[s]
  <2>1. ASSUME NEW r \in Rows, \/ \E d \in Dates \cup {None} : ValidateWrite(s, r, d)
                               \/ ValidateReview(s, r)
                               \/ \E n \in Rows : ImportLink(s, r, n)
        PROVE  FALSE
    BY <1>0, <2>1 DEF ValidateWrite, ValidateReview, ImportLink, Idle
  <2>2. ASSUME NEW r \in Rows, PlanOwn(s, r)
        PROVE  UNCHANGED links /\ req'[s].splice = by[req'[s].old]
    BY <1>0, <2>2 DEF PlanOwn, Idle
  <2>3. ~Abort(s)
    BY <1>0 DEF Abort, End, Idle
  <2>4. CASE Step(s)
    <3>1. ~(FindExact(s) \/ ReadSuccessor(s) \/ Begin(s) \/ BeginInsert(s) \/ CommitInsert(s) \/ LockPair(s))
      BY <1>0 DEF FindExact, ReadSuccessor, Begin, BeginInsert, CommitInsert, LockPair, End, Goto, Idle, Requests
    <3>2. ~(Walk(s) \/ Link(s) \/ Delete(s) \/ BreakDeadlock(s))
      BY <1>0 DEF Walk, Link, Delete, BreakDeadlock, End, Goto, Idle, Requests
    <3>3. ASSUME PlanLinks(s)
          PROVE  /\ req[s].pc = "plan"
                 /\ req'[s].old = req[s].old /\ req'[s].splice = req[s].splice
      <4>1. ~End(s) /\ req[s].pc = "plan"
        BY <1>0, <3>3 DEF End, Idle, PlanLinks
      <4>2. \/ req' = [req EXCEPT ![s].pc = "delete"]
            \/ req' = [req EXCEPT ![s].pc = "delete", ![s].revive = Predecessors(req[s].old)]
        BY <3>3, <4>1 DEF PlanLinks, Goto
      <4>3. QED
        BY <1>0, <4>1, <4>2 DEF Requests
    <3>4. ASSUME LockDoomed(s)
          PROVE  /\ req[s].pc = "delete"
                 /\ req'[s].old = req[s].old /\ req'[s].splice = req[s].splice
      <4>1. ~End(s) /\ req[s].pc = "delete"
        BY <1>0, <3>4 DEF End, Idle, LockDoomed
      <4>2. QED
        BY <1>0, <3>4, <4>1 DEF LockDoomed, Goto, Requests
    <3>5. QED
      BY <1>1, <2>4, <3>1, <3>2, <3>3, <3>4 DEF Step
  <2>5. QED
    BY <1>1, <1>3, <2>1, <2>2, <2>3, <2>4, OwnMove
<1>4. QED
  BY <1>2, <1>3

\* A row enters the store once and leaves it for good.
LEMMA RowsAge ==
    ASSUME IndInv, [Next]_vars, NEW r \in Rows
    PROVE  /\ status[r] = "gone" => status'[r] = "gone"
           /\ status'[r] \in {"unborn", "pending"} => status[r] \in {"unborn", "pending"}
<1>0. status \in [Rows -> {"unborn", "pending", "here", "gone"}]
  BY DEF IndInv, TypeOK
<1>1. CASE Tick \/ UNCHANGED vars
  BY <1>1 DEF Tick, vars
<1>2. ASSUME NEW x \in Rows, NEW d \in Dates \cup {None},
             \/ StoreFact(x, d) \/ FillDate(x, d)
             \/ (\E at \in 1 .. now : Expire(x, at)) \/ Unexpire(x)
      PROVE  /\ status[r] = "gone" => status'[r] = "gone"
             /\ status'[r] \in {"unborn", "pending"} => status[r] \in {"unborn", "pending"}
  BY <1>0, <1>2 DEF StoreFact, FillDate, Expire, Unexpire
<1>3. ASSUME NEW s \in Sessions, NEW x \in Rows,
             \/ \E d \in Dates \cup {None} : ValidateWrite(s, x, d)
             \/ ValidateReview(s, x) \/ PlanOwn(s, x)
             \/ \E n \in Rows : ImportLink(s, x, n)
      PROVE  status' = status
  BY <1>3 DEF ValidateWrite, ValidateReview, PlanOwn, ImportLink
<1>4. ASSUME NEW s \in Sessions, Step(s) \/ Abort(s)
      PROVE  /\ status[r] = "gone" => status'[r] = "gone"
             /\ status'[r] \in {"unborn", "pending"} => status[r] \in {"unborn", "pending"}
  <2>1. req[s].pc = "inserting" => req[s].new \in Rows /\ status[req[s].new] = "pending"
    BY DEF IndInv, RequestShape, LocksHeld
  <2>2. CASE BeginInsert(s) \/ CommitInsert(s)
    BY <1>0, <2>1, <2>2 DEF BeginInsert, CommitInsert, Unborn
  <2>3. CASE Delete(s) \/ Abort(s)
    BY <1>0, <2>1, <2>3 DEF Delete, DeleteRow, Abort, Unborn
  <2>4. CASE status' = status
    BY <2>4
  <2>5. ASSUME FindExact(s) \/ ReadSuccessor(s) \/ Begin(s) \/ LockPair(s) \/ Walk(s) \/ Link(s) \/ PlanLinks(s)
               \/ LockDoomed(s) \/ BreakDeadlock(s)
        PROVE  status' = status
    BY <2>5 DEF FindExact, ReadSuccessor, Begin, LockPair, Walk, Link, PlanLinks, LockDoomed, BreakDeadlock
  <2>6. QED
    BY <1>4, <2>2, <2>3, <2>4, <2>5 DEF Step
<1>5. QED
  BY <1>0, <1>1, <1>2, <1>3, <1>4 DEF Next

\* What a delete does to the successors, when the plan's splice still holds.
LEMMA DeleteSplices ==
    ASSUME IndInv, SpliceHolds, NEW s \in Sessions, Delete(s), ~DeleteConflicts(s)
    PROVE  LET doomed == req[s].old
           IN /\ doomed \in Rows /\ status'[doomed] = "gone" /\ by'[doomed] = None
              /\ doomed \in Locks(s)
              /\ \A r \in Rows \ {doomed} :
                    /\ by[r] # doomed => by'[r] = by[r]
                    /\ by[r] = doomed => by'[r] \in {None, by[doomed]}
                    /\ status'[r] = status[r]
<1> DEFINE doomed == req[s].old
           revived == req[s].revive \cap Predecessors(doomed)
<1>1. /\ doomed \in Rows /\ status'[doomed] = "gone" /\ status[doomed] = "here"
      /\ doomed \in Locks(s)
      /\ \A r \in Rows \ {doomed} : status'[r] = status[r] /\ (by[r] # doomed => by'[r] = by[r])
  BY DeleteEffect
<1>2. by' = [r \in Rows |-> IF r = doomed \/ r \in revived THEN None
                            ELSE IF by[r] = doomed THEN req[s].splice ELSE by[r]]
  BY DEF Delete, DeleteRow
<1>3. by'[doomed] = None
  BY <1>1, <1>2
<1>4. ASSUME NEW r \in Rows \ {doomed}, by[r] = doomed PROVE by'[r] \in {None, by[doomed]}
  <2>1. CASE r \in revived
    BY <1>2, <2>1
  <2>2. CASE r \notin revived
    <3>1. r \in Predecessors(doomed) \ req[s].revive
      BY <1>4, <2>2 DEF Predecessors
    <3>2. req[s].splice # None /\ status[req[s].splice] = "here"
      BY <3>1 DEF DeleteConflicts
    <3>3. by[doomed] = req[s].splice
      BY <1>1, <3>2 DEF SpliceHolds, Delete
    <3>4. QED
      BY <1>2, <1>4, <2>2, <3>3
  <2>3. QED
    BY <2>1, <2>2
<1>5. QED
  BY <1>1, <1>3, <1>4

\* The three ways the successors change.
LEMMA LinkMoves ==
    ASSUME IndInv, [Next]_vars, ~UNCHANGED links
    PROVE  \E s \in Sessions : CommitInsert(s) \/ Link(s) \/ (Delete(s) /\ ~DeleteConflicts(s))
<1>1. PICK s \in Sessions : CommitInsert(s) \/ Link(s) \/ Delete(s)
  BY LinksKept
<1>2. QED
  BY <1>1 DEF Delete

\* The successor an insert has just stored has none of its own, and the one of
\* a link is on rows that do not lead to the row retired.
LEMMA RetireSafe ==
    ASSUME IndInv, UnbornUnlinked, WalkHolds, NEW s \in Sessions, CommitInsert(s) \/ Link(s)
    PROVE  \E seen \in SUBSET Rows :
              /\ req[s].new \in seen
              /\ req[s].old \notin seen
              /\ \A r \in seen : by[r] \in seen \cup {None}
<1>1. CASE CommitInsert(s)
  <2>1. /\ req[s].new \in Rows /\ req[s].new # req[s].old
        /\ status[req[s].new] = "pending"
    BY <1>1 DEF CommitInsert, IndInv, RequestShape, LocksHeld
  <2>2. by[req[s].new] = None
    BY <2>1 DEF UnbornUnlinked
  <2>3. /\ {req[s].new} \in SUBSET Rows /\ req[s].old \notin {req[s].new}
        /\ \A r \in {req[s].new} : by[r] \in {req[s].new} \cup {None}
    BY <2>1, <2>2
  <2>4. QED
    BY <2>3
<1>2. CASE Link(s)
  BY <1>2 DEF Link, WalkHolds
<1>3. QED
  BY <1>1, <1>2

\* No step closes a loop.
LEMMA ChainsStep ==
    ASSUME IndInv, LoopInv, [Next]_vars
    PROVE  ChainsEnd'
<1>1. CASE UNCHANGED links
  BY <1>1 DEF LoopInv, ChainsEnd, links
<1>2. ASSUME NEW s \in Sessions, CommitInsert(s) \/ Link(s), ~UNCHANGED links
      PROVE  ChainsEnd'
  <2> DEFINE old == req[s].old
             new == req[s].new
  <2>1. /\ old \in Rows /\ new \in Rows /\ by'[old] = new
        /\ \A x \in Rows \ {old} : by'[x] = by[x]
    BY <1>2, Retires
  <2>2. PICK seen \in SUBSET Rows :
            /\ new \in seen /\ old \notin seen
            /\ \A r \in seen : by[r] \in seen \cup {None}
    BY <1>2, RetireSafe DEF LoopInv
  <2> HIDE DEF old, new
  <2>3. ASSUME NEW W \in SUBSET Rows, W # {}, \A r \in W : by'[r] \in W PROVE FALSE
    <3>1. CASE old \notin W
      BY <2>1, <2>3, <3>1 DEF LoopInv, ChainsEnd
    <3>2. CASE old \in W
      <4>1. new \in W \cap seen
        BY <2>1, <2>2, <2>3, <3>2
      <4>2. \A r \in W \cap seen : by[r] \in W \cap seen
        BY <2>1, <2>2, <2>3, ChainAssumption
      <4>3. QED
        BY <4>1, <4>2 DEF LoopInv, ChainsEnd
    <3>3. QED
      BY <3>1, <3>2
  <2>4. QED
    BY <2>3 DEF ChainsEnd
<1>3. ASSUME NEW s \in Sessions, Delete(s), ~DeleteConflicts(s)
      PROVE  ChainsEnd'
  <2> DEFINE doomed == req[s].old
  <2>1. /\ doomed \in Rows /\ by'[doomed] = None
        /\ \A r \in Rows \ {doomed} : /\ by[r] # doomed => by'[r] = by[r]
                                      /\ by[r] = doomed => by'[r] \in {None, by[doomed]}
    BY <1>3, DeleteSplices DEF LoopInv
  <2> HIDE DEF doomed
  <2>2. ASSUME NEW W \in SUBSET Rows, W # {}, \A r \in W : by'[r] \in W PROVE FALSE
    <3>1. doomed \notin W
      BY <2>1, <2>2, ChainAssumption
    <3>2. CASE \A r \in W : by[r] # doomed
      BY <2>1, <2>2, <3>1, <3>2 DEF LoopInv, ChainsEnd
    <3>3. CASE \E r \in W : by[r] = doomed
      <4>1. by[doomed] \in W
        BY <2>1, <2>2, <3>1, <3>3, ChainAssumption
      <4>2. \A r \in W \cup {doomed} : by[r] \in W \cup {doomed}
        BY <2>1, <2>2, <3>1, <4>1
      <4>3. QED
        BY <2>1, <4>2 DEF LoopInv, ChainsEnd
    <3>4. QED
      BY <3>2, <3>3
  <2>3. QED
    BY <2>2 DEF ChainsEnd
<1>4. QED
  BY <1>1, <1>2, <1>3, LinkMoves

\* A row outside the store gains no successor.
LEMMA UnbornStays ==
    ASSUME IndInv, LoopInv, [Next]_vars
    PROVE  UnbornUnlinked'
<1> SUFFICES ASSUME NEW r \in Rows, status'[r] \in {"unborn", "pending"} PROVE by'[r] = None
  BY DEF UnbornUnlinked
<1>1. status[r] \in {"unborn", "pending"} /\ by[r] = None
  BY RowsAge DEF LoopInv, UnbornUnlinked
<1>2. CASE UNCHANGED links
  BY <1>1, <1>2 DEF links
<1>3. ASSUME NEW s \in Sessions, CommitInsert(s) \/ Link(s), ~UNCHANGED links
      PROVE  by'[r] = None
  <2>1. r # req[s].old
    BY <1>1, <1>3 DEF CommitInsert, Link, IndInv, LocksHeld
  <2>2. QED
    BY <1>1, <1>3, <2>1, Retires
<1>4. ASSUME NEW s \in Sessions, Delete(s), ~DeleteConflicts(s)
      PROVE  by'[r] = None
  BY <1>1, <1>4, DeleteSplices, ChainAssumption DEF LoopInv
<1>5. QED
  BY <1>2, <1>3, <1>4, LinkMoves

\* A plan's splice stays the successor, or the delete finds a row gone.
LEMMA SpliceStays ==
    ASSUME IndInv, LoopInv, [Next]_vars
    PROVE  SpliceHolds'
<1> SUFFICES ASSUME NEW t \in Sessions, req'[t].pc \in {"plan", "delete", "deleting"},
                    req'[t].splice # None
             PROVE  \/ by'[req'[t].old] = req'[t].splice
                    \/ "gone" \in {status'[req'[t].old], status'[req'[t].splice]}
  BY DEF SpliceHolds
<1> DEFINE o == req'[t].old
           p == req'[t].splice
<1>1. o \in Rows /\ p \in Rows
  BY PlanFrom DEF OptRows
<1>2. \/ by[o] = p
      \/ "gone" \in {status[o], status[p]}
  BY PlanFrom DEF LoopInv, SpliceHolds
<1> HIDE DEF o, p
<1>3. CASE "gone" \in {status[o], status[p]}
  <2>1. status'[o] = "gone" \/ status'[p] = "gone"
    BY <1>1, <1>3, RowsAge
  <2>2. QED
    BY <2>1 DEF o, p
<1>4. CASE by[o] = p /\ UNCHANGED links
  BY <1>4 DEF links, o, p
<1>5. ASSUME by[o] = p, NEW s \in Sessions, CommitInsert(s) \/ Link(s), ~UNCHANGED links
      PROVE  by'[o] = p
  BY <1>1, <1>5, Retires, ChainAssumption
<1>6. ASSUME by[o] = p, NEW s \in Sessions, Delete(s), ~DeleteConflicts(s)
      PROVE  by'[o] = p \/ status'[o] = "gone" \/ status'[p] = "gone"
  BY <1>1, <1>6, DeleteSplices DEF LoopInv
<1>7. QED
  BY <1>2, <1>3, <1>4, <1>5, <1>6, LinkMoves DEF o, p

\* What a walk has seen stays closed until its transaction commits, when no
\* other transaction is between its walk and its commit.
LEMMA WalkStays ==
    ASSUME IsFiniteSet(Rows), Cardinality(Rows) <= MaxDepth,
           IndInv, LoopInv, OneLinks, [Next]_vars
    PROVE  WalkHolds'
<1> SUFFICES ASSUME NEW t \in Sessions, req'[t].pc = "linked"
             PROVE  \E seen \in SUBSET Rows :
                       /\ req'[t].new \in seen
                       /\ req'[t].old \notin seen
                       /\ \A r \in seen : by'[r] \in seen \cup {None}
  BY DEF WalkHolds
<1> DEFINE o == req[t].old
           n == req[t].new
<1>1. req'[t].old = o /\ req'[t].new = n
  BY LinkedFrom
<1>2. CASE req[t] # req'[t]
  <2>1. ~ClosesLoop(o, n) /\ n \in Rows /\ UNCHANGED links
    BY <1>2, LinkedFrom
  <2>2. /\ n \in ChainIds(n) /\ ChainIds(n) \subseteq Rows
        /\ \A x \in ChainIds(n) : by[x] \in ChainIds(n) \cup {None}
    BY <2>1, WalkSeesAll DEF LoopInv
  <2>3. o \notin ChainIds(n)
    BY <2>1 DEF ClosesLoop
  <2>4. by' = by
    BY <2>1 DEF links
  <2> HIDE DEF o, n
  <2>5. QED
    BY <1>1, <2>2, <2>3, <2>4
<1>3. CASE req[t] = req'[t]
  <2>1. req[t].pc = "linked"
    BY <1>3
  <2>2. PICK seen \in SUBSET Rows :
            /\ n \in seen /\ o \notin seen
            /\ \A r \in seen : by[r] \in seen \cup {None}
    BY <2>1 DEF LoopInv, WalkHolds
  <2>3. /\ o \in Rows /\ n \in Rows /\ status[o] = "here" /\ status[n] = "here"
        /\ Locks(t) = {o, n}
    BY <2>1 DEF IndInv, RequestShape, LocksHeld, Locks
  <2>4. CASE UNCHANGED links
    <3>1. by' = by
      BY <2>4 DEF links
    <3>2. QED
      BY <1>1, <2>2, <3>1
  <2>5. ASSUME NEW s \in Sessions, Link(s) PROVE FALSE
    <3>1. s = t
      BY <2>1, <2>5 DEF OneLinks, Link
    <3>2. req'[t] = Idle
      BY <2>5, <3>1 DEF Link, End, IndInv, TypeOK
    <3>3. QED
      BY <3>2 DEF Idle
  <2>6. ASSUME NEW s \in Sessions, CommitInsert(s), ~UNCHANGED links
        PROVE  \E S \in SUBSET Rows :
                  n \in S /\ o \notin S /\ \A r \in S : by'[r] \in S \cup {None}
    <3> DEFINE a == req[s].old
               f == req[s].new
    <3>1. /\ a \in Rows /\ f \in Rows /\ by'[a] = f
          /\ \A x \in Rows \ {a} : by'[x] = by[x]
      BY <2>6, Retires
    <3>2. status[f] = "pending" /\ status[a] = "here"
      BY <2>6 DEF CommitInsert, IndInv, LocksHeld
    <3>3. by[f] = None
      BY <3>1, <3>2 DEF LoopInv, UnbornUnlinked
    <3> HIDE DEF a, f, o, n
    <3>4. f # o /\ f # a
      BY <2>3, <3>2
    <3>5. \A r \in seen \cup {f} : by'[r] \in seen \cup {f} \cup {None}
      BY <2>2, <3>1, <3>3, <3>4
    <3>6. seen \cup {f} \in SUBSET Rows /\ n \in seen \cup {f} /\ o \notin seen \cup {f}
      BY <2>2, <3>1, <3>4
    <3>7. QED
      BY <3>5, <3>6
  <2>7. ASSUME NEW s \in Sessions, Delete(s), ~DeleteConflicts(s)
        PROVE  \E S \in SUBSET Rows :
                  n \in S /\ o \notin S /\ \A r \in S : by'[r] \in S \cup {None}
    <3> DEFINE doomed == req[s].old
    <3>1. /\ doomed \in Rows /\ doomed \in Locks(s)
          /\ \A r \in Rows \ {doomed} : /\ by[r] # doomed => by'[r] = by[r]
                                        /\ by[r] = doomed => by'[r] \in {None, by[doomed]}
      BY <2>7, DeleteSplices DEF LoopInv
    <3>2. doomed # n
      <4>1. s # t
        BY <2>1, <2>7 DEF Delete
      <4>2. QED
        BY <2>3, <3>1, <4>1 DEF IndInv, LocksHeld
    <3> HIDE DEF doomed, o, n
    <3>3. by[doomed] # doomed
      <4>1. {doomed} \in SUBSET Rows /\ {doomed} # {}
        BY <3>1
      <4>2. QED
        BY <4>1 DEF LoopInv, ChainsEnd
    <3>4. ASSUME NEW r \in seen \ {doomed} PROVE by'[r] \in (seen \ {doomed}) \cup {None}
      <4>1. by[r] = doomed => doomed \in seen
        BY <2>2, <3>1, <3>4, ChainAssumption
      <4>2. CASE by[r] = doomed
        BY <2>2, <3>1, <3>3, <3>4, <4>1, <4>2
      <4>3. CASE by[r] # doomed
        BY <2>2, <3>1, <3>4, <4>3
      <4>4. QED
        BY <4>2, <4>3
    <3>5. seen \ {doomed} \in SUBSET Rows /\ n \in seen \ {doomed} /\ o \notin seen \ {doomed}
      BY <2>2, <3>2
    <3>6. QED
      BY <3>4, <3>5
  <2> HIDE DEF o, n
  <2>8. QED
    BY <1>1, <2>4, <2>5, <2>6, <2>7, LinkMoves
<1>4. QED
  BY <1>2, <1>3

\* Two transactions between their walks and their commits, or a chain longer
\* than the depth cap, are the only ways to a loop: in a store the walk can
\* see whole, whose transactions link one at a time, every chain ends, whatever
\* else runs next to them.
THEOREM LoopsNeedTwoLinks ==
    ASSUME IsFiniteSet(Rows), Cardinality(Rows) <= MaxDepth
    PROVE  Spec /\ []OneLinks => []ChainsEnd
<1>1. Init => LoopInv
  <2>1. Init => ChainsEnd
    BY ChainAssumption DEF Init, ChainsEnd
  <2>2. Init => UnbornUnlinked /\ WalkHolds /\ SpliceHolds
    BY DEF Init, Idle, UnbornUnlinked, WalkHolds, SpliceHolds
  <2>3. QED
    BY <2>1, <2>2 DEF LoopInv
<1>2. IndInv /\ LoopInv /\ OneLinks /\ [Next]_vars => LoopInv'
  BY ChainsStep, UnbornStays, SpliceStays, WalkStays DEF LoopInv
<1>3. LoopInv => ChainsEnd
  BY DEF LoopInv
<1>4. QED
  BY <1>1, <1>2, <1>3, Inductive, PTL DEF Spec

\* Where nothing is forgotten, no request plans a delete.
NoForget ==
    "forget" \notin Kinds => \A s \in Sessions : req[s].pc \notin {"plan", "delete", "deleting"}

\* A provenance link and the link it mirrors are written by one commit: where
\* nothing is forgotten, no interleaving of writes, reviews and imports parts
\* them.
THEOREM MirrorHolds ==
    ASSUME "forget" \notin Kinds
    PROVE  Spec => []MirrorAgrees
<1> DEFINE Inv == MirrorAgrees /\ NoForget
<1>1. Init => Inv
  BY DEF Init, Idle, MirrorAgrees, NoForget
<1>2. IndInv /\ Inv /\ [Next]_vars => Inv'
  <2> SUFFICES ASSUME IndInv, Inv, [Next]_vars PROVE Inv'
    OBVIOUS
  <2>1. NoForget'
    <3> SUFFICES ASSUME NEW s \in Sessions, req'[s].pc \in {"plan", "delete", "deleting"} PROVE FALSE
      BY DEF NoForget
    <3>1. req'[s] # req[s]
      BY DEF NoForget
    <3>2. req[s] \in Requests /\ req \in [Sessions -> Requests]
      BY DEF IndInv, TypeOK
    <3>3. \A r \in Rows : ~PlanOwn(s, r)
      BY DEF PlanOwn
    <3>4. ASSUME NEW r \in Rows, \/ \E d \in Dates \cup {None} : ValidateWrite(s, r, d)
                                 \/ ValidateReview(s, r)
                                 \/ \E n \in Rows : ImportLink(s, r, n)
          PROVE  FALSE
      BY <3>2, <3>4 DEF ValidateWrite, ValidateReview, ImportLink, Idle
    <3>5. ~Abort(s)
      BY <3>2 DEF Abort, End, Idle
    <3>6. ~(FindExact(s) \/ ReadSuccessor(s) \/ Begin(s) \/ BeginInsert(s) \/ CommitInsert(s) \/ LockPair(s))
      BY <3>2 DEF FindExact, ReadSuccessor, Begin, BeginInsert, CommitInsert, LockPair, End, Goto, Idle, Requests
    <3>7. ~(Walk(s) \/ Link(s) \/ Delete(s) \/ BreakDeadlock(s) \/ PlanLinks(s) \/ LockDoomed(s))
      BY <3>2 DEF Walk, Link, Delete, BreakDeadlock, PlanLinks, LockDoomed, NoForget, End, Goto, Idle, Requests
    <3>8. QED
      BY <3>1, <3>3, <3>4, <3>5, <3>6, <3>7, OwnMove DEF Step
  <2>2. MirrorAgrees'
    <3>1. CASE UNCHANGED links
      BY <3>1 DEF MirrorAgrees, links
    <3>2. ASSUME NEW s \in Sessions, CommitInsert(s) \/ Link(s), ~UNCHANGED links
          PROVE  MirrorAgrees'
      <4> DEFINE old == req[s].old
                 new == req[s].new
      <4>1. /\ old \in Rows /\ new \in Rows /\ by[old] = None /\ by'[old] = new
            /\ \A x \in Rows \ {old} : by'[x] = by[x]
        BY <3>2, Retires
      <4>2. sup' = [sup EXCEPT ![new] = old] \/ sup' = [sup EXCEPT ![new] = IF @ = None THEN old ELSE @]
        BY <3>2 DEF CommitInsert, Link
      <4>3. sup \in [Rows -> OptRows] /\ None \notin Rows
        BY ChainAssumption DEF IndInv, TypeOK
      <4> HIDE DEF old, new
      <4>4. \A r \in Rows : sup'[r] = sup[r] \/ (r = new /\ sup'[r] = old)
        BY <4>1, <4>2, <4>3
      <4>5. ASSUME NEW r \in Rows, sup'[r] # None PROVE by'[sup'[r]] = r
        <5>1. CASE r = new /\ sup'[r] = old
          BY <4>1, <5>1
        <5>2. CASE sup'[r] = sup[r]
          <6>1. sup[r] \in Rows /\ by[sup[r]] = r
            BY <4>3, <4>5, <5>2 DEF OptRows, MirrorAgrees
          <6>2. sup[r] # old
            BY <4>1, <4>3, <6>1
          <6>3. QED
            BY <4>1, <5>2, <6>1, <6>2
        <5>3. QED
          BY <4>4, <5>1, <5>2
      <4>6. QED
        BY <4>5 DEF MirrorAgrees
    <3>3. \A s \in Sessions : ~Delete(s)
      BY DEF Delete, NoForget
    <3>4. QED
      BY <3>1, <3>2, <3>3, LinkMoves
  <2>3. QED
    BY <2>1, <2>2
<1>3. QED
  BY <1>1, <1>2, Inductive, PTL DEF Spec

=============================================================================
