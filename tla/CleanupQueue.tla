---------------------------- MODULE CleanupQueue ----------------------------
(***************************************************************************)
(* The cleanup queue: the passes that look for duplicates behind a         *)
(* watermark, the findings they queue, and the requests that decide a      *)
(* finding while the rows it names go on changing.                         *)
(*                                                                         *)
(* One tenant, one namespace, one level.  Rows are numbered by created_at, *)
(* and commit in that order (created_at is the start of the transaction,   *)
(* and the mark promises nothing of an insert that commits after a younger *)
(* row was seen).  A text is a number and Sim a level: 2 at or above       *)
(* cleanup_near_certain, 1 at or above the floor of the model's band, 0    *)
(* below.  The text of a row never changes, so what a finding saw of a row *)
(* is what the row holds.                                                  *)
(*                                                                         *)
(* A supersession and a forget are single steps here; their transactions   *)
(* are the subject of Supersession.                                        *)
(***************************************************************************)
EXTENDS Naturals, FiniteSets, FiniteSetsExt

CONSTANTS
    N,          \* bound on the rows
    Inputs,     \* Inputs[m]: the [text, at] row m may be written with
    Days,       \* the days a text may name
    Sim,        \* Sim[t][u]: the band the cosine of two texts falls in
    Aged,       \* rows older than STALE_DAYS
    Limit,      \* the limit of a candidate query
    Posts,      \* findings a model or a client may post: [kind, members, keep]
    Passes,     \* passes under way at once
    Cadences,   \* of {"hourly", "daily"}
    Reqs,       \* requests deciding findings
    MaxActs,    \* bound on the decisions, the changes to rows and the failures
    Null        \* SQL NULL

Rows == 1 .. N
Kinds == {"exact", "paraphrase", "contradiction", "stale"}
has_keep(kind) == kind \notin {"contradiction", "stale"}
deletes(kind) == kind = "stale"

\* cluster_key: the kind over exactly these rows, several where one of them
\* survives.
Keys == {k \in Kinds \X SUBSET Rows : k[2] # {} /\ (has_keep(k[1]) => Cardinality(k[2]) > 1)}
Findings == [kind : Kinds, members : SUBSET Rows, keep : 0 .. N]
Finding(kind, members, keep) == [kind |-> kind, members |-> members, keep |-> keep]
KeyOf(x) == <<x.kind, x.members>>

\* A kind that has a survivor names one of the rows.  A finding a client posts
\* of another kind may name any row there.
Sound(x) == KeyOf(x) \in Keys /\ (has_keep(x.kind) => x.keep \in x.members)

\* The rows its foreign keys name.
References(x) == x.members \cup ({x.keep} \ {0})

ASSUME CleanupAssumption ==
    /\ N \in Nat /\ Limit \in Nat \ {0} /\ Aged \subseteq Rows
    /\ Days \subseteq Nat /\ Null \notin Nat /\ Null \notin Keys
    /\ \A m \in Rows : Inputs[m] # {} /\ Inputs[m] \subseteq [text : Nat, at : Nat \cup {Null}]
    /\ Cadences \subseteq {"hourly", "daily"}
    /\ Posts \subseteq Findings /\ \A x \in Posts : Sound(x)

VARIABLES
    row,     \* memory
    prop,    \* cleanup_proposal by cluster_key, with its members
    mark,    \* cleanup_watermark by cadence: 0 for no mark
    ps,      \* the passes
    rq,      \* the requests
    revived,    \* history: rows that came back to life
    filled,  \* history: rows whose start was filled in
    pairs,   \* history: pairs of rows some finding was queued about
    cut,     \* history: cadences with a truncated run
    acts

vars == <<row, prop, mark, ps, rq, revived, filled, pairs, cut, acts>>

NoRow == [state |-> "none", text |-> 0, at |-> Null, by |-> 0, expired |-> FALSE]
Absent == [state |-> "none", keep |-> 0, members |-> {}]
Idle == [pc |-> "idle", cadence |-> "hourly", since |-> 0, newest |-> 0, seen |-> 0, todo |-> {}, claimed |-> {},
         cut |-> FALSE]
Rest == [key |-> Null, keep |-> 0, todo |-> {}]

Init ==
    /\ row = [m \in Rows |-> NoRow]
    /\ prop = [k \in Keys |-> Absent]
    /\ mark = [c \in Cadences |-> 0]
    /\ ps = [p \in Passes |-> Idle]
    /\ rq = [r \in Reqs |-> Rest]
    /\ revived = {} /\ filled = {} /\ pairs = {} /\ cut = {}
    /\ acts = 0

Stored(m) == row[m].state = "stored"
Live(m) == Stored(m) /\ row[m].by = 0 /\ ~row[m].expired
LiveRows == {m \in Rows : Live(m)}
Earlier(a, b) == a # Null /\ b # Null /\ a < b
Pairing(S) == {T \in SUBSET S : Cardinality(T) = 2}

-----------------------------------------------------------------------------
(* What the owner and other writers do to rows.                            *)

Act == acts < MaxActs /\ acts' = acts + 1
StoreOnly == UNCHANGED <<mark, ps, rq, pairs, cut>>

write(m) ==
    /\ row[m].state = "none"
    /\ \A n \in 1 .. m - 1 : row[n].state # "none"
    /\ \E x \in Inputs[m] :
          row' = [row EXCEPT ![m] = [NoRow EXCEPT !.state = "stored", !.text = x.text, !.at = x.at]]
    /\ UNCHANGED <<prop, revived, filled, acts>> /\ StoreOnly

expire(m) ==
    /\ Live(m) /\ Act
    /\ row' = [row EXCEPT ![m].expired = TRUE]
    /\ UNCHANGED <<prop, revived, filled>> /\ StoreOnly

unexpire(m) ==
    /\ Stored(m) /\ row[m].expired /\ Act
    /\ row' = [row EXCEPT ![m].expired = FALSE]
    /\ revived' = revived \cup {m}
    /\ UNCHANGED <<prop, filled>> /\ StoreOnly

\* fill_occurred_at: a start where there was none, on the day the text names.
fill_date(m) ==
    /\ Stored(m) /\ row[m].at = Null /\ Act
    /\ \E d \in Days : row' = [row EXCEPT ![m].at = d]
    /\ filled' = filled \cup {m}
    /\ UNCHANGED <<prop, revived>> /\ StoreOnly

\* The row goes, what it replaced holds again, and so go the memberships
\* that name it and the findings it was to survive.
Deleted(m) ==
    /\ row' = [n \in Rows |->
                 IF n = m THEN [NoRow EXCEPT !.state = "gone", !.text = row[m].text]
                 ELSE IF row[n].by = m THEN [row[n] EXCEPT !.by = 0] ELSE row[n]]
    /\ prop' = [k \in Keys |-> IF prop[k].keep = m THEN Absent
                               ELSE [prop[k] EXCEPT !.members = @ \ {m}]]
    /\ revived' = revived \cup {n \in Rows : row[n].by = m}

forget(m) ==
    /\ Stored(m) /\ Act
    /\ Deleted(m)
    /\ UNCHANGED filled /\ StoreOnly

\* review::supersede: the replacement lives, the other has no successor and no
\* end, and the dates are not inverted.
MayRetire(m, keep) ==
    /\ Stored(m) /\ row[m].by = 0 /\ ~row[m].expired
    /\ Live(keep) /\ m # keep
    /\ ~Earlier(row[keep].at, row[m].at)

Retired(m, keep) ==
    /\ row' = [row EXCEPT ![m].by = keep]
    /\ UNCHANGED <<prop, revived>>

supersede(m, keep) ==
    /\ MayRetire(m, keep) /\ Act
    /\ Retired(m, keep)
    /\ UNCHANGED filled /\ StoreOnly

-----------------------------------------------------------------------------
(* The candidate queries.                                                  *)

\* The first `Limit` rows of S in the order of Before.
Top(S, Before(_, _)) == {m \in S : Cardinality({n \in S : Before(n, m)}) < Limit}

\* Live rows of one text, of the texts that hold a row at or after the mark and
\* more than one row; in order of the text and created_at, up to the limit.
\* A group the limit leaves a single row of is dropped.
exact_duplicates(since) ==
    LET Same(m) == {n \in LiveRows : row[n].text = row[m].text}
        Found == {m \in LiveRows : Cardinality(Same(m)) > 1 /\ \E n \in Same(m) : n >= since}
        Before(n, m) == \/ row[n].text < row[m].text
                        \/ row[n].text = row[m].text /\ n < m
        Taken == Top(Found, Before)
    IN  {g \in {Same(m) \cap Taken : m \in Taken} : Cardinality(g) > 1}

Band(P) == LET m == Min(P) n == Max(P) IN Sim[row[m].text][row[n].text]

\* Pairs of live rows above the floor with a side at or after the mark, the
\* most similar first; the limit cuts among equals as it likes.
similar_pairs(since) ==
    LET Found == {P \in Pairing(LiveRows) : Band(P) > 0 /\ Max(P) >= since}
        Size == IF Cardinality(Found) < Limit THEN Cardinality(Found) ELSE Limit
    IN  {S \in SUBSET Found : /\ Cardinality(S) = Size
                              /\ \A P \in S, Q \in Found \ S : Band(P) >= Band(Q)}

\* R: the rows that were read or confirmed so far.
unread(R) ==
    LET Before(n, m) == n < m
    IN  Top((LiveRows \cap Aged) \ R, Before)

newest_in_scope == IF LiveRows = {} THEN 0 ELSE Max(LiveRows)

-----------------------------------------------------------------------------
(* Queueing.                                                               *)

\* INSERT ... ON CONFLICT DO NOTHING: known in whatever state.
queue(x) ==
    /\ prop' = IF prop[KeyOf(x)] # Absent THEN prop
               ELSE [prop EXCEPT ![KeyOf(x)] =
                       [state |-> "proposed", keep |-> x.keep, members |-> x.members]]
    /\ pairs' = pairs \cup Pairing(x.members)

\* The last to become true survives where the survivor chosen is dated earlier.
\* valid_times is read in the same step.
Survivor(x) ==
    LET Dated == {m \in x.members : row[m].at # Null}
        Latest == {m \in Dated : \A n \in Dated : row[n].at <= row[m].at}
    IN  IF ~has_keep(x.kind) \/ x.keep \notin Dated \/ x.keep \in Latest THEN {x.keep}
        ELSE Latest

\* Mutant: queued with the survivor the pass chose.
queue_unchecked(x) == queue(x)

queue_checked(x) == \E keep \in Survivor(x) : queue([x EXCEPT !.keep = keep])

\* A client posts a finding about rows it read; a model posts its verdict on a pair.
queue_posted(x) ==
    /\ \A m \in References(x) : Stored(m)
    /\ prop[KeyOf(x)] = Absent
    /\ queue_checked(x)
    /\ UNCHANGED <<row, mark, ps, rq, revived, filled, cut, acts>>

-----------------------------------------------------------------------------
(* One pass.                                                               *)

PassOnly == UNCHANGED <<row, mark, rq, revived, filled, cut, acts>>

Superseded(S) == \E m \in S : row[m].by # 0

\* Mutant: only a finding every row of which was answered is closed.
Closed_all(k) == prop[k].state = "proposed" /\ \A m \in prop[k].members : row[m].by # 0

\* close_answered: a row left in the finding was retired by something else.
Closed(k) == prop[k].state = "proposed" /\ Superseded(prop[k].members)

\* Mutant: the newest row is read once the pairs were.
begin_unread(p, c) ==
    /\ ps[p].pc = "idle"
    /\ prop' = [k \in Keys |-> IF Closed(k) THEN [prop[k] EXCEPT !.state = "obsolete"] ELSE prop[k]]
    /\ ps' = [ps EXCEPT ![p] = [Idle EXCEPT !.pc = "exact", !.cadence = c, !.since = mark[c],
                                            !.newest = IF LiveRows = {} THEN 0 ELSE N]]
    /\ UNCHANGED pairs /\ PassOnly

\* The scheduler's pass closes what the store answered, then reads the mark and
\* the newest row: all before it reads a candidate.
begin(p, c) ==
    /\ ps[p].pc = "idle"
    /\ prop' = [k \in Keys |-> IF Closed(k) THEN [prop[k] EXCEPT !.state = "obsolete"] ELSE prop[k]]
    /\ ps' = [ps EXCEPT ![p] = [Idle EXCEPT !.pc = "exact", !.cadence = c, !.since = mark[c],
                                            !.newest = newest_in_scope]]
    /\ UNCHANGED pairs /\ PassOnly

Seen(p, S) == Max({ps[p].seen} \cup S)

\* The oldest of a group survives; rows of a group are claimed.
read_exact(p) ==
    /\ ps[p].pc = "exact"
    /\ LET groups == exact_duplicates(ps[p].since)
           rows == UNION groups
       IN  ps' = [ps EXCEPT ![p] =
                    [ps[p] EXCEPT !.pc = "queue_exact", !.claimed = rows, !.seen = Seen(p, rows),
                                  !.cut = Cardinality(rows) >= Limit,
                                  !.todo = {Finding("exact", g, Min(g)) : g \in groups}]]
    /\ UNCHANGED <<prop, pairs>> /\ PassOnly

\* A near-certain pair not claimed on both sides is a finding, and the newer
\* row survives.  The band below goes to a model, which posts what it decides.
read_similar(p) ==
    /\ ps[p].pc = "queue_exact" /\ ps[p].todo = {}
    /\ \E S \in similar_pairs(ps[p].since) :
          LET sure == {P \in S : Band(P) = 2 /\ ~(P \subseteq ps[p].claimed)}
          IN  ps' = [ps EXCEPT ![p] =
                       [ps[p] EXCEPT !.pc = "queue_similar", !.since = 0, !.claimed = {}, !.seen = Seen(p, UNION S),
                                     !.cut = ps[p].cut \/ Cardinality(S) >= Limit,
                                     !.todo = {Finding("paraphrase", P, Max(P)) : P \in sure}]]
    /\ UNCHANGED <<prop, pairs>> /\ PassOnly

\* Daily only; no mark is asked.
read_unread(p) ==
    /\ ps[p].pc = "queue_similar" /\ ps[p].todo = {} /\ ps[p].cadence = "daily"
    /\ \E R \in SUBSET Aged :
          ps' = [ps EXCEPT ![p] =
                   [ps[p] EXCEPT !.pc = "queue_stale", !.cut = ps[p].cut \/ Cardinality(unread(R)) >= Limit,
                                 !.todo = {Finding("stale", {m}, 0) : m \in unread(R)}]]
    /\ UNCHANGED <<prop, pairs>> /\ PassOnly

\* One finding, one transaction.  A row gone since it was read fails the
\* insert, and the pass with it.
queue_one(p) ==
    /\ ps[p].todo # {}
    /\ LET x == CHOOSE y \in ps[p].todo : TRUE
       IN  IF prop[KeyOf(x)] = Absent /\ \E m \in References(x) : ~Stored(m)
           THEN ps' = [ps EXCEPT ![p] = Idle] /\ UNCHANGED <<prop, pairs>>
           ELSE /\ queue_checked(x)
                /\ ps' = [ps EXCEPT ![p].todo = @ \ {x}]
    /\ PassOnly

\* To the newest row there was at the start; to the newest a candidate touched
\* when a query hit its limit.  Never backwards.
advance(p) ==
    /\ ps[p].todo = {}
    /\ ps[p].pc = (IF ps[p].cadence = "daily" THEN "queue_stale" ELSE "queue_similar")
    /\ LET to == IF ps[p].cut THEN ps[p].seen ELSE ps[p].newest
           through == IF to = 0 /\ ~ps[p].cut THEN ps[p].seen ELSE to
       IN  mark' = [mark EXCEPT ![ps[p].cadence] = Max({@, through})]
    /\ cut' = cut \cup (IF ps[p].cut THEN {ps[p].cadence} ELSE {})
    /\ ps' = [ps EXCEPT ![p] = Idle]
    /\ UNCHANGED <<row, prop, rq, revived, filled, pairs, acts>>

PassStep(p) ==
    \/ \E c \in Cadences : begin(p, c)
    \/ read_exact(p) \/ read_similar(p) \/ read_unread(p) \/ queue_one(p) \/ advance(p)

-----------------------------------------------------------------------------
(* Deciding a finding.                                                     *)

RequestOnly == UNCHANGED <<mark, ps, filled, pairs, cut>>

\* Every row the finding still has is checked before one is written.
Standing(k) == prop[k].state = "proposed" /\ ~Superseded(prop[k].members)

apply(r, k) ==
    /\ rq[r] = Rest /\ Act
    /\ Standing(k) /\ k[1] # "contradiction"
    /\ has_keep(k[1]) => prop[k].keep \in prop[k].members
    /\ LET keep == IF has_keep(k[1]) THEN prop[k].keep ELSE 0
       IN  rq' = [rq EXCEPT ![r] = [key |-> k, keep |-> keep, todo |-> prop[k].members \ {keep}]]
    /\ UNCHANGED <<row, prop, revived>> /\ RequestOnly

\* The owner names the row that holds.
resolve(r, k, keep) ==
    /\ rq[r] = Rest /\ Act
    /\ Standing(k) /\ ~has_keep(k[1]) /\ keep \in prop[k].members
    /\ rq' = [rq EXCEPT ![r] = [key |-> k, keep |-> keep, todo |-> prop[k].members \ {keep}]]
    /\ UNCHANGED <<row, prop, revived>> /\ RequestOnly

Deletes(r) == deletes(rq[r].key[1]) /\ rq[r].keep = 0

\* Mutant: a row that will not move is passed over.
retire_lenient(r, m) ==
    /\ rq[r].key # Null /\ m \in rq[r].todo
    /\ \/ Deletes(r) /\ Stored(m) /\ Deleted(m)
       \/ ~Deletes(r) /\ MayRetire(m, rq[r].keep) /\ Retired(m, rq[r].keep)
       \/ ~Deletes(r) /\ ~MayRetire(m, rq[r].keep) /\ UNCHANGED <<row, prop, revived>>
    /\ rq' = [rq EXCEPT ![r].todo = @ \ {m}]
    /\ UNCHANGED acts /\ RequestOnly

\* review::delete or review::supersede, each its own transaction.  The link
\* that is there already counts as written.
retire(r, m) ==
    /\ rq[r].key # Null /\ m \in rq[r].todo
    /\ \/ Deletes(r) /\ Stored(m) /\ Deleted(m)
       \/ ~Deletes(r) /\ MayRetire(m, rq[r].keep) /\ Retired(m, rq[r].keep)
       \/ ~Deletes(r) /\ row[m].by = rq[r].keep /\ UNCHANGED <<row, prop, revived>>
    /\ rq' = [rq EXCEPT ![r].todo = @ \ {m}]
    /\ UNCHANGED acts /\ RequestOnly

\* The member moved since the check: the request fails where it stands.
refused(r, m) ==
    /\ rq[r].key # Null /\ m \in rq[r].todo
    /\ IF Deletes(r) THEN ~Stored(m) ELSE ~MayRetire(m, rq[r].keep)
    /\ rq' = [rq EXCEPT ![r] = Rest]
    /\ UNCHANGED <<row, prop, revived, acts>> /\ RequestOnly

\* decide(applied): only a proposed finding, and losing is an error that moves nothing.
finish(r) ==
    /\ rq[r].key # Null /\ rq[r].todo = {}
    /\ prop' = IF prop[rq[r].key].state = "proposed"
               THEN [prop EXCEPT ![rq[r].key].state = "applied"] ELSE prop
    /\ rq' = [rq EXCEPT ![r] = Rest]
    /\ UNCHANGED <<row, revived, acts>> /\ RequestOnly

reject(k) ==
    /\ prop[k].state = "proposed" /\ Act
    /\ prop' = [prop EXCEPT ![k].state = "rejected"]
    /\ UNCHANGED <<row, rq, revived>> /\ RequestOnly

unreject(k) ==
    /\ prop[k].state = "rejected" /\ Act
    /\ prop' = [prop EXCEPT ![k].state = "proposed"]
    /\ UNCHANGED <<row, rq, revived>> /\ RequestOnly

\* A pass or a request stops: a failed statement, a restart of the server.
Fault ==
    /\ Act
    /\ \/ \E p \in Passes : ps[p] # Idle /\ ps' = [ps EXCEPT ![p] = Idle] /\ UNCHANGED rq
       \/ \E r \in Reqs : rq[r] # Rest /\ rq' = [rq EXCEPT ![r] = Rest] /\ UNCHANGED ps
    /\ UNCHANGED <<row, prop, mark, revived, filled, pairs, cut>>

Next ==
    \/ \E m \in Rows : write(m) \/ expire(m) \/ unexpire(m) \/ fill_date(m) \/ forget(m)
    \/ \E m, n \in Rows : supersede(m, n)
    \/ \E x \in Posts : queue_posted(x)
    \/ \E p \in Passes : PassStep(p)
    \/ \E r \in Reqs, k \in Keys : apply(r, k) \/ \E n \in Rows : resolve(r, k, n)
    \/ \E r \in Reqs, m \in Rows : retire(r, m) \/ refused(r, m)
    \/ \E r \in Reqs : finish(r)
    \/ \E k \in Keys : reject(k) \/ unreject(k)
    \/ Fault

\* The scheduler comes back every interval for as long as the server runs.
Spec == Init /\ [][Next]_vars /\ \A p \in Passes : WF_vars(PassStep(p))

-----------------------------------------------------------------------------
(* Properties.                                                             *)

Known(m) == row[m].state # "none"
Alone(m) == ~\E n \in Rows \ {m} : Known(n) /\ row[n].text = row[m].text
PromisedTo(b) ==
    {P \in Pairing({m \in LiveRows : m <= b} \ revived) :
        Band(P) = 2 /\ (row[Min(P)].text = row[Max(P)].text \/ \E m \in P : Alone(m))}

(***************************************************************************)
(* Two live rows at or below a mark that a run should have put before the  *)
(* owner were put before him: rows of one text, or near-certain texts of   *)
(* which the exact groups claimed at most one.  Rows that committed out of *)
(* order or came back to life are not promised, nor is anything once a     *)
(* query of the cadence hit its limit.  [cleanup.rs pass: the mark moves   *)
(* to what was there before the first query, never to now.]                *)
(***************************************************************************)
NothingMissed ==
    \A c \in DOMAIN mark : c \notin cut => PromisedTo(mark[c]) \subseteq pairs

(***************************************************************************)
(* A finding that waits and whose rows nothing touched can be carried out: *)
(* no row it retires became true after its survivor.  [queue_checked       *)
(* against refuse_inversion; a start filled in later is excepted.]         *)
(***************************************************************************)
QueuedApplies ==
    \A k \in Keys : prop[k].state = "proposed" /\ has_keep(k[1]) /\ k[2] \cap filled = {} =>
        \A m \in prop[k].members : ~Earlier(row[prop[k].keep].at, row[m].at)

(***************************************************************************)
(* A finding reads applied only once every row it was to retire is         *)
(* replaced, or gone, whatever other requests and the owner did to those   *)
(* rows meanwhile; the one exception is a survivor forgotten under a       *)
(* finding that named none.  [cleanup.rs apply and resolve.]               *)
(***************************************************************************)
AppliedIsDone ==
    [][\A r \in Reqs : LET k == rq[r].key IN
         k # Null /\ prop[k].state = "proposed" /\ prop'[k].state = "applied" /\ rq'[r] = Rest =>
            \/ ~has_keep(k[1]) /\ rq[r].keep # 0 /\ ~Stored(rq[r].keep)
            \/ \A m \in prop[k].members \ {rq[r].keep} : row[m].by # 0]_vars

(***************************************************************************)
(* No finding some row of which was retired, by a half-applied decision or *)
(* by anything else, waits for ever: again and again there is none.        *)
(* [cleanup.rs pass: close_answered at the head of every run.]             *)
(***************************************************************************)
AnsweredIsClosed ==
    []<>(\A k \in Keys : prop[k].state = "proposed" => ~Superseded(prop[k].members))

-----------------------------------------------------------------------------
(* What makes the first three inductive.                                   *)

CleanupTypeOK ==
    /\ row \in [Rows -> [state : {"none", "stored", "gone"}, text : Nat, at : Nat \cup {Null}, by : 0 .. N,
                         expired : BOOLEAN]]
    /\ prop \in [Keys -> [state : {"none", "proposed", "obsolete", "applied", "rejected"}, keep : 0 .. N,
                          members : SUBSET Rows]]
    /\ mark \in [Cadences -> 0 .. N]
    /\ ps \in [Passes -> [pc : {"idle", "exact", "queue_exact", "queue_similar", "queue_stale"},
                          cadence : {"hourly", "daily"}, since : 0 .. N, newest : 0 .. N, seen : 0 .. N,
                          todo : SUBSET Findings, claimed : SUBSET Rows, cut : BOOLEAN]]
    /\ rq \in [Reqs -> [key : Keys \cup {Null}, keep : 0 .. N, todo : SUBSET Rows]]
    /\ revived \subseteq Rows /\ filled \subseteq Rows

\* A finding has left the rows of its key that are not gone, its survivor is
\* stored, and none of them became true after the survivor.
FindingHolds(k) ==
    IF prop[k].state = "none" THEN prop[k] = Absent
    ELSE /\ prop[k].members \subseteq k[2]
         /\ \A m \in k[2] : IF m \in prop[k].members THEN Stored(m) ELSE row[m].state = "gone"
         /\ prop[k].keep # 0 => Stored(prop[k].keep)
         /\ has_keep(k[1]) => prop[k].keep \in k[2]
         /\ has_keep(k[1]) /\ k[2] \cap filled = {} =>
               \A m \in prop[k].members : ~Earlier(row[prop[k].keep].at, row[m].at)

\* A request is done with the rows of the finding it no longer lists, unless
\* its survivor was forgotten.  A finding that goes with its survivor never
\* comes back.
RequestHolds(r) ==
    LET k == rq[r].key
        keep == rq[r].keep
    IN  k # Null =>
            /\ Deletes(r) \/ keep # 0
            /\ \A m \in k[2] : Known(m)
            /\ has_keep(k[1]) =>
                  keep \in k[2] /\ IF prop[k].state = "none" THEN row[keep].state = "gone" ELSE keep = prop[k].keep
            /\ \/ keep # 0 /\ row[keep].state = "gone"
               \/ \A m \in k[2] \ ({keep} \cup rq[r].todo) :
                     row[m].state = "gone" \/ (keep # 0 /\ row[m].by = keep)

\* Rows commit in order, and a mark is at one of them.
MarksHold ==
    /\ \A m, n \in Rows : Known(m) /\ n < m => Known(n)
    /\ \A c \in Cadences : mark[c] = 0 \/ Known(mark[c])

Covered(p, P) == P \in pairs \/ \E x \in ps[p].todo : P \subseteq x.members
Through(p) == IF ps[p].newest = 0 THEN ps[p].seen ELSE ps[p].newest

\* What a pass has read is queued or about to be: the groups it claimed, then
\* every pair promised up to the row its mark will move to.
PassHolds(p) ==
    /\ \A x \in ps[p].todo : Sound(x)
    /\ \A n \in {ps[p].newest, ps[p].seen} : n = 0 \/ Known(n)
    /\ ps[p].pc # "idle" => ps[p].cadence \in Cadences /\ ps[p].since <= mark[ps[p].cadence]
    /\ \A m \in ps[p].claimed : Known(m) /\ ~Alone(m)
    /\ \A P \in Pairing(ps[p].claimed) : row[Min(P)].text = row[Max(P)].text => Covered(p, P)
    /\ ps[p].pc \in {"queue_similar", "queue_stale"} /\ ~ps[p].cut /\ ps[p].cadence \notin cut =>
          \A P \in PromisedTo(Through(p)) : Covered(p, P)

CleanupInv ==
    /\ CleanupTypeOK /\ MarksHold /\ NothingMissed
    /\ \A k \in Keys : FindingHolds(k)
    /\ \A r \in Reqs : RequestHolds(r)
    /\ \A p \in Passes : PassHolds(p)
=============================================================================
