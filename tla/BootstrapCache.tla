---------------------------- MODULE BootstrapCache ----------------------------
(***************************************************************************)
(* The digest cache of context_bootstrap (services/bootstrap.rs) against   *)
(* the changes that clear it.                                              *)
(*                                                                         *)
(* A request authenticates, reads the namespaces that exist, resolves its  *)
(* unit's model and looks its key up.  On a miss it reads the rows, then   *)
(* the namespaces that hold sealed items, their counts, the clients'       *)
(* labels, and files the digest it built.  The last four reads may fail in *)
(* whole or in part: the digest is served and filed without them.          *)
(*                                                                         *)
(* A change commits in the store and then clears the cache: a memory, a    *)
(* registry entry or a sealed item written, or forgotten in a namespace    *)
(* that keeps others, touches a namespace; a rename touches the labels.  A *)
(* new grant for a client and a flip of the model clear nothing.           *)
(*                                                                         *)
(* A digest is the set of changes it reflects; its limits, layout and text *)
(* are left out.  A request that fails outright simply goes no further.    *)
(***************************************************************************)
EXTENDS Naturals, FiniteSets

CONSTANTS
    Clients, Callers,
    Changes,    \* changes that clear the cache
    Touches,    \* the namespace a change is in, or "labels"
    Level,      \* what a change writes: 1 open, 2 private, 3 sealed
    Primary,    \* the namespaces a digest names whether or not they exist
    Grants,     \* read grants: the ceiling of each namespace, 0 for no reach
    Queries,    \* the caller's request, "-" for none
    CacheMs,    \* bootstrap.cache_ms, in ticks
    MaxNow,     \* bound on the clock
    MaxMoves    \* bound on new grants and flips together

Namespaces == (Primary \cup {Touches[o] : o \in Changes}) \ {"labels"}

ASSUME CacheAssumption ==
    /\ {CacheMs, MaxNow, MaxMoves} \subseteq Nat
    /\ Level \in [Changes -> 1 .. 3] /\ DOMAIN Touches = Changes
    /\ Grants \subseteq [Namespaces -> 0 .. 3] /\ Grants # {}
    /\ Clients # {} /\ "-" \in Queries

VARIABLES
    now,      \* Instant::now()
    change,   \* the state of a change: none, committed, cleared
    grant,    \* the read grant the server holds for a client
    grants,   \* how often a grant was changed
    model,    \* the model of the unit's active slot
    cache,    \* key -> digest and the instant it was filed
    req       \* the requests

cvars == <<now, change, grant, grants, model, cache, req>>

Committed == {o \in Changes : change[o] # "none"}
Settled == {o \in Changes : change[o] = "cleared"}

\* The changes a memory row or a registry entry carries, and the others.
Rows == {o \in Committed : Level[o] < 3 /\ Touches[o] # "labels"}
SealedItems == {o \in Committed : Level[o] = 3 /\ Touches[o] # "labels"}
Renames == {o \in Committed : Touches[o] = "labels"}

\* Beside what it shows, a digest remembers how it came about: the grant it was
\* built under, what its failed reads would have shown, and the changes that had
\* cleared when its build began and when it was filed.
NoDigest == [view |-> {}, model |-> 0, grant |-> CHOOSE g \in Grants : TRUE, unread |-> {},
             begun |-> {}, filed |-> {}]

CacheInit ==
    /\ now = 0
    /\ change = [o \in Changes |-> "none"]
    /\ grant \in [Clients -> Grants]
    /\ grants = 0 /\ model = 0
    /\ cache = <<>>
    /\ req = [r \in Callers |->
                [step |-> "new", client |-> CHOOSE c \in Clients : TRUE, query |-> "-",
                 grant |-> CHOOSE g \in Grants : TRUE, readable |-> {}, listed |-> {},
                 model |-> 0, before |-> {}, digest |-> NoDigest]]

-----------------------------------------------------------------------------
\* The handler of a write commits, and clears the cache once it has.
Commit(o) ==
    /\ change[o] = "none"
    /\ change' = [change EXCEPT ![o] = "committed"]
    /\ UNCHANGED <<now, grant, grants, model, cache, req>>

\* Forgets only what has expired. Mutant.
clear_expired(o) ==
    /\ change[o] = "committed"
    /\ change' = [change EXCEPT ![o] = "cleared"]
    /\ cache' = [k \in {k \in DOMAIN cache : now < cache[k].at + CacheMs} |-> cache[k]]
    /\ UNCHANGED <<now, grant, grants, model, req>>

clear_cache(o) ==
    /\ change[o] = "committed"
    /\ change' = [change EXCEPT ![o] = "cleared"]
    /\ cache' = <<>>
    /\ UNCHANGED <<now, grant, grants, model, req>>

\* The owner moves a client's grant. A consent that also names the client is
\* followed by a change of the labels.
set_client_grant(c) ==
    /\ grants + model < MaxMoves
    /\ grants' = grants + 1
    /\ \E g \in Grants \ {grant[c]} : grant' = [grant EXCEPT ![c] = g]
    /\ UNCHANGED <<now, change, model, cache, req>>

\* A migration makes the other slot, and its model, active.
Flip ==
    /\ grants + model < MaxMoves
    /\ model' = model + 1
    /\ UNCHANGED <<now, change, grant, grants, cache, req>>

-----------------------------------------------------------------------------
\* filter_readable: the namespaces the grant reaches, each with its ceiling.
filter_readable(g, names) == {<<n, g[n]>> : n \in {n \in names : g[n] > 0}}

\* The principal carries the grant of the moment; namespace_counts names the
\* namespaces the store holds a row or a registry entry in.
run_with_query(r, c, q) ==
    LET all == (Primary \cup {Touches[o] : o \in Rows}) \ {"labels"}
    IN  /\ req[r].step = "new"
        /\ req' = [req EXCEPT ![r] =
                [@ EXCEPT !.step = "named", !.client = c, !.query = q, !.grant = grant[c],
                          !.readable = filter_readable(grant[c], all), !.before = Settled]]
        /\ UNCHANGED <<now, change, grant, grants, model, cache>>

\* The key without the ceilings. Mutant.
cache_key_names(q, m) == <<q.client, {p[1] : p \in q.readable}, m, q.query>>

\* Who asks, the readable namespaces each with its ceiling, under which model,
\* and what was asked.
cache_key(q, m) == <<q.client, q.readable, m, q.query>>

\* A fresh entry answers; otherwise the request goes on to build.
lookup(r) ==
    LET k == cache_key(req[r], model)
        hit == k \in DOMAIN cache /\ now < cache[k].at + CacheMs
    IN  /\ req[r].step = "named"
        /\ req' = [req EXCEPT ![r] =
                IF hit THEN [@ EXCEPT !.step = "answered", !.model = model, !.digest = cache[k].digest]
                ELSE [@ EXCEPT !.step = "missed", !.model = model]]
        /\ UNCHANGED <<now, change, grant, grants, model, cache>>

\* The rows of the readable namespaces at or below their ceilings. A private row
\* that does not decrypt is dropped, and a query that does not embed leaves out
\* the rows it would have brought.
digest(r) ==
    LET q == req[r]
        rows == {o \in Rows : \E p \in q.readable : p[1] = Touches[o] /\ Level[o] <= p[2]}
        frail == {o \in rows : Level[o] = 2 \/ q.query # "-"}
    IN  /\ q.step = "missed"
        /\ \E lost \in SUBSET frail :
              req' = [req EXCEPT ![r] =
                [@ EXCEPT !.step = "read",
                          !.digest = [view |-> rows \ lost, model |-> q.model, grant |-> q.grant,
                                      unread |-> lost, begun |-> q.before, filed |-> {}]]]
        /\ UNCHANGED <<now, change, grant, grants, model, cache>>

\* A later read adds to the digest what it shows, or to what was not read.
Extend(r, step, listed, seen, lost) ==
    LET q == req[r]
        d == [q.digest EXCEPT !.view = @ \cup seen, !.unread = @ \cup lost]
    IN  /\ req' = [req EXCEPT ![r] =
                [q EXCEPT !.step = step, !.listed = listed, !.digest = d]]
        /\ UNCHANGED <<now, change, grant, grants, model, cache>>

\* sealed_counts, the candidates: the readable namespaces and, unless they cannot
\* be listed, those that hold a sealed item, where the grant reaches sealed.
sealed_namespaces(r) ==
    LET q == req[r]
        reach == {n \in Namespaces : q.grant[n] >= 3}
        known == {p[1] : p \in q.readable} \cap reach
        stored == {Touches[o] : o \in SealedItems} \cap reach
        lost == {o \in SealedItems : Touches[o] \in stored \ known}
    IN  /\ q.step = "read"
        /\ \/ Extend(r, "listed", known \cup stored, {}, {})
           \/ Extend(r, "listed", known, {}, lost)

\* sealed_counts, the counts of those namespaces; none when they cannot be read.
sealed_counts(r) ==
    LET q == req[r]
        sealed == {o \in SealedItems : Touches[o] \in q.listed}
    IN  /\ q.step = "listed"
        /\ \/ Extend(r, "counted", q.listed, sealed, {})
           \/ Extend(r, "counted", q.listed, {}, sealed)

\* The names of the clients that wrote the rows; as stored when the clients
\* cannot be read.
labels(r) ==
    LET q == req[r]
    IN  /\ q.step = "counted"
        /\ \/ Extend(r, "built", q.listed, Renames, {})
           \/ Extend(r, "built", q.listed, {}, Renames)

\* The digest is filed, the expired ones leave, and the caller is answered.
insert_fresh(r) ==
    LET k == cache_key(req[r], req[r].model)
        d == [req[r].digest EXCEPT !.filed = Settled]
        fresh == {e \in DOMAIN cache : now < cache[e].at + CacheMs}
    IN  /\ req[r].step = "built"
        /\ cache' = [e \in fresh \cup {k} |->
                        IF e = k THEN [at |-> now, digest |-> d] ELSE cache[e]]
        /\ req' = [req EXCEPT ![r] = [@ EXCEPT !.step = "answered", !.digest = d]]
        /\ UNCHANGED <<now, change, grant, grants, model>>

CacheTick ==
    /\ now < MaxNow
    /\ now' = now + 1
    /\ UNCHANGED <<change, grant, grants, model, cache, req>>

CacheNext ==
    \/ \E o \in Changes : Commit(o) \/ clear_cache(o)
    \/ \E c \in Clients : set_client_grant(c)
    \/ Flip \/ CacheTick
    \/ \E r \in Callers :
        \/ \E c \in Clients, q \in Queries : run_with_query(r, c, q)
        \/ lookup(r) \/ digest(r) \/ sealed_namespaces(r) \/ sealed_counts(r)
        \/ labels(r) \/ insert_fresh(r)

CacheSpec == CacheInit /\ [][CacheNext]_cvars

-----------------------------------------------------------------------------
Digests == [view : SUBSET Changes, model : Nat, grant : Grants, unread : SUBSET Changes,
            begun : SUBSET Changes, filed : SUBSET Changes]
Steps == {"new", "named", "missed", "read", "listed", "counted", "built", "answered"}
Ceilings == SUBSET (Namespaces \X (1 .. 3))
Requests == [step : Steps, client : Clients, query : Queries, grant : Grants,
             readable : Ceilings, listed : SUBSET Namespaces, model : Nat,
             before : SUBSET Changes, digest : Digests]
CacheKeys == Clients \X Ceilings \X Nat \X Queries

TypeOK ==
    /\ now \in Nat /\ grants \in Nat /\ model \in Nat
    /\ change \in [Changes -> {"none", "committed", "cleared"}]
    /\ grant \in [Clients -> Grants]
    /\ req \in [Callers -> Requests]
    /\ DOMAIN cache \subseteq CacheKeys
    /\ cache \in [DOMAIN cache -> [at : Nat, digest : Digests]]

\* The namespace of a change is one the cache key carries.
Keyed(o, readable) == \E p \in readable : p[1] = Touches[o]

\* A change that a caller with this grant finds in a digest that reflects it.
Reaches(g, o) == Touches[o] # "labels" /\ Level[o] <= g[Touches[o]]
Shown(o, g, readable) == Touches[o] = "labels" \/ (Reaches(g, o) /\ (Level[o] < 3 => Keyed(o, readable)))

\* A change the digest lacks was lost in a failed read of its build, or cleared
\* after the build began and before the digest was filed.
LostOrRaced(d, o) == o \in d.unread \/ (o \notin d.begun /\ o \in d.filed)

Answered == {r \in Callers : req[r].step = "answered"}

\* Whoever built it and whichever grants or flips came between, an answer was
\* compared under the model its caller asked under and shows no row above the
\* grant its caller came with, nor a sealed item in a namespace that the cache
\* key carries: "the cache key is a policy boundary" (bootstrap.rs, cache_key).
AnswerIsWithinGrant ==
    \A r \in Answered :
        LET q == req[r] IN
        /\ q.digest.model = q.model
        /\ \A o \in q.digest.view :
              \/ Shown(o, q.grant, q.readable)
              \/ Level[o] = 3 /\ ~Keyed(o, q.readable)


\* An answer lacks a change whose writer was answered before the request came
\* only when the change cleared inside the build that made the digest, or that
\* build could not read it: one that had cleared before the build began is in
\* it, and one that cleared after the digest was filed took it from the cache
\* (write.rs: "A fact written now must appear in the next bootstrap").  The
\* exception is a sealed item in a namespace no key carries, which the builder
\* may not have reached.
MissingOnlyIfRaced ==
    \A r \in Answered :
        LET q == req[r] IN
        \A o \in q.before \ q.digest.view : Shown(o, q.grant, q.readable) =>
            \/ LostOrRaced(q.digest, o)
            \/ Level[o] = 3 /\ ~Keyed(o, q.readable) /\ ~Reaches(q.digest.grant, o)

-----------------------------------------------------------------------------
(* What makes the two inductive.                                           *)

\* The ceilings in a key are those of this grant.
Matches(g, readable) == \A p \in readable : g[p[1]] = p[2]
GrantsMatch == \A r \in Callers : Matches(req[r].grant, req[r].readable)

Building(q) == q.step \in {"read", "listed", "counted", "built"}

\* The read that would show this change is still to come.
ToCome(q, o) ==
    \/ Touches[o] = "labels" /\ q.step # "built"
    \/ Touches[o] # "labels" /\ Level[o] = 3
       /\ (q.step = "read" \/ (q.step = "listed" /\ Touches[o] \in q.listed))

\* A digest under construction shows what had cleared when its build began, but
\* for what it could not read and what it has not read yet.
Whole(q) ==
    /\ q.digest.model = q.model
    /\ q.digest.grant = q.grant
    /\ q.digest.begun = q.before
    /\ q.step = "listed" => \A n \in q.listed : q.grant[n] >= 3
    /\ \A o \in q.digest.view : Shown(o, q.grant, q.readable)
    /\ \A o \in q.before \ q.digest.view :
          Shown(o, q.grant, q.readable) => o \in q.digest.unread \/ ToCome(q, o)

BuildsAreWhole == \A r \in Callers : Building(req[r]) => Whole(req[r])

\* An entry was built under a grant with the ceilings of its key, shows nothing
\* above that grant and misses only what its build raced or could not read.
Sound(k, d) ==
    /\ d.model = k[3]
    /\ Matches(d.grant, k[2])
    /\ \A o \in d.view : Shown(o, d.grant, k[2])
    /\ \A o \in Settled \ d.view : Shown(o, d.grant, k[2]) => LostOrRaced(d, o)

EntriesAreSound == \A k \in DOMAIN cache : Sound(k, cache[k].digest)

\* What had cleared when a request came has cleared.
PastIsSettled == \A r \in Callers : req[r].before \subseteq Settled

CacheInv ==
    /\ TypeOK
    /\ PastIsSettled
    /\ GrantsMatch
    /\ BuildsAreWhole
    /\ EntriesAreSound
    /\ AnswerIsWithinGrant
    /\ MissingOnlyIfRaced
=============================================================================
