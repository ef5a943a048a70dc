-------------------------- MODULE ProcessStateProofs --------------------------
(* The state that lives in the server process alone.                        *)
(*                                                                          *)
(* The throttles, for any posts, keys, limits and clock: what is counted    *)
(* against a window is matched, post by post, with the charges it holds, so *)
(* the bound on the window bounds the posts. The matching survives releases *)
(* that take each other's charges, which is where a count alone would not   *)
(* tell whose charge is gone.                                               *)
(*                                                                          *)
(* The digest cache, for any clients, grants, requests, changes, namespaces *)
(* and lifetime: a build is followed from its reads to the entry it files,  *)
(* and an entry to the answers it gives. Rows keep to their caller's grant, *)
(* and nothing is missing but what raced the build or failed to be read;    *)
(* sealed items in a namespace that no key carries are excepted from both.  *)
EXTENDS LoginLimiter, BootstrapCache, FiniteSetTheorems, TLAPS

(* The throttles.                                                           *)

Charges == Nat \X (Nat \ {0})

\* The charges of one instant are numbered from one without a gap.
Numbered(w) == \A c \in w : \A n \in 1 .. c[2] : <<c[1], n>> \in w

WindowIs(w) == w \subseteq Charges /\ IsFiniteSet(w) /\ Numbered(w)

\* What can stand for a post: a charge of a window, or a post gone astray.
Tokens(w, strays) == ({1} \X w) \cup ({2} \X strays)

Stamp(x, at) == IF x[1] = 1 THEN x[2][1] ELSE at[x[2]]

\* Every post has a token of its own instant, and no two have the same.
Covers(posts, at, w, strays) ==
    \E f \in Injection(posts, Tokens(w, strays)) : \A r \in posts : Stamp(f[r], at) = at[r]

-----------------------------------------------------------------------------
LoginSteps == {"new", "arrived", "throttled", "reserved", "checking", "gone", "right", "wrong", "released"}

Posts == [step : LoginSteps, key : Keys \cup {""}, peer : Peers \cup {""}, at : Nat]

Maps(names) == UNION {[S -> SUBSET Charges] : S \in SUBSET names}

Which == {"key", "peer"}

Names(which) == IF which = "key" THEN Keys ELSE Peers

Limit(which) == IF which = "key" THEN per_minute ELSE per_minute * PeerMultiplier

Tracked(which) == IF which = "key" THEN by_key ELSE by_peer

\* The window of a name, which is empty when the map does not track it.
Look(map, name) == IF name \in DOMAIN map THEN map[name] ELSE {}

Held(which, s, name) == Look(Tracked(which)[s], name)

LoginShape ==
    /\ form \in [Reqs -> Surfaces]
    /\ clock \in Nat
    /\ by_key \in [Surfaces -> Maps(Keys)]
    /\ by_peer \in [Surfaces -> Maps(Peers)]
    /\ post \in [Reqs -> Posts]
    /\ permits \in Nat
    /\ hashing \subseteq Reqs
    /\ kept \in [Reqs -> SUBSET Which]

\* A post that has not reserved has no charge, and a hash runs for a post that
\* waits for it or went away.
PostsAreWired ==
    \A r \in Reqs :
        /\ post[r].at <= clock
        /\ post[r].step \in {"new", "arrived", "throttled"} => kept[r] = {}
        /\ post[r].step \notin {"new", "throttled"} => post[r].key \in Keys /\ post[r].peer \in Peers
        /\ r \in hashing => post[r].step \in {"checking", "gone"}

\* No window is over its limit.
WindowsFit ==
    \A which \in Which, s \in Surfaces : \A name \in Names(which) :
        LET w == Held(which, s, name)
        IN  WindowIs(w) /\ Cardinality(w) <= Limit(which)

At == [r \in Reqs |-> post[r].at]

\* Every post that is charged has a charge of its own in the window, or one
\* that a post gone astray took with it.
ChargesAreCovered ==
    \A which \in Which, s \in Surfaces : \A name \in Names(which) :
        Covers(Charged(s, which, name), At, Held(which, s, name), Strayed(s, which, name))

LoginInv == LoginShape /\ PostsAreWired /\ WindowsFit /\ ChargesAreCovered /\ WorkIsBounded

-----------------------------------------------------------------------------
(* Windows.                                                                *)

\* The charges of one instant are the numbers up to their count.
LEMMA CountIs ==
    ASSUME NEW w, WindowIs(w), NEW at \in Nat
    PROVE  /\ Count(w, at) \in Nat
           /\ \A n : <<at, n>> \in w <=> n \in 1 .. Count(w, at)
<1> DEFINE C == {c \in w : c[1] = at}
           N == {n \in Nat \ {0} : <<at, n>> \in w}
           f == [c \in C |-> c[2]]
<1>1. \A c \in C : c = <<at, c[2]>> /\ c[2] \in Nat \ {0}
    BY DEF WindowIs, Charges
<1>2. IsFiniteSet(C) /\ Cardinality(C) \in Nat
    BY FS_Subset, FS_CardinalityType DEF WindowIs
<1>3. f \in Bijection(C, N)
    <2>1. f \in [C -> N]
        BY <1>1
    <2>2. \A a, b \in C : f[a] = f[b] => a = b
        BY <1>1
    <2>3. \A n \in N : <<at, n>> \in C /\ f[<<at, n>>] = n
        OBVIOUS
    <2> QED BY <2>1, <2>2, <2>3 DEF Bijection, Injection, Surjection, IsInjective
<1>4. IsFiniteSet(N) /\ Cardinality(N) = Cardinality(C)
    BY <1>2, <1>3, FS_Bijection DEF ExistsBijection
<1>5. \A n \in N : 1 .. n \subseteq N
    BY DEF WindowIs, Numbered
<1>6. \A n \in N : n <= Cardinality(C)
    <2> SUFFICES ASSUME NEW n \in N PROVE n <= Cardinality(C)
        OBVIOUS
    <2>1. Cardinality(1 .. n) = n
        BY FS_Interval
    <2>2. 1 .. n \in SUBSET N
        BY <1>5
    <2>3. Cardinality(1 .. n) <= Cardinality(N)
        BY <2>2, <1>4, FS_Subset
    <2> QED BY <2>1, <2>3, <1>4
<1>7. N \subseteq 1 .. Cardinality(C)
    BY <1>2, <1>6
<1>8. N = 1 .. Cardinality(C)
    <2>1. IsFiniteSet(1 .. Cardinality(C)) /\ Cardinality(1 .. Cardinality(C)) = Cardinality(C)
        BY <1>2, FS_Interval
    <2> QED BY <2>1, <1>4, <1>7, FS_Subset
<1>9. \A n : <<at, n>> \in w => n \in N
    BY DEF WindowIs, Charges
<1> QED BY <1>2, <1>8, <1>9 DEF Count

LEMMA PruneIs ==
    ASSUME NEW w, WindowIs(w), NEW t \in Nat
    PROVE  /\ WindowIs(prune(w, t))
           /\ Cardinality(prune(w, t)) <= Cardinality(w)
<1>1. prune(w, t) \in SUBSET w
    BY DEF prune
<1>2. Numbered(prune(w, t))
    BY DEF prune, Numbered, WindowIs
<1> QED BY <1>1, <1>2, FS_Subset DEF WindowIs

\* A charge is one more than there were, and is of its instant.
LEMMA ChargeIs ==
    ASSUME NEW w, WindowIs(w), NEW at \in Nat
    PROVE  LET x == <<at, Count(w, at) + 1>>
           IN  /\ x \notin w
               /\ WindowIs(w \cup {x})
               /\ Cardinality(w \cup {x}) = Cardinality(w) + 1
<1> DEFINE x == <<at, Count(w, at) + 1>>
<1>1. Count(w, at) \in Nat /\ \A n : <<at, n>> \in w <=> n \in 1 .. Count(w, at)
    BY CountIs
<1>2. x \notin w
    BY <1>1
<1>3. Numbered(w \cup {x})
    <2> SUFFICES ASSUME NEW c \in w \cup {x}, NEW n \in 1 .. c[2], <<c[1], n>> # x
                 PROVE  <<c[1], n>> \in w
        BY DEF Numbered
    <2>1. CASE c \in w
        BY <2>1 DEF WindowIs, Numbered
    <2>2. CASE c = x
        <3>1. n \in 1 .. (Count(w, at) + 1) /\ n # Count(w, at) + 1
            BY <2>2
        <3> QED BY <2>2, <3>1, <1>1
    <2> QED BY <2>1, <2>2
<1>4. x \in Charges
    BY <1>1 DEF Charges
<1>5. IsFiniteSet(w \cup {x}) /\ Cardinality(w \cup {x}) = Cardinality(w) + 1
    BY <1>2, FS_AddElement DEF WindowIs
<1> QED BY <1>2, <1>3, <1>4, <1>5 DEF WindowIs

LEMMA UnchargeIs ==
    ASSUME NEW w, WindowIs(w), NEW at \in Nat
    PROVE  LET x == <<at, Count(w, at)>>
           IN  WindowIs(w \ {x}) /\ Cardinality(w \ {x}) <= Cardinality(w)
<1> DEFINE x == <<at, Count(w, at)>>
<1>1. Count(w, at) \in Nat /\ \A n : <<at, n>> \in w <=> n \in 1 .. Count(w, at)
    BY CountIs
<1>2. Numbered(w \ {x})
    <2> SUFFICES ASSUME NEW c \in w \ {x}, NEW n \in 1 .. c[2]
                 PROVE  <<c[1], n>> \in w \ {x}
        BY DEF Numbered
    <2>1. <<c[1], n>> \in w
        BY DEF WindowIs, Numbered
    <2>2. c = <<c[1], c[2]>> /\ c[2] \in Nat
        BY DEF WindowIs, Charges
    <2>3. ASSUME <<c[1], n>> = x PROVE FALSE
        <3>1. c[1] = at /\ n = Count(w, at) /\ c[2] # n
            BY <2>2, <2>3
        <3>2. c[2] \in 1 .. Count(w, at)
            BY <1>1, <2>2, <3>1
        <3> QED BY <1>1, <2>2, <3>1, <3>2
    <2> QED BY <2>1, <2>3
<1>3. w \ {x} \in SUBSET w
    OBVIOUS
<1> QED BY <1>2, <1>3, FS_Subset DEF WindowIs

-----------------------------------------------------------------------------
(* Covers.                                                                 *)

LEMMA CoversIs ==
    ASSUME NEW posts, NEW at, NEW w, NEW strays
    PROVE  Covers(posts, at, w, strays) <=>
             \E f \in [posts -> Tokens(w, strays)] :
                /\ \A r \in posts : Stamp(f[r], at) = at[r]
                /\ \A q, r \in posts : f[q] = f[r] => q = r
BY DEF Covers, Injection, IsInjective

LEMMA NoneCovered ==
    ASSUME NEW at, NEW w, NEW strays
    PROVE  Covers({}, at, w, strays)
<1>1. [r \in {} |-> r] \in [{} -> Tokens(w, strays)]
    OBVIOUS
<1> QED BY <1>1, CoversIs

LEMMA CoversBound ==
    ASSUME NEW posts, NEW at, NEW w, NEW strays, IsFiniteSet(w), IsFiniteSet(strays),
           Covers(posts, at, w, strays)
    PROVE  Cardinality(posts) <= Cardinality(w) + Cardinality(strays)
<1> DEFINE T == {1} \X w
           U == {2} \X strays
<1>1. /\ IsFiniteSet({1}) /\ Cardinality({1}) = 1
      /\ IsFiniteSet({2}) /\ Cardinality({2}) = 1
    BY FS_Singleton
<1>2. Cardinality(w) \in Nat /\ Cardinality(strays) \in Nat
    BY FS_CardinalityType
<1>3. IsFiniteSet(T) /\ Cardinality(T) = Cardinality(w)
    <2>1. /\ IsFiniteSet({1} \X w)
          /\ Cardinality({1} \X w) = Cardinality({1}) * Cardinality(w)
        BY <1>1, FS_Product, Zenon
    <2> QED BY <1>1, <1>2, <2>1
<1>4. IsFiniteSet(U) /\ Cardinality(U) = Cardinality(strays)
    <2>1. /\ IsFiniteSet({2} \X strays)
          /\ Cardinality({2} \X strays) = Cardinality({2}) * Cardinality(strays)
        BY <1>1, FS_Product, Zenon
    <2> QED BY <1>1, <1>2, <2>1
<1>5. T \cap U = {}
    OBVIOUS
<1> HIDE DEF T, U
<1>6. IsFiniteSet(T \cup U) /\ Cardinality(T \cup U) = Cardinality(w) + Cardinality(strays)
    <2>1. Cardinality(T \cap U) = 0
        BY <1>5, FS_EmptySet
    <2>2. /\ IsFiniteSet(T \cup U)
          /\ Cardinality(T \cup U) = Cardinality(T) + Cardinality(U) - Cardinality(T \cap U)
        BY <1>3, <1>4, FS_Union, Zenon
    <2> QED BY <1>2, <1>3, <1>4, <2>1, <2>2
<1>7. PICK f \in Injection(posts, T \cup U) : TRUE
    BY DEF Covers, Tokens, T, U
<1> QED BY <1>6, <1>7, FS_Injection

\* Fewer posts, more posts astray, and a window that keeps their charges.
LEMMA CoversKeep ==
    ASSUME NEW posts, NEW at, NEW w, NEW strays, NEW kposts, NEW kat, NEW kw, NEW kstrays,
           Covers(posts, at, w, strays), kposts \subseteq posts, strays \subseteq kstrays,
           \A r \in posts \cup strays : kat[r] = at[r],
           \A c \in w : (\E r \in kposts : at[r] = c[1]) => c \in kw
    PROVE  Covers(kposts, kat, kw, kstrays)
<1>1. PICK f \in [posts -> Tokens(w, strays)] :
                /\ \A r \in posts : Stamp(f[r], at) = at[r]
                /\ \A q, r \in posts : f[q] = f[r] => q = r
    BY CoversIs
<1> DEFINE g == [r \in kposts |-> f[r]]
<1>2. \A r \in kposts : f[r] \in Tokens(kw, kstrays) /\ Stamp(f[r], kat) = kat[r]
    <2> SUFFICES ASSUME NEW r \in kposts
                 PROVE  f[r] \in Tokens(kw, kstrays) /\ Stamp(f[r], kat) = kat[r]
        OBVIOUS
    <2>1. f[r] \in Tokens(w, strays) /\ Stamp(f[r], at) = at[r] /\ kat[r] = at[r]
        BY <1>1
    <2>2. CASE f[r] \in {1} \X w
        <3>1. PICK c \in w : f[r] = <<1, c>>
            BY <2>2
        <3>2. Stamp(f[r], at) = c[1] /\ Stamp(f[r], kat) = c[1]
            BY <3>1 DEF Stamp
        <3>3. c \in kw
            BY <2>1, <3>2
        <3> QED BY <2>1, <3>1, <3>2, <3>3 DEF Tokens
    <2>3. CASE f[r] \in {2} \X strays
        <3>1. PICK q \in strays : f[r] = <<2, q>>
            BY <2>3
        <3>2. Stamp(f[r], at) = at[q] /\ Stamp(f[r], kat) = kat[q]
            BY <3>1 DEF Stamp
        <3> QED BY <2>1, <3>1, <3>2 DEF Tokens
    <2> QED BY <2>1, <2>2, <2>3 DEF Tokens
<1>3. g \in [kposts -> Tokens(kw, kstrays)]
    BY <1>2
<1>4. \A q, r \in kposts : g[q] = g[r] => q = r
    BY <1>1
<1>5. \A r \in kposts : Stamp(g[r], kat) = kat[r]
    BY <1>2
<1> QED BY <1>3, <1>4, <1>5, CoversIs

\* A new post with a new charge.
LEMMA CoversAdd ==
    ASSUME NEW posts, NEW at, NEW w, NEW strays, Covers(posts, at, w, strays),
           NEW r, r \notin posts, NEW x, x \notin w, x[1] = at[r]
    PROVE  Covers(posts \cup {r}, at, w \cup {x}, strays)
<1>1. PICK f \in [posts -> Tokens(w, strays)] :
                /\ \A q \in posts : Stamp(f[q], at) = at[q]
                /\ \A p, q \in posts : f[p] = f[q] => p = q
    BY CoversIs
<1> DEFINE g == [q \in posts \cup {r} |-> IF q = r THEN <<1, x>> ELSE f[q]]
<1>2. Tokens(w, strays) \subseteq Tokens(w \cup {x}, strays) /\ <<1, x>> \in Tokens(w \cup {x}, strays)
    BY DEF Tokens
<1>3. <<1, x>> \notin Tokens(w, strays)
    BY DEF Tokens
<1>4. g \in [posts \cup {r} -> Tokens(w \cup {x}, strays)]
    BY <1>2
<1>5. Stamp(<<1, x>>, at) = at[r]
    BY DEF Stamp
<1>6. \A q \in posts : g[q] = f[q] /\ g[q] # <<1, x>>
    BY <1>3
<1>7. g[r] = <<1, x>>
    OBVIOUS
<1> HIDE DEF g
<1>8. \A q \in posts \cup {r} : Stamp(g[q], at) = at[q]
    BY <1>1, <1>5, <1>6, <1>7
<1>9. \A p, q \in posts \cup {r} : g[p] = g[q] => p = q
    BY <1>1, <1>6, <1>7
<1> QED BY <1>4, <1>8, <1>9, CoversIs

\* A charge is taken back for the post it was counted for, or for another: then
\* what stood for the one stands for the other.
LEMMA CoversOwn ==
    ASSUME NEW posts, NEW at, NEW w, NEW strays, Covers(posts, at, w, strays),
           NEW r \in posts, NEW x, x[1] = at[r]
    PROVE  Covers(posts \ {r}, at, w \ {x}, strays)
<1>1. PICK f \in [posts -> Tokens(w, strays)] :
                /\ \A q \in posts : Stamp(f[q], at) = at[q]
                /\ \A p, q \in posts : f[p] = f[q] => p = q
    BY CoversIs
<1> DEFINE g == [q \in posts \ {r} |-> IF f[q] = <<1, x>> THEN f[r] ELSE f[q]]
<1>2. \A t \in Tokens(w, strays) : t # <<1, x>> => t \in Tokens(w \ {x}, strays)
    BY DEF Tokens
<1>3. Stamp(<<1, x>>, at) = at[r]
    BY DEF Stamp
<1>4. \A q \in posts \ {r} :
        /\ g[q] = IF f[q] = <<1, x>> THEN f[r] ELSE f[q]
        /\ g[q] \in Tokens(w, strays) /\ g[q] # <<1, x>>
    <2>1. \A q \in posts \ {r} : f[q] \in Tokens(w, strays) /\ f[q] # f[r]
        BY <1>1
    <2>2. f[r] \in Tokens(w, strays)
        BY <1>1
    <2> QED BY <2>1, <2>2
<1>5. g \in [posts \ {r} -> Tokens(w \ {x}, strays)]
    BY <1>2, <1>4
<1> HIDE DEF g
<1>6. \A q \in posts \ {r} : Stamp(g[q], at) = at[q]
    BY <1>1, <1>3, <1>4
<1>7. \A p, q \in posts \ {r} : g[p] = g[q] => p = q
    BY <1>1, <1>4
<1> QED BY <1>5, <1>6, <1>7, CoversIs

\* A charge is taken back for a post that is not counted. Whoever had it is
\* stood for by that post.
LEMMA CoversStray ==
    ASSUME NEW posts, NEW at, NEW w, NEW strays, Covers(posts, at, w, strays),
           NEW r, r \notin strays, NEW x, x[1] = at[r]
    PROVE  Covers(posts, at, w \ {x}, strays \cup {r})
<1>1. PICK f \in [posts -> Tokens(w, strays)] :
                /\ \A q \in posts : Stamp(f[q], at) = at[q]
                /\ \A p, q \in posts : f[p] = f[q] => p = q
    BY CoversIs
<1> DEFINE g == [q \in posts |-> IF f[q] = <<1, x>> THEN <<2, r>> ELSE f[q]]
<1>2. \A t \in Tokens(w, strays) : t # <<1, x>> => t \in Tokens(w \ {x}, strays \cup {r})
    BY DEF Tokens
<1>3. <<2, r>> \in Tokens(w \ {x}, strays \cup {r}) /\ <<2, r>> \notin Tokens(w, strays)
    BY DEF Tokens
<1>4. Stamp(<<1, x>>, at) = at[r] /\ Stamp(<<2, r>>, at) = at[r]
    BY DEF Stamp
<1>5. \A q \in posts : g[q] = IF f[q] = <<1, x>> THEN <<2, r>> ELSE f[q]
    OBVIOUS
<1>6. g \in [posts -> Tokens(w \ {x}, strays \cup {r})]
    BY <1>1, <1>2, <1>3
<1> HIDE DEF g
<1>7. \A q \in posts : Stamp(g[q], at) = at[q]
    BY <1>1, <1>4, <1>5
<1>8. \A p, q \in posts : g[p] = g[q] => p = q
    <2>1. \A q \in posts : f[q] # <<2, r>>
        BY <1>1, <1>3
    <2> QED BY <1>1, <1>5, <2>1
<1> QED BY <1>6, <1>7, <1>8, CoversIs
-----------------------------------------------------------------------------
(* Maps.                                                                   *)

LEMMA EmptyMap == DOMAIN <<>> = {} /\ \A names : <<>> \in Maps(names)
<1>1. DOMAIN <<>> = {}
    OBVIOUS
<1>2. <<>> \in [{} -> SUBSET Charges]
    OBVIOUS
<1> QED BY <1>1, <1>2 DEF Maps

LEMMA MapIs ==
    ASSUME NEW names, NEW map
    PROVE  map \in Maps(names) <=>
             /\ map = [n \in DOMAIN map |-> map[n]]
             /\ DOMAIN map \subseteq names
             /\ \A n \in DOMAIN map : map[n] \subseteq Charges
<1>1. ASSUME map \in Maps(names)
      PROVE  /\ map = [n \in DOMAIN map |-> map[n]]
             /\ DOMAIN map \subseteq names
             /\ \A n \in DOMAIN map : map[n] \subseteq Charges
    <2>1. PICK S \in SUBSET names : map \in [S -> SUBSET Charges]
        BY <1>1 DEF Maps
    <2> QED BY <2>1
<1>2. ASSUME map = [n \in DOMAIN map |-> map[n]], DOMAIN map \subseteq names,
             \A n \in DOMAIN map : map[n] \subseteq Charges
      PROVE  map \in Maps(names)
    <2>1. map \in [DOMAIN map -> SUBSET Charges]
        BY <1>2
    <2> QED BY <1>2, <2>1 DEF Maps
<1> QED BY <1>1, <1>2

\* What a window is after the clear that a full map undergoes.
Left(map, name, other) == IF Full(map, name) THEN {} ELSE Look(map, other)

\* A window of a post that may be charged.
Charging(w, at, charge) == IF charge THEN w \cup {<<at, Count(w, at) + 1>>} ELSE w

LEMMA EntryIs ==
    ASSUME NEW map, NEW name
    PROVE  Entry(map, name)[name] = Left(map, name, name)
BY EmptyMap DEF Entry, Left, Look

\* A reservation changes the window of its own name, and clears a full map.
LEMMA ChargedMap ==
    ASSUME NEW names, NEW map \in Maps(names), NEW name \in names, NEW at \in Nat, NEW charge \in BOOLEAN,
           WindowIs(Left(map, name, name))
    PROVE  /\ Charge(Entry(map, name), name, at, charge) \in Maps(names)
           /\ \A other \in names : Look(Charge(Entry(map, name), name, at, charge), other) =
                  IF other = name THEN Charging(prune(Left(map, name, name), at), at, charge)
                  ELSE Left(map, name, other)
<1> DEFINE E == Entry(map, name)
           w == prune(Left(map, name, name), at)
           new == Charging(w, at, charge)
           left == IF Full(map, name) THEN <<>> ELSE map
<1>1. DOMAIN map \subseteq names /\ \A n \in DOMAIN map : map[n] \subseteq Charges
    BY MapIs
<1>2. DOMAIN left \subseteq names
    BY <1>1, EmptyMap
<1>3. \A n : Look(left, n) = Left(map, name, n)
    BY EmptyMap DEF Left, Look
<1>4. E = [n \in DOMAIN left \cup {name} |-> Look(left, n)]
    BY DEF Entry, Look
<1> HIDE DEF left, E
<1>5. E[name] = Left(map, name, name)
    BY EntryIs DEF E
<1>6. Charge(E, name, at, charge) = [E EXCEPT ![name] = new]
    BY <1>5, Zenon DEF Charge, Charging
<1> DEFINE M == [E EXCEPT ![name] = new]
<1>7. DOMAIN M = DOMAIN left \cup {name}
    BY <1>4
<1>8. M[name] = new /\ \A n \in DOMAIN M : n # name => M[n] = Left(map, name, n)
    BY <1>3, <1>4, <1>7
<1>9. new \subseteq Charges
    BY PruneIs, ChargeIs DEF WindowIs, Charging
<1>10. M = [n \in DOMAIN M |-> M[n]]
    BY <1>4
<1> HIDE DEF M, new
<1>11. M \in Maps(names)
    <2>1. \A n \in DOMAIN M : M[n] \subseteq Charges
        BY <1>1, <1>8, <1>9 DEF Left, Look
    <2> QED BY <1>2, <1>7, <1>10, <2>1, MapIs
<1>12. \A other \in names : Look(M, other) = IF other = name THEN new ELSE Left(map, name, other)
    <2> SUFFICES ASSUME NEW other \in names
                 PROVE  Look(M, other) = IF other = name THEN new ELSE Left(map, name, other)
        OBVIOUS
    <2>1. CASE other \in DOMAIN M
        BY <1>7, <1>8, <2>1 DEF Look
    <2>2. CASE other \notin DOMAIN M
        BY <1>3, <1>7, <2>2 DEF Look
    <2> QED BY <2>1, <2>2
<1> QED BY <1>6, <1>11, <1>12 DEF E, M, new

LEMMA ClearedMap ==
    ASSUME NEW names, NEW map \in Maps(names), NEW name
    PROVE  /\ Cleared(map, name) \in Maps(names)
           /\ \A other : Look(Cleared(map, name), other) = Left(map, name, other)
BY EmptyMap DEF Cleared, Left, Look

\* A release takes one charge of its instant from the window of its name.
LEMMA RemovedMap ==
    ASSUME NEW names, NEW map \in Maps(names), NEW name, NEW at
    PROVE  /\ remove_one(map, name, at) \in Maps(names)
           /\ \A other : Look(remove_one(map, name, at), other) =
                  IF other = name THEN Look(map, name) \ {<<at, Count(Look(map, name), at)>>}
                  ELSE Look(map, other)
<1>1. CASE name \notin DOMAIN map
    BY <1>1 DEF remove_one, Look
<1>2. CASE name \in DOMAIN map
    <2> DEFINE x == <<at, Count(map[name], at)>>
               M == [map EXCEPT ![name] = map[name] \ {x}]
    <2>1. remove_one(map, name, at) = M /\ Look(map, name) = map[name]
        BY <1>2, Zenon DEF remove_one, Look
    <2>2. /\ map = [n \in DOMAIN map |-> map[n]]
          /\ DOMAIN map \subseteq names
          /\ \A n \in DOMAIN map : map[n] \subseteq Charges
        BY MapIs
    <2> HIDE DEF x
    <2>3. DOMAIN M = DOMAIN map /\ M = [n \in DOMAIN M |-> M[n]]
        OBVIOUS
    <2>4. M[name] = map[name] \ {x} /\ \A n \in DOMAIN map : n # name => M[n] = map[n]
        BY <1>2
    <2> HIDE DEF M
    <2>5. M \in Maps(names)
        <3>1. \A n \in DOMAIN M : M[n] \subseteq Charges
            BY <1>2, <2>2, <2>3, <2>4
        <3> QED BY <2>2, <2>3, <3>1, MapIs
    <2>6. \A other : Look(M, other) = IF other = name THEN map[name] \ {x} ELSE Look(map, other)
        BY <1>2, <2>3, <2>4 DEF Look
    <2> QED BY <2>1, <2>5, <2>6 DEF x
<1> QED BY <1>1, <1>2
-----------------------------------------------------------------------------
(* Posts.                                                                  *)

Name(which, r) == IF which = "key" THEN post[r].key ELSE post[r].peer

LEMMA ChargedIs ==
    ASSUME LoginShape, NEW which \in Which
    PROVE  /\ \A s, name : Charged(s, which, name) =
                {r \in Reqs : /\ form[r] = s /\ which \in kept[r] /\ Name(which, r) = name
                              /\ post[r].step # "released" /\ clock < post[r].at + Window}
           /\ \A s, name : Strayed(s, which, name) =
                {r \in Reqs : /\ form[r] = s /\ which \notin kept[r] /\ Name(which, r) = name
                              /\ post[r].step = "released"}
<1>1. \A r \in Reqs : post[r][which] = Name(which, r)
    <2>1. \A r \in Reqs : post[r]["key"] = post[r].key /\ post[r]["peer"] = post[r].peer
        BY DEF LoginShape, Posts
    <2> QED BY <2>1 DEF Which, Name
<1> QED BY <1>1 DEF Charged, Strayed

\* The same of the next state.
LEMMA ChargedIsNext ==
    ASSUME LoginShape', NEW which \in Which
    PROVE  /\ \A s, name : Charged(s, which, name)' =
                {r \in Reqs : /\ form'[r] = s /\ which \in kept'[r] /\ Name(which, r)' = name
                              /\ post'[r].step # "released" /\ clock' < post'[r].at + Window}
           /\ \A s, name : Strayed(s, which, name)' =
                {r \in Reqs : /\ form'[r] = s /\ which \notin kept'[r] /\ Name(which, r)' = name
                              /\ post'[r].step = "released"}
<1>1. \A r \in Reqs : post'[r][which] = Name(which, r)'
    <2>1. \A r \in Reqs : post'[r]["key"] = post'[r].key /\ post'[r]["peer"] = post'[r].peer
        BY DEF LoginShape, Posts
    <2> QED BY <2>1 DEF Which, Name
<1> QED BY <1>1 DEF Charged, Strayed

LEMMA LimitIs ==
    /\ per_minute \in Nat \ {0} /\ PeerMultiplier \in Nat \ {0} /\ Window \in Nat \ {0}
    /\ \A which \in Which : Limit(which) \in Nat
<1>1. per_minute \in Nat \ {0} /\ PeerMultiplier \in Nat \ {0} /\ Window \in Nat \ {0}
    BY LimiterAssumption DEF per_minute
<1>2. per_minute * PeerMultiplier \in Nat
    BY <1>1
<1> QED BY <1>1, <1>2 DEF Limit

LEMMA LoginInitInv == LoginInit => LoginInv
<1> SUFFICES ASSUME LoginInit PROVE LoginInv
    OBVIOUS
<1>1. LoginShape
    <2>1. form \in [Reqs -> Surfaces]
        BY LimiterAssumption DEF LoginInit, Surfaces
    <2>2. by_key \in [Surfaces -> Maps(Keys)] /\ by_peer \in [Surfaces -> Maps(Peers)]
        BY EmptyMap DEF LoginInit
    <2>3. post \in [Reqs -> Posts]
        BY DEF LoginInit, Unsent, Posts, LoginSteps
    <2> QED BY <2>1, <2>2, <2>3, LimiterAssumption DEF LoginInit, LoginShape
<1>2. PostsAreWired
    <2>1. \A r \in Reqs : post[r] = Unsent /\ kept[r] = {} /\ r \notin hashing
        BY DEF LoginInit
    <2>2. Unsent.step = "new" /\ Unsent.at = 0
        BY DEF Unsent
    <2>3. clock = 0
        BY DEF LoginInit
    <2> QED BY <2>1, <2>2, <2>3 DEF PostsAreWired
<1>3. \A which \in Which, s \in Surfaces : \A name : Held(which, s, name) = {}
    BY EmptyMap DEF LoginInit, Held, Look, Tracked
<1>4. WindowIs({}) /\ Cardinality({}) = 0
    BY FS_EmptySet DEF WindowIs, Numbered
<1>5. WindowsFit
    BY <1>3, <1>4, LimitIs DEF WindowsFit
<1>6. \A which \in Which, s \in Surfaces : \A name : Charged(s, which, name) = {}
    BY <1>1, ChargedIs DEF LoginInit
<1>7. ChargesAreCovered
    BY <1>6, NoneCovered DEF ChargesAreCovered
<1>8. WorkIsBounded
    BY <1>4, LimiterAssumption DEF LoginInit, WorkIsBounded
<1> QED BY <1>1, <1>2, <1>5, <1>7, <1>8 DEF LoginInv

\* What leaves the windows alone, charges no post and lets none go astray.
LEMMA QuietWindows ==
    ASSUME LoginInv, LoginShape', clock <= clock', UNCHANGED <<form, by_key, by_peer, kept>>,
           \A r \in Reqs : /\ post[r].step # "new" => /\ post'[r].key = post[r].key
                                                      /\ post'[r].peer = post[r].peer
                                                      /\ post'[r].at = post[r].at
                           /\ post'[r].step = "released" <=> post[r].step = "released"
    PROVE  WindowsFit' /\ ChargesAreCovered'
<1> USE DEF LoginInv
<1>1. \A which, s, name : Held(which, s, name)' = Held(which, s, name)
    BY DEF Held, Tracked, Look
<1>2. WindowsFit'
    BY <1>1 DEF WindowsFit
<1>3. ASSUME NEW which \in Which, NEW s \in Surfaces, NEW name \in Names(which)
      PROVE  Covers(Charged(s, which, name)', At', Held(which, s, name)', Strayed(s, which, name)')
    <2>1. \A r \in Reqs : post[r].at \in Nat /\ post'[r].at \in Nat /\ clock \in Nat /\ clock' \in Nat
        BY DEF LoginShape, Posts
    <2>2. \A r \in Reqs : which \in kept[r] \/ post[r].step = "released" =>
                 Name(which, r)' = Name(which, r) /\ post'[r].at = post[r].at
        BY DEF PostsAreWired, Name
    <2>3. Charged(s, which, name)' \subseteq Charged(s, which, name)
        <3>1. \A r \in Reqs : clock' < post'[r].at + Window /\ post'[r].at = post[r].at
                                => clock < post[r].at + Window
            BY <2>1, LimitIs
        <3> QED BY <2>2, <3>1, ChargedIs, ChargedIsNext
    <2>4. Strayed(s, which, name)' = Strayed(s, which, name)
        <3>1. \A r \in Reqs : r \in Strayed(s, which, name)' <=> r \in Strayed(s, which, name)
            BY <2>2, ChargedIs, ChargedIsNext
        <3> QED BY <3>1 DEF Strayed
    <2>5. \A r \in Charged(s, which, name) \cup Strayed(s, which, name) : At'[r] = At[r]
        BY <2>2, ChargedIs DEF At
    <2>6. Covers(Charged(s, which, name), At, Held(which, s, name), Strayed(s, which, name))
        BY DEF ChargesAreCovered
    <2> QED BY <1>1, <2>3, <2>4, <2>5, <2>6, CoversKeep
<1> QED BY <1>2, <1>3 DEF ChargesAreCovered

LEMMA TickInv == ASSUME LoginInv, Tick PROVE LoginInv'
<1> USE DEF LoginInv, Tick
<1>1. clock' \in Nat /\ clock <= clock'
    BY DEF LoginShape
<1>2. LoginShape'
    BY <1>1 DEF LoginShape
<1>3. PostsAreWired'
    <2>1. \A r \in Reqs : post[r].at \in Nat /\ clock \in Nat
        BY DEF LoginShape, Posts
    <2> QED BY <1>1, <2>1 DEF PostsAreWired
<1>4. WindowsFit' /\ ChargesAreCovered'
    BY <1>1, <1>2, QuietWindows
<1> QED BY <1>2, <1>3, <1>4 DEF WorkIsBounded

\* A post that goes on its way without a charge or a release.
LEMMA StepInv ==
    ASSUME LoginInv, NEW r \in Reqs, NEW p \in Posts,
           post' = [post EXCEPT ![r] = p], UNCHANGED <<form, clock, by_key, by_peer, kept>>,
           /\ post[r].step # "new" => p.key = post[r].key /\ p.peer = post[r].peer /\ p.at = post[r].at
           /\ p.step # "released" /\ post[r].step # "released"
           /\ p.at <= clock /\ p.key \in Keys /\ p.peer \in Peers
           /\ p.step \in {"new", "arrived", "throttled"} => kept[r] = {}
           /\ \A q \in hashing' : IF q = r THEN p.step \in {"checking", "gone"} ELSE q \in hashing,
           hashing' \subseteq Reqs, permits' \in Nat, WorkIsBounded'
    PROVE  LoginInv'
<1> USE DEF LoginInv
<1>1. \A q \in Reqs : post'[q] = IF q = r THEN p ELSE post[q]
    BY DEF LoginShape
<1>2. LoginShape'
    BY DEF LoginShape
<1>3. PostsAreWired'
    BY <1>1 DEF PostsAreWired
<1>4. clock <= clock'
    BY DEF LoginShape
<1>5. WindowsFit' /\ ChargesAreCovered'
    BY <1>1, <1>2, <1>4, QuietWindows
<1> QED BY <1>2, <1>3, <1>5

LEMMA PermitIs ==
    ASSUME LoginInv, NEW r \in Reqs
    PROVE  /\ r \notin hashing /\ permits > 0 =>
                permits - 1 \in Nat /\ permits - 1 + Cardinality(hashing \cup {r}) = Permits
           /\ r \in hashing => permits + 1 + Cardinality(hashing \ {r}) = Permits
<1>1. IsFiniteSet(hashing) /\ Cardinality(hashing) \in Nat
    BY LimiterAssumption, FS_Subset, FS_CardinalityType DEF LoginInv, LoginShape
<1>2. permits \in Nat /\ permits + Cardinality(hashing) = Permits
    BY DEF LoginInv, LoginShape, WorkIsBounded
<1>3. r \notin hashing => Cardinality(hashing \cup {r}) = Cardinality(hashing) + 1
    BY <1>1, FS_AddElement
<1>4. r \in hashing => Cardinality(hashing \ {r}) = Cardinality(hashing) - 1
    BY <1>1, FS_RemoveElement
<1> QED BY <1>1, <1>2, <1>3, <1>4
LEMMA ArriveInv ==
    ASSUME LoginInv, NEW r \in Reqs, NEW k \in Keys, NEW p \in Peers, arrive(r, k, p)
    PROVE  LoginInv'
<1> DEFINE new == [step |-> "arrived", key |-> k, peer |-> p, at |-> clock]
<1>1. new \in Posts /\ new.step = "arrived" /\ new.at = clock /\ new.key = k /\ new.peer = p
    BY DEF LoginInv, LoginShape, Posts, LoginSteps
<1>2. post' = [post EXCEPT ![r] = new]
    BY DEF arrive
<1> HIDE DEF new
<1>3. post[r].step = "new" /\ kept[r] = {} /\ r \notin hashing
    BY DEF arrive, LoginInv, PostsAreWired
<1>4. new.at <= clock
    BY <1>1 DEF LoginInv, LoginShape
<1>5. UNCHANGED <<form, clock, by_key, by_peer, permits, hashing, kept>>
    BY DEF arrive
<1>6. hashing' \subseteq Reqs /\ permits' \in Nat /\ WorkIsBounded'
    BY <1>5 DEF LoginInv, LoginShape, WorkIsBounded
<1> QED BY <1>1, <1>2, <1>3, <1>4, <1>5, <1>6, StepInv

\* A post that changes its step only.
LEMMA StepOnlyInv ==
    ASSUME LoginInv, NEW r \in Reqs, NEW step \in LoginSteps,
           post' = [post EXCEPT ![r].step = step], UNCHANGED <<form, clock, by_key, by_peer, kept>>,
           post[r].step \in {"reserved", "checking", "gone"},
           step \notin {"new", "arrived", "throttled", "released"},
           \A q \in hashing' : IF q = r THEN step \in {"checking", "gone"} ELSE q \in hashing,
           hashing' \subseteq Reqs, permits' \in Nat, WorkIsBounded'
    PROVE  LoginInv'
<1> DEFINE new == [post[r] EXCEPT !.step = step]
<1>1. post[r] \in Posts
    BY DEF LoginInv, LoginShape
<1>2. /\ new \in Posts /\ new.step = step
      /\ new.key = post[r].key /\ new.peer = post[r].peer /\ new.at = post[r].at
    BY <1>1 DEF Posts
<1>3. post' = [post EXCEPT ![r] = new]
    OBVIOUS
<1> HIDE DEF new
<1>4. post[r].key \in Keys /\ post[r].peer \in Peers /\ post[r].at <= clock
    BY DEF LoginInv, PostsAreWired
<1>5. /\ new.at <= clock /\ new.key \in Keys /\ new.peer \in Peers
      /\ new.step \notin {"new", "arrived", "throttled"} /\ new.step # "released"
      /\ post[r].step # "released"
      /\ \A q \in hashing' : IF q = r THEN new.step \in {"checking", "gone"} ELSE q \in hashing
    BY <1>2, <1>4
<1> QED BY <1>2, <1>3, <1>5, StepInv

LEMMA VerifyInv == ASSUME LoginInv, NEW r \in Reqs, verify_owner_password(r) PROVE LoginInv'
<1>1. /\ r \in hashing /\ hashing' = hashing \ {r} /\ permits' = permits + 1
      /\ UNCHANGED <<form, clock, by_key, by_peer, kept>>
    BY DEF verify_owner_password
<1>2. hashing' \subseteq Reqs /\ permits' \in Nat /\ WorkIsBounded'
    BY <1>1, PermitIs DEF LoginInv, LoginShape, WorkIsBounded
<1>3. CASE post[r].step = "checking"
    <2>1. PICK ok \in {"right", "wrong"} : post' = [post EXCEPT ![r].step = ok]
        BY <1>3 DEF verify_owner_password
    <2>2. ok \in LoginSteps
        BY DEF LoginSteps
    <2> QED BY <1>1, <1>2, <1>3, <2>1, <2>2, StepOnlyInv
<1>4. CASE post[r].step = "gone" /\ UNCHANGED post
    <2>1. post' = [post EXCEPT ![r].step = "gone"]
        BY <1>4 DEF LoginInv, LoginShape, Posts
    <2>2. "gone" \in LoginSteps
        BY DEF LoginSteps
    <2> QED BY <1>1, <1>2, <1>4, <2>1, <2>2, StepOnlyInv
<1> QED BY <1>3, <1>4 DEF verify_owner_password

LEMMA GoneInv == ASSUME LoginInv, NEW r \in Reqs, Gone(r) PROVE LoginInv'
<1>1. /\ post[r].step = "checking" /\ post' = [post EXCEPT ![r].step = "gone"]
      /\ UNCHANGED <<form, clock, by_key, by_peer, permits, hashing, kept>>
    BY DEF Gone
<1>2. hashing' \subseteq Reqs /\ permits' \in Nat /\ WorkIsBounded'
    BY <1>1 DEF LoginInv, LoginShape, WorkIsBounded
<1>3. "gone" \in LoginSteps
    BY DEF LoginSteps
<1> QED BY <1>1, <1>2, <1>3, StepOnlyInv

-----------------------------------------------------------------------------
(* A release.                                                              *)

LEMMA ReleaseHeld ==
    ASSUME LoginInv, NEW r \in Reqs, post[r].step \in {"reserved", "right"}, release(r)
    PROVE  /\ by_key' \in [Surfaces -> Maps(Keys)] /\ by_peer' \in [Surfaces -> Maps(Peers)]
           /\ \A which \in Which, s \in Surfaces : \A name :
                Held(which, s, name)' =
                    IF s = form[r] /\ name = Name(which, r)
                    THEN Held(which, s, name) \ {<<post[r].at, Count(Held(which, s, name), post[r].at)>>}
                    ELSE Held(which, s, name)
<1> USE DEF LoginInv
<1> DEFINE s == form[r]
           p == post[r]
           keys == remove_one(by_key[s], p.key, p.at)
           peers == remove_one(by_peer[s], p.peer, p.at)
<1>1. /\ s \in Surfaces
      /\ by_key \in [Surfaces -> Maps(Keys)] /\ by_peer \in [Surfaces -> Maps(Peers)]
    BY DEF LoginShape
<1>2. /\ by_key' = [by_key EXCEPT ![s] = keys] /\ by_peer' = [by_peer EXCEPT ![s] = peers]
    BY DEF release
<1>3. /\ keys \in Maps(Keys)
      /\ \A other : Look(keys, other) =
            IF other = p.key THEN Look(by_key[s], p.key) \ {<<p.at, Count(Look(by_key[s], p.key), p.at)>>}
            ELSE Look(by_key[s], other)
    BY <1>1, RemovedMap
<1>4. /\ peers \in Maps(Peers)
      /\ \A other : Look(peers, other) =
            IF other = p.peer THEN Look(by_peer[s], p.peer) \ {<<p.at, Count(Look(by_peer[s], p.peer), p.at)>>}
            ELSE Look(by_peer[s], other)
    BY <1>1, RemovedMap
<1> HIDE DEF keys, peers, s, p
<1>5. \A t \in Surfaces : /\ by_key'[t] = IF t = s THEN keys ELSE by_key[t]
                          /\ by_peer'[t] = IF t = s THEN peers ELSE by_peer[t]
    BY <1>1, <1>2
<1>6. \A t \in Surfaces : \A name :
          /\ Held("key", t, name)' = Look(by_key'[t], name) /\ Held("key", t, name) = Look(by_key[t], name)
          /\ Held("peer", t, name)' = Look(by_peer'[t], name) /\ Held("peer", t, name) = Look(by_peer[t], name)
    BY DEF Held, Tracked, Look
<1>7. Name("key", r) = p.key /\ Name("peer", r) = p.peer
    BY DEF Name, p
<1>8. \A t \in Surfaces : \A name :
          Held("key", t, name)' = IF t = s /\ name = p.key
                                  THEN Held("key", t, name) \ {<<p.at, Count(Held("key", t, name), p.at)>>}
                                  ELSE Held("key", t, name)
    BY <1>3, <1>5, <1>6
<1>9. \A t \in Surfaces : \A name :
          Held("peer", t, name)' = IF t = s /\ name = p.peer
                                   THEN Held("peer", t, name) \ {<<p.at, Count(Held("peer", t, name), p.at)>>}
                                   ELSE Held("peer", t, name)
    BY <1>4, <1>5, <1>6
<1>10. by_key' \in [Surfaces -> Maps(Keys)] /\ by_peer' \in [Surfaces -> Maps(Peers)]
    BY <1>1, <1>2, <1>3, <1>4
<1> QED BY <1>7, <1>8, <1>9, <1>10 DEF Which, s, p

LEMMA ReleaseInv ==
    ASSUME LoginInv, NEW r \in Reqs, post[r].step \in {"reserved", "right"}, release(r),
           UNCHANGED <<form, clock, permits, hashing, kept>>
    PROVE  LoginInv'
<1> USE DEF LoginInv
<1> DEFINE p == post[r]
<1>1. p \in Posts /\ p.at \in Nat /\ clock \in Nat
    BY DEF LoginShape, Posts
<1>2. \A q \in Reqs : post'[q] = IF q = r THEN [p EXCEPT !.step = "released"] ELSE post[q]
    BY DEF release, LoginShape
<1>3. \A q \in Reqs : /\ post'[q].key = post[q].key /\ post'[q].peer = post[q].peer
                      /\ post'[q].at = post[q].at
                      /\ post'[q].step = IF q = r THEN "released" ELSE post[q].step
    BY <1>1, <1>2 DEF Posts
<1>4. LoginShape'
    <2>1. post' \in [Reqs -> Posts]
        <3>1. [p EXCEPT !.step = "released"] \in Posts
            BY <1>1 DEF Posts, LoginSteps
        <3> QED BY <3>1 DEF release, LoginShape
    <2> QED BY <2>1, ReleaseHeld DEF LoginShape
<1>5. PostsAreWired'
    BY <1>3 DEF PostsAreWired
<1>6. WindowsFit'
    <2> SUFFICES ASSUME NEW which \in Which, NEW s \in Surfaces, NEW name \in Names(which)
                 PROVE  WindowIs(Held(which, s, name)') /\ Cardinality(Held(which, s, name)') <= Limit(which)
        BY DEF WindowsFit, Names, Limit, per_minute
    <2> DEFINE w == Held(which, s, name)
    <2>1. WindowIs(w) /\ Cardinality(w) <= Limit(which)
        BY DEF WindowsFit
    <2>2. Held(which, s, name)' = w \/ Held(which, s, name)' = w \ {<<p.at, Count(w, p.at)>>}
        BY ReleaseHeld
    <2> HIDE DEF w, p
    <2>3. LET x == <<p.at, Count(w, p.at)>>
          IN  WindowIs(w \ {x}) /\ Cardinality(w \ {x}) <= Cardinality(w)
        BY <1>1, <2>1, UnchargeIs
    <2>4. Limit(which) \in Nat /\ Cardinality(w) \in Nat /\ Cardinality(w \ {<<p.at, Count(w, p.at)>>}) \in Nat
        BY <2>1, <2>3, LimitIs, FS_CardinalityType DEF WindowIs
    <2> QED BY <2>1, <2>2, <2>3, <2>4
<1>7. ASSUME NEW which \in Which, NEW s \in Surfaces, NEW name \in Names(which)
      PROVE  Covers(Charged(s, which, name)', At', Held(which, s, name)', Strayed(s, which, name)')
    <2> DEFINE C == Charged(s, which, name)
               S == Strayed(s, which, name)
               w == Held(which, s, name)
               x == <<p.at, Count(w, p.at)>>
    <2>1. Covers(C, At, w, S)
        BY DEF ChargesAreCovered
    <2>2. \A q : At'[q] = At[q] \/ q \notin Reqs
        BY <1>3 DEF At
    <2>3. \A q \in Reqs : Name(which, q)' = Name(which, q)
        BY <1>3 DEF Name
    <2>4. Charged(s, which, name)' \subseteq C \ {r}
        BY <1>3, <2>3, ChargedIs, ChargedIsNext, <1>4
    <2>5. S \subseteq Strayed(s, which, name)' /\ S \subseteq Reqs /\ C \subseteq Reqs /\ r \notin S
        BY <1>3, <2>3, ChargedIs, ChargedIsNext, <1>4
    <2>6. At[r] = x[1]
        BY DEF At
    <2>7. \A q \in C \cup S : At'[q] = At[q]
        BY <2>2, <2>5
    <2>8. CASE ~(s = form[r] /\ name = Name(which, r))
        <3>1. Held(which, s, name)' = w
            BY <2>8, ReleaseHeld
        <3> HIDE DEF C, S, w, x
        <3> QED BY <2>1, <2>4, <2>5, <2>7, <3>1, CoversKeep
    <2>9. CASE s = form[r] /\ name = Name(which, r)
        <3>1. Held(which, s, name)' = w \ {x}
            BY <2>9, ReleaseHeld
        <3>2. CASE r \in C
            <4> HIDE DEF C, S, w, x
            <4>1. Covers(C \ {r}, At, w \ {x}, S)
                BY <2>1, <2>6, <3>2, CoversOwn
            <4>2. \A q \in (C \ {r}) \cup S : At'[q] = At[q]
                BY <2>7
            <4> QED BY <2>4, <2>5, <3>1, <4>1, <4>2, CoversKeep
        <3>3. CASE which \notin kept[r]
            <4>1. S \cup {r} \subseteq Strayed(s, which, name)'
                BY <1>3, <2>3, <2>5, <2>9, <3>3, <1>4, ChargedIsNext
            <4>2. \A q \in C \cup (S \cup {r}) : At'[q] = At[q]
                BY <2>2, <2>5
            <4> HIDE DEF C, S, w, x
            <4>3. Covers(C, At, w \ {x}, S \cup {r})
                BY <2>1, <2>5, <2>6, CoversStray
            <4>4. Charged(s, which, name)' \subseteq C
                BY <2>4
            <4> QED BY <3>1, <4>1, <4>2, <4>3, <4>4, CoversKeep
        <3>4. CASE which \in kept[r] /\ r \notin C
            <4>1. ~(clock < p.at + Window)
                BY <2>9, <3>4, ChargedIs
            <4>2. \A q \in Charged(s, which, name)' : clock < At[q] + Window
                BY <1>3, <1>4, ChargedIsNext DEF At
            <4>3. \A c \in w : (\E q \in Charged(s, which, name)' : At[q] = c[1]) => c \in w \ {x}
                BY <4>1, <4>2
            <4> HIDE DEF C, S, w, x
            <4>4. Charged(s, which, name)' \subseteq C
                BY <2>4
            <4> QED BY <2>1, <2>5, <2>7, <3>1, <4>3, <4>4, CoversKeep
        <3> QED BY <3>2, <3>3, <3>4
    <2> QED BY <2>8, <2>9
<1>8. WorkIsBounded'
    BY DEF WorkIsBounded
<1> QED BY <1>4, <1>5, <1>6, <1>7, <1>8 DEF ChargesAreCovered
-----------------------------------------------------------------------------
(* A reservation.                                                          *)

\* A window before the reservation of post r, a full map being cleared first.
Before(which, s, name, r) ==
    IF s = form[r] THEN Left(Tracked(which)[s], Name(which, r), name) ELSE Held(which, s, name)

\* The window of a post that reserves: pruned, and with a charge.
Pruned(which, r) == prune(Before(which, form[r], Name(which, r), r), post[r].at)

NextCharge(which, r) == <<post[r].at, Count(Pruned(which, r), post[r].at) + 1>>

\* Neither window of the post is at its limit.
Open(r) == \A which \in Which : Cardinality(Pruned(which, r)) < Limit(which)

LEMMA BeforeIs ==
    ASSUME LoginInv, NEW r \in Reqs
    PROVE  /\ \A which \in Which, s \in Surfaces : \A name :
                \/ Before(which, s, name, r) = Held(which, s, name)
                \/ s = form[r] /\ Full(Tracked(which)[s], Name(which, r)) /\ Before(which, s, name, r) = {}
           /\ \A which \in Which, s \in Surfaces : \A name \in Names(which) :
                LET w == Before(which, s, name, r)
                IN  WindowIs(w) /\ Cardinality(w) <= Limit(which)
<1>1. \A which \in Which, s \in Surfaces : \A name :
                \/ Before(which, s, name, r) = Held(which, s, name)
                \/ s = form[r] /\ Full(Tracked(which)[s], Name(which, r)) /\ Before(which, s, name, r) = {}
    BY DEF Before, Left, Held
<1>2. \A which \in Which, s \in Surfaces : \A name \in Names(which) :
            WindowIs(Held(which, s, name)) /\ Cardinality(Held(which, s, name)) <= Limit(which)
    BY DEF LoginInv, WindowsFit
<1>3. WindowIs({}) /\ Cardinality({}) = 0
    BY FS_EmptySet DEF WindowIs, Numbered
<1>4. ASSUME NEW which \in Which, NEW s \in Surfaces, NEW name \in Names(which)
      PROVE  WindowIs(Before(which, s, name, r)) /\ Cardinality(Before(which, s, name, r)) <= Limit(which)
    <2>1. Limit(which) \in Nat /\ 0 <= Limit(which)
        BY LimitIs
    <2>2. CASE Before(which, s, name, r) = Held(which, s, name)
        BY <1>2, <2>2
    <2>3. CASE Before(which, s, name, r) = {}
        BY <1>3, <2>1, <2>3
    <2> QED BY <1>1, <2>2, <2>3
<1> QED BY <1>1, <1>4

LEMMA ReserveHeld ==
    ASSUME LoginInv, NEW r \in Reqs, reserve(r)
    PROVE  /\ by_key' \in [Surfaces -> Maps(Keys)] /\ by_peer' \in [Surfaces -> Maps(Peers)]
           /\ \A which \in Which, s \in Surfaces : \A name \in Names(which) :
                IF s = form[r] /\ name = Name(which, r)
                THEN \/ Open(r) /\ Held(which, s, name)' = Pruned(which, r) \cup {NextCharge(which, r)}
                     \/ /\ ~Open(r)
                        /\ \/ Held(which, s, name)' = Before(which, s, name, r)
                           \/ Held(which, s, name)' = Pruned(which, r)
                ELSE Held(which, s, name)' = Before(which, s, name, r)
           /\ post' = [post EXCEPT ![r] = IF Open(r) THEN [post[r] EXCEPT !.step = "reserved"]
                                          ELSE [Unsent EXCEPT !.step = "throttled"]]
           /\ kept' = [q \in Reqs |->
                IF q = r THEN IF Open(r) THEN Which ELSE {}
                ELSE IF form[q] # form[r] THEN kept[q]
                ELSE kept[q] \ {which \in Which : Full(Tracked(which)[form[r]], Name(which, r))}]
<1> USE DEF LoginInv
<1> DEFINE s == form[r]
           p == post[r]
           keys == Entry(by_key[s], p.key)
           peers == Entry(by_peer[s], p.peer)
           keyOpen == Cardinality(prune(keys[p.key], p.at)) < per_minute
           peerOpen == Cardinality(prune(peers[p.peer], p.at)) < per_minute * PeerMultiplier
           both == keyOpen /\ peerOpen
           kmap == Charge(keys, p.key, p.at, both)
           pmap == IF keyOpen THEN Charge(peers, p.peer, p.at, peerOpen) ELSE Cleared(by_peer[s], p.peer)
<1>1. /\ s \in Surfaces /\ p.key \in Keys /\ p.peer \in Peers /\ p.at \in Nat
      /\ by_key \in [Surfaces -> Maps(Keys)] /\ by_peer \in [Surfaces -> Maps(Peers)]
    BY DEF LoginShape, PostsAreWired, reserve, Posts
<1>2. /\ by_key' = [by_key EXCEPT ![s] = kmap] /\ by_peer' = [by_peer EXCEPT ![s] = pmap]
    BY DEF reserve
<1>3. Name("key", r) = p.key /\ Name("peer", r) = p.peer /\ Names("key") = Keys /\ Names("peer") = Peers
    BY DEF Name, Names
<1>4. /\ \A t \in Surfaces : Tracked("key")[t] = by_key[t] /\ Tracked("peer")[t] = by_peer[t]
      /\ \A name : Before("key", s, name, r) = Left(by_key[s], p.key, name)
      /\ \A name : Before("peer", s, name, r) = Left(by_peer[s], p.peer, name)
    BY <1>3 DEF Tracked, Before
<1>5. /\ WindowIs(Left(by_key[s], p.key, p.key))
      /\ WindowIs(Left(by_peer[s], p.peer, p.peer))
    BY <1>1, <1>3, <1>4, BeforeIs DEF Which
<1>6. /\ Pruned("key", r) = prune(Left(by_key[s], p.key, p.key), p.at)
      /\ Pruned("peer", r) = prune(Left(by_peer[s], p.peer, p.peer), p.at)
    BY <1>3, <1>4 DEF Pruned
<1>7. keys[p.key] = Left(by_key[s], p.key, p.key) /\ peers[p.peer] = Left(by_peer[s], p.peer, p.peer)
    BY EntryIs
<1>8. Open(r) = both
    BY <1>6, <1>7 DEF Open, Which, Limit
<1>9. /\ post' = [post EXCEPT ![r] = IF Open(r) THEN [p EXCEPT !.step = "reserved"]
                                     ELSE [Unsent EXCEPT !.step = "throttled"]]
      /\ kept' = [q \in Reqs |->
                IF q = r THEN IF Open(r) THEN {"key", "peer"} ELSE {}
                ELSE IF form[q] # s THEN kept[q]
                ELSE kept[q] \ ((IF Full(by_key[s], p.key) THEN {"key"} ELSE {})
                                    \cup (IF Full(by_peer[s], p.peer) THEN {"peer"} ELSE {}))]
    <2>1. keyOpen /\ peerOpen <=> Open(r)
        BY <1>8
    <2> HIDE DEF keyOpen, peerOpen
    <2> QED BY <2>1 DEF reserve, keyOpen, peerOpen
<1>10. (IF Full(by_key[s], p.key) THEN {"key"} ELSE {}) \cup (IF Full(by_peer[s], p.peer) THEN {"peer"} ELSE {})
            = {which \in Which : Full(Tracked(which)[s], Name(which, r))}
    BY <1>1, <1>3, <1>4 DEF Which
<1>11. /\ kmap \in Maps(Keys)
       /\ \A other \in Keys : Look(kmap, other) =
             IF other = p.key
             THEN IF Open(r) THEN Pruned("key", r) \cup {NextCharge("key", r)} ELSE Pruned("key", r)
             ELSE Left(by_key[s], p.key, other)
    <2>1. both \in BOOLEAN
        OBVIOUS
    <2> HIDE DEF both
    <2>2. /\ kmap \in Maps(Keys)
          /\ \A other \in Keys : Look(kmap, other) =
                IF other = p.key THEN Charging(Pruned("key", r), p.at, both) ELSE Left(by_key[s], p.key, other)
        BY <1>1, <1>5, <1>6, <2>1, ChargedMap
    <2>3. Charging(Pruned("key", r), p.at, both) =
                IF Open(r) THEN Pruned("key", r) \cup {NextCharge("key", r)} ELSE Pruned("key", r)
        BY <1>8 DEF Charging, NextCharge
    <2> HIDE DEF kmap, s, p
    <2> QED BY <2>2, <2>3
<1>12. /\ pmap \in Maps(Peers)
       /\ \A other \in Peers : Look(pmap, other) =
             IF other = p.peer
             THEN IF Open(r) THEN Pruned("peer", r) \cup {NextCharge("peer", r)}
                  ELSE IF keyOpen THEN Pruned("peer", r) ELSE Left(by_peer[s], p.peer, other)
             ELSE Left(by_peer[s], p.peer, other)
    <2>1. CASE keyOpen
        <3>1. peerOpen \in BOOLEAN /\ Open(r) = peerOpen
            BY <1>8, <2>1
        <3>2. pmap = Charge(peers, p.peer, p.at, peerOpen)
            BY <2>1
        <3> HIDE DEF peerOpen, keyOpen, pmap
        <3>3. /\ pmap \in Maps(Peers)
              /\ \A other \in Peers : Look(pmap, other) =
                    IF other = p.peer THEN Charging(Pruned("peer", r), p.at, peerOpen)
                    ELSE Left(by_peer[s], p.peer, other)
            BY <1>1, <1>5, <1>6, <3>1, <3>2, ChargedMap
        <3>4. Charging(Pruned("peer", r), p.at, peerOpen) =
                    IF Open(r) THEN Pruned("peer", r) \cup {NextCharge("peer", r)} ELSE Pruned("peer", r)
            BY <3>1 DEF Charging, NextCharge
        <3> HIDE DEF s, p
        <3> QED BY <2>1, <3>3, <3>4
    <2>2. CASE ~keyOpen
        <3>1. pmap = Cleared(by_peer[s], p.peer) /\ ~Open(r)
            BY <1>8, <2>2
        <3> QED BY <1>1, <2>2, <3>1, ClearedMap
    <2> QED BY <2>1, <2>2
<1> HIDE DEF kmap, pmap, s, p, keyOpen, peerOpen, both
<1>13. \A t \in Surfaces : /\ by_key'[t] = IF t = s THEN kmap ELSE by_key[t]
                           /\ by_peer'[t] = IF t = s THEN pmap ELSE by_peer[t]
    BY <1>1, <1>2
<1>14. by_key' \in [Surfaces -> Maps(Keys)] /\ by_peer' \in [Surfaces -> Maps(Peers)]
    BY <1>1, <1>2, <1>11, <1>12
<1>15. \A t \in Surfaces : \A name :
          /\ Held("key", t, name)' = Look(by_key'[t], name) /\ Held("key", t, name) = Look(by_key[t], name)
          /\ Held("peer", t, name)' = Look(by_peer'[t], name) /\ Held("peer", t, name) = Look(by_peer[t], name)
    BY DEF Held, Tracked, Look
<1>16. \A t \in Surfaces : t # s => \A name, which : Before(which, t, name, r) = Held(which, t, name)
    BY DEF Before, s
<1>17. \A t \in Surfaces : \A name \in Keys :
            IF t = s /\ name = p.key
            THEN IF Open(r) THEN Held("key", t, name)' = Pruned("key", r) \cup {NextCharge("key", r)}
                            ELSE Held("key", t, name)' = Pruned("key", r)
            ELSE Held("key", t, name)' = Before("key", t, name, r)
    BY <1>4, <1>11, <1>13, <1>15, <1>16
<1>18. \A t \in Surfaces : \A name \in Peers :
            IF t = s /\ name = p.peer
            THEN IF Open(r) THEN Held("peer", t, name)' = Pruned("peer", r) \cup {NextCharge("peer", r)}
                 ELSE IF keyOpen THEN Held("peer", t, name)' = Pruned("peer", r)
                                 ELSE Held("peer", t, name)' = Before("peer", t, name, r)
            ELSE Held("peer", t, name)' = Before("peer", t, name, r)
    BY <1>4, <1>12, <1>13, <1>15, <1>16
<1>19. \A which \in Which, t \in Surfaces : \A name \in Names(which) :
                IF t = form[r] /\ name = Name(which, r)
                THEN \/ Open(r) /\ Held(which, t, name)' = Pruned(which, r) \cup {NextCharge(which, r)}
                     \/ /\ ~Open(r)
                        /\ \/ Held(which, t, name)' = Before(which, t, name, r)
                           \/ Held(which, t, name)' = Pruned(which, r)
                ELSE Held(which, t, name)' = Before(which, t, name, r)
    <2> SUFFICES ASSUME NEW which \in Which, NEW t \in Surfaces, NEW name \in Names(which)
                 PROVE  IF t = form[r] /\ name = Name(which, r)
                        THEN \/ Open(r) /\ Held(which, t, name)' = Pruned(which, r) \cup {NextCharge(which, r)}
                             \/ /\ ~Open(r)
                                /\ \/ Held(which, t, name)' = Before(which, t, name, r)
                                   \/ Held(which, t, name)' = Pruned(which, r)
                        ELSE Held(which, t, name)' = Before(which, t, name, r)
        OBVIOUS
    <2>1. CASE which = "key"
        BY <1>3, <1>17, <2>1 DEF s
    <2>2. CASE which = "peer"
        BY <1>3, <1>18, <2>2 DEF s
    <2> QED BY <2>1, <2>2 DEF Which
<1>20. /\ post' = [post EXCEPT ![r] = IF Open(r) THEN [post[r] EXCEPT !.step = "reserved"]
                                      ELSE [Unsent EXCEPT !.step = "throttled"]]
       /\ kept' = [q \in Reqs |->
                IF q = r THEN IF Open(r) THEN Which ELSE {}
                ELSE IF form[q] # form[r] THEN kept[q]
                ELSE kept[q] \ {which \in Which : Full(Tracked(which)[form[r]], Name(which, r))}]
    BY <1>9, <1>10 DEF p, s, Which
<1> QED BY <1>14, <1>19, <1>20

LEMMA ReserveInv == ASSUME LoginInv, NEW r \in Reqs, reserve(r) PROVE LoginInv'
<1> USE DEF LoginInv
<1> DEFINE p == post[r]
<1>1. /\ p \in Posts /\ p.at \in Nat /\ clock \in Nat /\ p.at <= clock /\ p.step = "arrived"
      /\ kept[r] = {} /\ r \notin hashing /\ p.key \in Keys /\ p.peer \in Peers
      /\ UNCHANGED <<form, clock, permits, hashing>>
    BY DEF LoginShape, Posts, PostsAreWired, reserve
<1>2. \A q \in Reqs : q # r => post'[q] = post[q]
    BY ReserveHeld DEF LoginShape
<1>3. post'[r] = IF Open(r) THEN [p EXCEPT !.step = "reserved"] ELSE [Unsent EXCEPT !.step = "throttled"]
    BY ReserveHeld DEF LoginShape
<1>4. /\ Open(r) => /\ post'[r].step = "reserved" /\ post'[r].at = p.at
                    /\ post'[r].key = p.key /\ post'[r].peer = p.peer
      /\ ~Open(r) => post'[r].step = "throttled" /\ post'[r].at = 0
      /\ post'[r] \in Posts
    <2>1. CASE Open(r)
        BY <1>1, <1>3, <2>1 DEF Posts, LoginSteps
    <2>2. CASE ~Open(r)
        <3> DEFINE out == [step |-> "throttled", key |-> "", peer |-> "", at |-> 0]
        <3>1. post'[r] = out
            BY <1>3, <2>2 DEF Unsent
        <3>2. out \in Posts /\ out.step = "throttled" /\ out.at = 0
            BY DEF Posts, LoginSteps
        <3> HIDE DEF out
        <3> QED BY <2>2, <3>1, <3>2
    <2> QED BY <2>1, <2>2
<1>5. \A q \in Reqs : kept'[q] =
                IF q = r THEN IF Open(r) THEN Which ELSE {}
                ELSE IF form[q] # form[r] THEN kept[q]
                ELSE kept[q] \ {which \in Which : Full(Tracked(which)[form[r]], Name(which, r))}
    BY ReserveHeld
<1>6. LoginShape'
    <2>1. post' \in [Reqs -> Posts]
        BY <1>4, ReserveHeld DEF LoginShape
    <2>2. kept' \in [Reqs -> SUBSET Which]
        <3>1. \A q \in Reqs : kept'[q] \in SUBSET Which
            BY <1>5 DEF LoginShape
        <3>2. kept' = [q \in Reqs |-> kept'[q]]
            BY ReserveHeld
        <3> QED BY <3>1, <3>2
    <2> QED BY <1>1, <2>1, <2>2, ReserveHeld DEF LoginShape
<1>7. PostsAreWired'
    <2> SUFFICES ASSUME NEW q \in Reqs
                 PROVE  /\ post'[q].at <= clock'
                        /\ post'[q].step \in {"new", "arrived", "throttled"} => kept'[q] = {}
                        /\ post'[q].step \notin {"new", "throttled"} => post'[q].key \in Keys /\ post'[q].peer \in Peers
                        /\ q \in hashing' => post'[q].step \in {"checking", "gone"}
        BY DEF PostsAreWired
    <2>1. CASE q = r
        BY <1>1, <1>4, <1>5, <2>1
    <2>2. CASE q # r
        BY <1>1, <1>2, <1>5, <2>2 DEF PostsAreWired
    <2> QED BY <2>1, <2>2
<1>8. \A which \in Which : WindowIs(Pruned(which, r)) /\ Cardinality(Pruned(which, r)) <= Limit(which)
    <2> SUFFICES ASSUME NEW which \in Which
                 PROVE  WindowIs(Pruned(which, r)) /\ Cardinality(Pruned(which, r)) <= Limit(which)
        OBVIOUS
    <2> DEFINE w == Before(which, form[r], Name(which, r), r)
    <2>1. Name(which, r) \in Names(which) /\ form[r] \in Surfaces
        BY <1>1 DEF Name, Names, Which, LoginShape
    <2>2. WindowIs(w) /\ Cardinality(w) <= Limit(which)
        BY <2>1, BeforeIs
    <2>3. Pruned(which, r) = prune(w, p.at)
        BY DEF Pruned
    <2> HIDE DEF w, p
    <2>4. WindowIs(prune(w, p.at)) /\ Cardinality(prune(w, p.at)) <= Cardinality(w)
        BY <1>1, <2>2, PruneIs
    <2>5. Cardinality(w) \in Nat /\ Cardinality(prune(w, p.at)) \in Nat /\ Limit(which) \in Nat
        BY <2>2, <2>4, FS_CardinalityType, LimitIs DEF WindowIs
    <2> QED BY <2>2, <2>3, <2>4, <2>5
<1>9. \A which \in Which :
        /\ NextCharge(which, r) \notin Pruned(which, r) /\ NextCharge(which, r)[1] = p.at
        /\ WindowIs(Pruned(which, r) \cup {NextCharge(which, r)})
        /\ Open(r) => Cardinality(Pruned(which, r) \cup {NextCharge(which, r)}) <= Limit(which)
    <2> SUFFICES ASSUME NEW which \in Which
                 PROVE  /\ NextCharge(which, r) \notin Pruned(which, r) /\ NextCharge(which, r)[1] = p.at
                        /\ WindowIs(Pruned(which, r) \cup {NextCharge(which, r)})
                        /\ Open(r) => Cardinality(Pruned(which, r) \cup {NextCharge(which, r)}) <= Limit(which)
        OBVIOUS
    <2>1. /\ NextCharge(which, r) \notin Pruned(which, r)
          /\ WindowIs(Pruned(which, r) \cup {NextCharge(which, r)})
          /\ Cardinality(Pruned(which, r) \cup {NextCharge(which, r)}) = Cardinality(Pruned(which, r)) + 1
        BY <1>1, <1>8, ChargeIs DEF NextCharge
    <2>2. Open(r) => Cardinality(Pruned(which, r)) < Limit(which)
        BY DEF Open
    <2>3. Cardinality(Pruned(which, r)) \in Nat /\ Limit(which) \in Nat
        BY <1>8, FS_CardinalityType, LimitIs DEF WindowIs
    <2> QED BY <2>1, <2>2, <2>3 DEF NextCharge
<1>10. WindowsFit'
    <2> SUFFICES ASSUME NEW which \in Which, NEW s \in Surfaces, NEW name \in Names(which)
                 PROVE  WindowIs(Held(which, s, name)') /\ Cardinality(Held(which, s, name)') <= Limit(which)
        BY DEF WindowsFit, Names, Limit, per_minute
    <2>1. WindowIs(Before(which, s, name, r)) /\ Cardinality(Before(which, s, name, r)) <= Limit(which)
        BY BeforeIs
    <2>2. \/ Held(which, s, name)' = Before(which, s, name, r)
          \/ Held(which, s, name)' = Pruned(which, r)
          \/ Open(r) /\ Held(which, s, name)' = Pruned(which, r) \cup {NextCharge(which, r)}
        BY ReserveHeld
    <2> QED BY <1>8, <1>9, <2>1, <2>2
<1>11. ASSUME NEW which \in Which, NEW s \in Surfaces, NEW name \in Names(which)
      PROVE  Covers(Charged(s, which, name)', At', Held(which, s, name)', Strayed(s, which, name)')
    <2> DEFINE C == Charged(s, which, name)
               D == Charged(s, which, name)'
               S == Strayed(s, which, name)
               T == Strayed(s, which, name)'
               B == Before(which, s, name, r)
               full == s = form[r] /\ Full(Tracked(which)[s], Name(which, r))
               mine == s = form[r] /\ name = Name(which, r)
    <2>1. C \subseteq Reqs /\ S \subseteq Reqs /\ r \notin C /\ r \notin S
        BY <1>1, ChargedIs
    <2>2. \A q \in Reqs \ {r} : Name(which, q)' = Name(which, q) /\ At'[q] = At[q]
        BY <1>2 DEF Name, At
    <2>3. \A q \in D : q # r => q \in C /\ ~full
        <3> SUFFICES ASSUME NEW q \in D, q # r PROVE q \in C /\ ~full
            OBVIOUS
        <3>1. /\ q \in Reqs /\ form[q] = s /\ which \in kept'[q] /\ Name(which, q)' = name
              /\ post'[q].step # "released" /\ clock < post'[q].at + Window
            BY <1>1, <1>6, ChargedIsNext
        <3>2. which \in kept[q] /\ ~full
            BY <1>5, <3>1
        <3>3. post'[q] = post[q] /\ Name(which, q) = name
            BY <1>2, <2>2, <3>1
        <3>4. q \in C
            BY <3>1, <3>2, <3>3, ChargedIs
        <3> QED BY <3>2, <3>4
    <2>4. r \in D => Open(r) /\ mine /\ At'[r] = At[r]
        <3>1. r \in D => Open(r)
            <4>1. r \in D => which \in kept'[r]
                BY <1>6, ChargedIsNext
            <4> QED BY <1>5, <4>1
        <3>2. Open(r) => Name(which, r)' = Name(which, r) /\ At'[r] = At[r]
            BY <1>4 DEF Name, At
        <3> QED BY <1>1, <1>6, <3>1, <3>2, ChargedIsNext
    <2>5. S \subseteq T
        <3>1. \A q \in S : q \in Reqs \ {r} /\ kept'[q] \subseteq kept[q] /\ post'[q] = post[q]
            BY <1>2, <1>5, <2>1
        <3> QED BY <1>1, <1>6, <2>2, <3>1, ChargedIs, ChargedIsNext
    <2>6. Covers(D \ {r}, At, B, S)
        <3>1. CASE full
            <4>1. D \ {r} = {}
                BY <2>3, <3>1
            <4> QED BY <4>1, NoneCovered
        <3>2. CASE ~full
            <4>1. B = Held(which, s, name)
                BY <3>2, BeforeIs
            <4>2. Covers(C, At, B, S)
                BY <4>1 DEF ChargesAreCovered
            <4>3. D \ {r} \subseteq C
                BY <2>3
            <4> HIDE DEF C, D, S, B
            <4> QED BY <4>2, <4>3, CoversKeep
        <3> QED BY <3>1, <3>2
    <2>7. mine => Covers(D \ {r}, At, Pruned(which, r), S)
        <3> SUFFICES ASSUME mine PROVE Covers(D \ {r}, At, Pruned(which, r), S)
            OBVIOUS
        <3>1. \A q \in D \ {r} : p.at < At[q] + Window
            <4> SUFFICES ASSUME NEW q \in D \ {r} PROVE p.at < At[q] + Window
                OBVIOUS
            <4>1. q \in Reqs /\ clock < post[q].at + Window
                BY <2>3, ChargedIs
            <4>2. At[q] = post[q].at /\ post[q].at \in Nat
                BY <4>1 DEF At, LoginShape, Posts
            <4> QED BY <1>1, <4>1, <4>2, LimitIs
        <3>2. Pruned(which, r) = prune(B, p.at)
            BY DEF Pruned
        <3>3. \A c \in B : (\E q \in D \ {r} : At[q] = c[1]) => c \in Pruned(which, r)
            BY <3>1, <3>2 DEF prune
        <3> HIDE DEF D, S, B, mine
        <3> QED BY <2>6, <3>3, CoversKeep
    <2>8. mine /\ Open(r) => Covers((D \ {r}) \cup {r}, At, Pruned(which, r) \cup {NextCharge(which, r)}, S)
        <3>1. At[r] = p.at
            BY DEF At
        <3> HIDE DEF D, S, mine
        <3> QED BY <1>9, <2>7, <3>1, CoversAdd
    <2>9. /\ mine /\ Open(r) => Held(which, s, name)' = Pruned(which, r) \cup {NextCharge(which, r)}
          /\ ~(mine /\ Open(r)) =>
                \/ Held(which, s, name)' = B
                \/ mine /\ Held(which, s, name)' = Pruned(which, r)
        BY ReserveHeld
    <2>10. CASE mine /\ Open(r)
        <3>1. \A q \in ((D \ {r}) \cup {r}) \cup S : At'[q] = At[q]
            <4>1. At'[r] = At[r]
                BY <1>4, <2>10 DEF At
            <4> QED BY <2>1, <2>2, <2>3, <4>1
        <3>2. D \subseteq (D \ {r}) \cup {r}
            OBVIOUS
        <3>3. Held(which, s, name)' = Pruned(which, r) \cup {NextCharge(which, r)}
            BY <2>9, <2>10
        <3>4. Covers((D \ {r}) \cup {r}, At, Pruned(which, r) \cup {NextCharge(which, r)}, S)
            BY <2>8, <2>10
        <3> HIDE DEF D, S, T
        <3>5. Covers(D, At', Pruned(which, r) \cup {NextCharge(which, r)}, T)
            BY <2>5, <3>1, <3>2, <3>4, CoversKeep
        <3> QED BY <3>3, <3>5 DEF D, T
    <2>11. CASE ~(mine /\ Open(r))
        <3>1. \A q \in (D \ {r}) \cup S : At'[q] = At[q]
            BY <2>1, <2>2, <2>3
        <3>2. D \subseteq D \ {r}
            BY <2>4, <2>11
        <3> DEFINE w == Held(which, s, name)'
        <3>3. Covers(D \ {r}, At, w, S)
            BY <2>6, <2>7, <2>9, <2>11
        <3> HIDE DEF D, S, T, w
        <3>4. Covers(D, At', w, T)
            BY <2>5, <3>1, <3>2, <3>3, CoversKeep
        <3> QED BY <3>4 DEF D, T, w
    <2> QED BY <2>10, <2>11
<1>12. WorkIsBounded'
    BY <1>1 DEF WorkIsBounded
<1> QED BY <1>6, <1>7, <1>10, <1>11, <1>12 DEF ChargesAreCovered

-----------------------------------------------------------------------------
LEMMA LoginNextInv == LoginInv /\ [LoginNext]_lvars => LoginInv'
<1> SUFFICES ASSUME LoginInv, [LoginNext]_lvars PROVE LoginInv'
    OBVIOUS
<1>1. CASE Tick
    BY <1>1, TickInv
<1>2. ASSUME NEW r \in Reqs, NEW k \in Keys, NEW p \in Peers, arrive(r, k, p) PROVE LoginInv'
    BY <1>2, ArriveInv
<1>3. ASSUME NEW r \in Reqs, reserve(r) PROVE LoginInv'
    BY <1>3, ReserveInv
<1>4. ASSUME NEW r \in Reqs, password_slot(r) PROVE LoginInv'
    <2>1. post[r].step = "reserved" /\ UNCHANGED <<form, clock, kept>>
        BY <1>4 DEF password_slot
    <2>2. r \notin hashing
        BY <2>1 DEF LoginInv, PostsAreWired
    <2>3. CASE /\ permits > 0 /\ permits' = permits - 1 /\ hashing' = hashing \cup {r}
               /\ post' = [post EXCEPT ![r].step = "checking"] /\ UNCHANGED <<by_key, by_peer>>
        <3>1. hashing' \subseteq Reqs /\ permits' \in Nat /\ WorkIsBounded'
            BY <2>2, <2>3, PermitIs DEF LoginInv, LoginShape, WorkIsBounded
        <3>2. "checking" \in LoginSteps
            BY DEF LoginSteps
        <3> QED BY <2>1, <2>3, <3>1, <3>2, StepOnlyInv
    <2>4. CASE permits = 0 /\ release(r) /\ UNCHANGED <<permits, hashing>>
        BY <2>1, <2>4, ReleaseInv
    <2> QED BY <1>4, <2>3, <2>4 DEF password_slot
<1>5. ASSUME NEW r \in Reqs, verify_owner_password(r) PROVE LoginInv'
    BY <1>5, VerifyInv
<1>6. ASSUME NEW r \in Reqs, login(r) PROVE LoginInv'
    BY <1>6, ReleaseInv DEF login
<1>7. ASSUME NEW r \in Reqs, register(r) PROVE LoginInv'
    <2>1. post[r].step = "reserved" /\ UNCHANGED <<form, clock, permits, hashing, kept>>
        BY <1>7 DEF register
    <2>2. CASE post' = [post EXCEPT ![r].step = "wrong"] /\ UNCHANGED <<by_key, by_peer>>
        <3>1. hashing' \subseteq Reqs /\ permits' \in Nat /\ WorkIsBounded'
            BY <2>1 DEF LoginInv, LoginShape, WorkIsBounded
        <3>2. "wrong" \in LoginSteps
            BY DEF LoginSteps
        <3>3. \A q \in hashing' : q # r /\ q \in hashing
            BY <2>1 DEF LoginInv, PostsAreWired
        <3> QED BY <2>1, <2>2, <3>1, <3>2, <3>3, StepOnlyInv
    <2>3. CASE release(r)
        BY <2>1, <2>3, ReleaseInv
    <2> QED BY <1>7, <2>2, <2>3 DEF register
<1>8. ASSUME NEW r \in Reqs, Gone(r) PROVE LoginInv'
    BY <1>8, GoneInv
<1>9. CASE UNCHANGED lvars
    <2>1. UNCHANGED <<form, clock, by_key, by_peer, post, permits, hashing, kept>>
        BY <1>9 DEF lvars
    <2>2. LoginShape' /\ PostsAreWired' /\ WorkIsBounded'
        BY <2>1 DEF LoginInv, LoginShape, PostsAreWired, WorkIsBounded
    <2>3. clock <= clock'
        BY <2>1 DEF LoginInv, LoginShape
    <2>4. WindowsFit' /\ ChargesAreCovered'
        BY <2>1, <2>2, <2>3, QuietWindows
    <2> QED BY <2>2, <2>4 DEF LoginInv
<1> QED BY <1>1, <1>2, <1>3, <1>4, <1>5, <1>6, <1>7, <1>8, <1>9 DEF LoginNext

\* Every post that counts has a charge of its own, whatever posts, releases,
\* cleared maps and connections that go away come between.
THEOREM LoginInvariant == LoginSpec => []LoginInv
BY LoginInitInv, LoginNextInv, PTL DEF LoginSpec

\* However posts interleave, no key and no peer gets more attempts in a minute
\* than its limit, but for releases after a cleared map, and no more hashes run
\* than there are permits.
THEOREM LoadStaysBounded == LoginSpec => []LoadIsBounded
<1>1. LoginInv => LoadIsBounded
    <2> SUFFICES ASSUME LoginInv,
                        NEW which \in Which, NEW s \in Surfaces, NEW name \in Names(which)
                 PROVE  Cardinality(Charged(s, which, name))
                            <= Limit(which) + Cardinality(Strayed(s, which, name))
        BY DEF LoginInv, LoadIsBounded, AttemptsAreBounded, Which, Names, Limit
    <2> DEFINE C == Charged(s, which, name)
               S == Strayed(s, which, name)
               w == Held(which, s, name)
    <2>1. WindowIs(w) /\ Cardinality(w) <= Limit(which) /\ Covers(C, At, w, S)
        BY DEF LoginInv, WindowsFit, ChargesAreCovered
    <2>2. C \in SUBSET Reqs /\ S \in SUBSET Reqs
        BY ChargedIs DEF LoginInv
    <2> HIDE DEF C, S, w
    <2>3. IsFiniteSet(w) /\ IsFiniteSet(C) /\ IsFiniteSet(S)
        BY <2>1, <2>2, LimiterAssumption, FS_Subset DEF WindowIs
    <2>4. Cardinality(C) <= Cardinality(w) + Cardinality(S)
        BY <2>1, <2>3, CoversBound
    <2>5. Cardinality(w) \in Nat /\ Cardinality(C) \in Nat /\ Cardinality(S) \in Nat /\ Limit(which) \in Nat
        BY <2>3, FS_CardinalityType, LimitIs
    <2>6. Cardinality(C) <= Limit(which) + Cardinality(S)
        BY <2>1, <2>4, <2>5
    <2> QED BY <2>6 DEF C, S
<1> QED BY <1>1, LoginInvariant, PTL

-----------------------------------------------------------------------------
(* The digest cache.                                                       *)

LEMMA SomeGrant == (CHOOSE g \in Grants : TRUE) \in Grants
    BY CacheAssumption

\* A change is in a namespace, unless it is a rename.
LEMMA ChangeIs ==
    ASSUME NEW o \in Changes
    PROVE  Level[o] \in 1 .. 3 /\ (Touches[o] # "labels" => Touches[o] \in Namespaces)
    BY CacheAssumption DEF Namespaces

\* Two grants with the ceilings of one key show the same of it, but for sealed
\* items in a namespace it does not carry.
LEMMA OneKey ==
    ASSUME NEW o \in Changes, NEW readable, NEW g \in Grants, NEW h \in Grants,
           Matches(g, readable), Matches(h, readable), Shown(o, g, readable)
    PROVE  \/ Shown(o, h, readable)
           \/ Level[o] = 3 /\ ~Keyed(o, readable) /\ ~Reaches(h, o)
<1>1. CASE Touches[o] = "labels"
    BY <1>1 DEF Shown
<1>2. CASE Touches[o] # "labels" /\ Keyed(o, readable)
    <2>1. PICK p \in readable : p[1] = Touches[o]
        BY <1>2 DEF Keyed
    <2>2. g[Touches[o]] = p[2] /\ h[Touches[o]] = p[2]
        BY <2>1 DEF Matches
    <2> QED BY <1>2, <2>2 DEF Shown, Reaches
<1>3. CASE Touches[o] # "labels" /\ ~Keyed(o, readable)
    <2>1. Level[o] = 3
        BY <1>3, ChangeIs DEF Shown
    <2> QED BY <1>3, <2>1 DEF Shown
<1> QED BY <1>1, <1>2, <1>3

LEMMA InitInv == CacheInit => CacheInv
<1> SUFFICES ASSUME CacheInit PROVE CacheInv
    OBVIOUS
<1>1. (CHOOSE c \in Clients : TRUE) \in Clients
    BY CacheAssumption
<1>2. DOMAIN cache = {}
    BY DEF CacheInit
<1>3. NoDigest \in Digests
    BY SomeGrant DEF NoDigest, Digests
<1>4. \A r \in Callers : req[r] \in Requests
    BY <1>1, <1>3, SomeGrant, CacheAssumption DEF CacheInit, Requests, Steps, Ceilings
<1>5. TypeOK
    BY <1>2, <1>4 DEF CacheInit, TypeOK
<1>6. PastIsSettled /\ GrantsMatch
    BY DEF CacheInit, PastIsSettled, GrantsMatch, Matches
<1>7. BuildsAreWhole /\ AnswerIsWithinGrant /\ MissingOnlyIfRaced
    BY DEF CacheInit, BuildsAreWhole, Building, AnswerIsWithinGrant, MissingOnlyIfRaced, Answered
<1>8. EntriesAreSound
    BY <1>2 DEF EntriesAreSound
<1> QED BY <1>5, <1>6, <1>7, <1>8 DEF CacheInv

\* A change that commits is not settled yet, and nothing read it.
LEMMA CommitInv == ASSUME CacheInv, NEW o \in Changes, Commit(o) PROVE CacheInv'
<1> USE DEF CacheInv, Commit
<1>1. TypeOK'
    BY DEF TypeOK
<1>2. Settled' = Settled
    BY DEF TypeOK, Settled
<1>3. PastIsSettled' /\ EntriesAreSound'
    BY <1>2 DEF PastIsSettled, EntriesAreSound, Sound
<1>4. GrantsMatch' /\ BuildsAreWhole' /\ AnswerIsWithinGrant' /\ MissingOnlyIfRaced'
    BY DEF GrantsMatch, BuildsAreWhole, AnswerIsWithinGrant, MissingOnlyIfRaced, Answered
<1> QED BY <1>1, <1>3, <1>4

\* A clear leaves no entry to be unsound, and what was settled stays so.
LEMMA ClearInv == ASSUME CacheInv, NEW o \in Changes, clear_cache(o) PROVE CacheInv'
<1> USE DEF CacheInv, clear_cache
<1>1. DOMAIN cache' = {}
    OBVIOUS
<1>2. TypeOK'
    BY <1>1 DEF TypeOK
<1>3. Settled \subseteq Settled'
    BY DEF TypeOK, Settled
<1>4. PastIsSettled'
    BY <1>3 DEF PastIsSettled
<1>5. EntriesAreSound'
    BY <1>1 DEF EntriesAreSound
<1>6. GrantsMatch' /\ BuildsAreWhole' /\ AnswerIsWithinGrant' /\ MissingOnlyIfRaced'
    BY DEF GrantsMatch, BuildsAreWhole, AnswerIsWithinGrant, MissingOnlyIfRaced, Answered
<1> QED BY <1>2, <1>4, <1>5, <1>6

\* Grants, flips and time move nothing that an entry or a request has kept.
LEMMA MoveInv ==
    ASSUME CacheInv, Flip \/ CacheTick \/ \E c \in Clients : set_client_grant(c)
    PROVE  CacheInv'
<1> USE DEF CacheInv, Flip, CacheTick, set_client_grant
<1>1. TypeOK'
    BY DEF TypeOK
<1>2. UNCHANGED <<change, cache, req>>
    OBVIOUS
<1>3. Settled' = Settled
    BY <1>2 DEF Settled
<1>4. PastIsSettled' /\ GrantsMatch' /\ BuildsAreWhole' /\ EntriesAreSound'
    BY <1>2, <1>3 DEF PastIsSettled, GrantsMatch, BuildsAreWhole, EntriesAreSound, Sound
<1>5. AnswerIsWithinGrant' /\ MissingOnlyIfRaced'
    BY <1>2 DEF AnswerIsWithinGrant, MissingOnlyIfRaced, Answered
<1> QED BY <1>1, <1>4, <1>5

\* A step of one request, before its answer, that leaves its build whole.
LEMMA RequestInv ==
    ASSUME CacheInv, NEW r \in Callers, NEW q \in Requests,
           req' = [req EXCEPT ![r] = q], UNCHANGED <<now, change, grant, grants, model, cache>>,
           q.step # "answered", q.before \subseteq Settled, Matches(q.grant, q.readable),
           Building(q) => Whole(q)
    PROVE  CacheInv'
<1> USE DEF CacheInv
<1>1. TypeOK'
    BY DEF TypeOK
<1>2. req'[r] = q /\ \A s \in Callers \ {r} : req'[s] = req[s]
    BY DEF TypeOK
<1>3. Settled' = Settled
    BY DEF Settled
<1>4. PastIsSettled' /\ GrantsMatch'
    BY <1>2, <1>3 DEF PastIsSettled, GrantsMatch
<1>5. BuildsAreWhole'
    BY <1>2 DEF BuildsAreWhole
<1>6. EntriesAreSound'
    BY <1>3 DEF EntriesAreSound, Sound
<1>7. AnswerIsWithinGrant' /\ MissingOnlyIfRaced'
    BY <1>2 DEF AnswerIsWithinGrant, MissingOnlyIfRaced, Answered
<1> QED BY <1>1, <1>4, <1>5, <1>6, <1>7

\* A step of one request that answers it with this digest.
LEMMA AnswerInv ==
    ASSUME CacheInv, NEW r \in Callers, NEW q \in Requests, req' = [req EXCEPT ![r] = q],
           UNCHANGED <<now, change, grant, grants, model>>, (TypeOK /\ EntriesAreSound)',
           q.step = "answered", q.before \subseteq Settled, Matches(q.grant, q.readable),
           Sound(<<q.client, q.readable, q.model, q.query>>, q.digest)
    PROVE  CacheInv'
<1> USE DEF CacheInv
<1>1. req'[r] = q /\ \A s \in Callers \ {r} : req'[s] = req[s]
    BY DEF TypeOK
<1>2. Settled' = Settled
    BY DEF Settled
<1>3. PastIsSettled' /\ GrantsMatch'
    BY <1>1, <1>2 DEF PastIsSettled, GrantsMatch
<1>4. BuildsAreWhole'
    BY <1>1 DEF BuildsAreWhole, Building
<1>5. /\ q.digest \in Digests /\ q.digest.view \subseteq Changes
      /\ q.grant \in Grants /\ q.digest.grant \in Grants
    BY DEF Requests, Digests
<1>6. /\ q.digest.model = q.model
      /\ Matches(q.digest.grant, q.readable)
      /\ \A o \in q.digest.view : Shown(o, q.digest.grant, q.readable)
      /\ \A o \in Settled \ q.digest.view :
            Shown(o, q.digest.grant, q.readable) => LostOrRaced(q.digest, o)
    BY DEF Sound
<1>7. \A o \in q.digest.view : \/ Shown(o, q.grant, q.readable)
                               \/ Level[o] = 3 /\ ~Keyed(o, q.readable)
    BY <1>5, <1>6, OneKey
<1>8. AnswerIsWithinGrant'
    BY <1>1, <1>6, <1>7 DEF AnswerIsWithinGrant, Answered
<1>9. ASSUME NEW o \in q.before \ q.digest.view, Shown(o, q.grant, q.readable)
      PROVE  \/ LostOrRaced(q.digest, o)
             \/ Level[o] = 3 /\ ~Keyed(o, q.readable) /\ ~Reaches(q.digest.grant, o)
    <2>1. o \in Settled /\ o \in Changes
        BY DEF Settled
    <2>2. \/ Shown(o, q.digest.grant, q.readable)
          \/ Level[o] = 3 /\ ~Keyed(o, q.readable) /\ ~Reaches(q.digest.grant, o)
        BY <1>5, <1>6, <1>9, <2>1, OneKey
    <2> QED BY <1>6, <2>1, <2>2
<1>10. MissingOnlyIfRaced'
    BY <1>1, <1>9 DEF MissingOnlyIfRaced, Answered
<1> QED BY <1>3, <1>4, <1>8, <1>10

\* A request comes with a grant, the namespaces it names and what has settled.
LEMMA RunInv ==
    ASSUME CacheInv, NEW r \in Callers, NEW c \in Clients, NEW q \in Queries,
           run_with_query(r, c, q)
    PROVE  CacheInv'
<1> DEFINE all == (Primary \cup {Touches[o] : o \in Rows}) \ {"labels"}
           readable == filter_readable(grant[c], all)
           n == [req[r] EXCEPT !.step = "named", !.client = c, !.query = q, !.grant = grant[c],
                               !.readable = readable, !.before = Settled]
<1>1. req[r] \in Requests /\ grant[c] \in Grants
    BY DEF CacheInv, TypeOK
<1>2. all \subseteq Namespaces
    BY DEF Namespaces, Rows, Committed
<1>3. grant[c] \in [Namespaces -> 0 .. 3]
    BY <1>1, CacheAssumption
<1>4. readable \in Ceilings /\ Matches(grant[c], readable)
    <2>1. \A m \in all : grant[c][m] > 0 => <<m, grant[c][m]>> \in Namespaces \X (1 .. 3)
        BY <1>2, <1>3
    <2> QED BY <2>1 DEF filter_readable, Ceilings, Matches
<1> HIDE DEF all, readable
<1>5. n \in Requests
    BY <1>1, <1>4 DEF Requests, Steps, Settled
<1>6. /\ n.step = "named" /\ n.before = Settled
      /\ n.grant = grant[c] /\ n.readable = readable
    BY <1>1 DEF Requests
<1>7. req' = [req EXCEPT ![r] = n] /\ UNCHANGED <<now, change, grant, grants, model, cache>>
    BY DEF run_with_query, all, readable
<1> HIDE DEF n
<1> QED BY <1>4, <1>5, <1>6, <1>7, RequestInv DEF Building

\* A hit answers with an entry whose key has the ceilings of the caller's grant.
LEMMA LookupInv == ASSUME CacheInv, NEW r \in Callers, lookup(r) PROVE CacheInv'
<1> DEFINE k == cache_key(req[r], model)
           hit == k \in DOMAIN cache /\ now < cache[k].at + CacheMs
           h == [req[r] EXCEPT !.step = "answered", !.model = model, !.digest = cache[k].digest]
           m == [req[r] EXCEPT !.step = "missed", !.model = model]
<1> USE DEF CacheInv
<1>1. req[r] \in Requests /\ model \in Nat
    BY DEF TypeOK
<1>2. req[r].before \subseteq Settled /\ Matches(req[r].grant, req[r].readable)
    BY DEF PastIsSettled, GrantsMatch
<1>3. UNCHANGED <<now, change, grant, grants, model, cache>>
    BY DEF lookup
<1>4. CASE hit
    <2>1. cache[k].digest \in Digests
        BY <1>4 DEF TypeOK
    <2>2. h \in Requests
        BY <1>1, <2>1 DEF Requests, Steps
    <2>3. /\ h.step = "answered" /\ h.before = req[r].before /\ h.grant = req[r].grant
          /\ h.readable = req[r].readable /\ h.client = req[r].client /\ h.query = req[r].query
          /\ h.model = model /\ h.digest = cache[k].digest
        BY <1>1 DEF Requests
    <2>4. req' = [req EXCEPT ![r] = h]
        BY <1>4 DEF lookup
    <2>5. Sound(<<h.client, h.readable, h.model, h.query>>, h.digest)
        BY <1>4, <2>3 DEF EntriesAreSound, cache_key
    <2>6. TypeOK' /\ EntriesAreSound'
        <3>1. Settled' = Settled
            BY <1>3 DEF Settled
        <3> QED BY <1>3, <2>2, <2>4, <3>1 DEF TypeOK, EntriesAreSound, Sound
    <2> HIDE DEF h
    <2> QED BY <1>2, <1>3, <2>2, <2>3, <2>4, <2>5, <2>6, AnswerInv
<1>5. CASE ~hit
    <2>1. m \in Requests
        BY <1>1 DEF Requests, Steps
    <2>2. /\ m.step = "missed" /\ m.before = req[r].before /\ m.grant = req[r].grant
          /\ m.readable = req[r].readable
        BY <1>1 DEF Requests
    <2>3. req' = [req EXCEPT ![r] = m]
        BY <1>5 DEF lookup
    <2> HIDE DEF m
    <2> QED BY <1>2, <1>3, <2>1, <2>2, <2>3, RequestInv DEF Building
<1> QED BY <1>4, <1>5

\* The rows are read under the request's own grant, after all it must show.
LEMMA DigestInv == ASSUME CacheInv, NEW r \in Callers, digest(r) PROVE CacheInv'
<1> DEFINE q == req[r]
           rows == {o \in Rows : \E p \in q.readable : p[1] = Touches[o] /\ Level[o] <= p[2]}
<1>1. q \in Requests /\ q.before \subseteq Settled /\ Matches(q.grant, q.readable)
    BY DEF CacheInv, TypeOK, PastIsSettled, GrantsMatch
<1>2. rows \subseteq Changes /\ Settled \subseteq Committed /\ Committed \subseteq Changes
    BY DEF Settled, Committed, Rows
<1>3. PICK lost \in SUBSET rows :
        /\ UNCHANGED <<now, change, grant, grants, model, cache>>
        /\ req' = [req EXCEPT ![r] =
              [@ EXCEPT !.step = "read",
                        !.digest = [view |-> rows \ lost, model |-> q.model, grant |-> q.grant,
                                    unread |-> lost, begun |-> q.before, filed |-> {}]]]
    BY DEF digest
<1> DEFINE d == [view |-> rows \ lost, model |-> q.model, grant |-> q.grant,
                 unread |-> lost, begun |-> q.before, filed |-> {}]
           n == [q EXCEPT !.step = "read", !.digest = d]
<1>4. d \in Digests
    BY <1>1, <1>2 DEF Digests, Requests
<1>5. n \in Requests /\ req' = [req EXCEPT ![r] = n]
    BY <1>1, <1>3, <1>4 DEF Requests, Steps, CacheInv, TypeOK
<1>6. /\ n.step = "read" /\ n.digest = d /\ n.model = q.model /\ n.grant = q.grant
      /\ n.readable = q.readable /\ n.before = q.before
    BY <1>1 DEF Requests
<1>7. \A o \in rows : Shown(o, q.grant, q.readable)
    BY <1>1 DEF Rows, Shown, Reaches, Keyed, Matches
<1>8. ASSUME NEW o \in q.before \ (rows \ lost), Shown(o, q.grant, q.readable)
      PROVE  o \in lost \/ ToCome(n, o)
    <2>1. o \in Committed /\ o \in Changes
        BY <1>1, <1>2
    <2>2. CASE Touches[o] = "labels" \/ Level[o] = 3
        BY <1>6, <2>2 DEF ToCome
    <2>3. CASE Touches[o] # "labels" /\ Level[o] # 3
        <3>1. Level[o] < 3 /\ o \in Rows
            BY <2>1, <2>3, ChangeIs DEF Rows
        <3>2. PICK p \in q.readable : p[1] = Touches[o]
            BY <1>8, <2>3, <3>1 DEF Shown, Keyed
        <3>3. q.grant[Touches[o]] = p[2] /\ Level[o] <= q.grant[Touches[o]]
            BY <1>1, <1>8, <2>3, <3>2 DEF Matches, Shown, Reaches
        <3>4. o \in rows
            BY <3>1, <3>2, <3>3
        <3> QED BY <3>4
    <2> QED BY <2>2, <2>3
<1> HIDE DEF n
<1>9. Whole(n)
    <2>1. /\ d.view = rows \ lost /\ d.unread = lost
          /\ d.model = q.model /\ d.grant = q.grant /\ d.begun = q.before
        OBVIOUS
    <2> HIDE DEF d
    <2> QED BY <1>6, <1>7, <1>8, <2>1 DEF Whole
<1> QED BY <1>1, <1>3, <1>5, <1>6, <1>9, RequestInv

\* Each of the later reads adds to the view or to what could not be read.
LEMMA ReadInv ==
    ASSUME CacheInv, NEW r \in Callers, Building(req[r]),
           NEW step \in {"listed", "counted", "built"}, NEW listed \in SUBSET Namespaces,
           NEW seen \in SUBSET Changes, NEW lost \in SUBSET Changes,
           Extend(r, step, listed, seen, lost),
           step = "listed" => \A n \in listed : req[r].grant[n] >= 3,
           \A o \in seen : Shown(o, req[r].grant, req[r].readable),
           \A o \in req[r].before :
              Shown(o, req[r].grant, req[r].readable) /\ ToCome(req[r], o) =>
                \/ o \in seen \cup lost
                \/ Touches[o] = "labels" /\ step # "built"
                \/ Touches[o] # "labels" /\ Level[o] = 3 /\ step = "listed" /\ Touches[o] \in listed
    PROVE  CacheInv'
<1> DEFINE q == req[r]
           d == [q.digest EXCEPT !.view = @ \cup seen, !.unread = @ \cup lost]
           n == [q EXCEPT !.step = step, !.listed = listed, !.digest = d]
<1>1. q \in Requests /\ q.digest \in Digests
    BY DEF CacheInv, TypeOK, Requests
<1>2. q.before \subseteq Settled /\ Matches(q.grant, q.readable) /\ Whole(q)
    BY DEF CacheInv, PastIsSettled, GrantsMatch, BuildsAreWhole
<1>3. /\ d \in Digests /\ d.view = q.digest.view \cup seen /\ d.unread = q.digest.unread \cup lost
      /\ d.model = q.digest.model /\ d.grant = q.digest.grant /\ d.begun = q.digest.begun
    BY <1>1 DEF Digests
<1> HIDE DEF d
<1>4. n \in Requests
    BY <1>1, <1>3 DEF Requests, Steps
<1>5. /\ n.step = step /\ n.digest = d /\ n.model = q.model /\ n.grant = q.grant
      /\ n.readable = q.readable /\ n.before = q.before /\ n.listed = listed
    BY <1>1 DEF Requests
<1>6. req' = [req EXCEPT ![r] = n] /\ UNCHANGED <<now, change, grant, grants, model, cache>>
    BY DEF d, Extend
<1> HIDE DEF n
<1>7. \A o \in q.before \ d.view : Shown(o, q.grant, q.readable) => o \in d.unread \/ ToCome(n, o)
    BY <1>2, <1>3, <1>5 DEF Whole, ToCome
<1>8. Whole(n)
    BY <1>2, <1>3, <1>5, <1>7 DEF Whole
<1> QED BY <1>2, <1>4, <1>5, <1>6, <1>8, RequestInv

\* What the grant reaches of the sealed items is listed, unless it was lost.
LEMMA SealedNamespacesInv ==
    ASSUME CacheInv, NEW r \in Callers, sealed_namespaces(r) PROVE CacheInv'
<1> DEFINE q == req[r]
           reach == {n \in Namespaces : q.grant[n] >= 3}
           known == {p[1] : p \in q.readable} \cap reach
           stored == {Touches[o] : o \in SealedItems} \cap reach
           lost == {o \in SealedItems : Touches[o] \in stored \ known}
<1>1. q \in Requests /\ q.digest \in Digests /\ q.step = "read" /\ Building(q)
    BY DEF CacheInv, TypeOK, Requests, sealed_namespaces, Building
<1>2. \/ Extend(r, "listed", known \cup stored, {}, {})
      \/ Extend(r, "listed", known, {}, lost)
    BY DEF sealed_namespaces
<1>3. known \cup stored \in SUBSET Namespaces /\ known \in SUBSET Namespaces
      /\ \A n \in known \cup stored : q.grant[n] >= 3
    OBVIOUS
<1>4. lost \in SUBSET Changes /\ {} \in SUBSET Changes
    BY DEF SealedItems, Committed
<1>5. ASSUME NEW o \in q.before, Shown(o, q.grant, q.readable), Touches[o] # "labels", Level[o] = 3
      PROVE  Touches[o] \in stored /\ o \in SealedItems
    <2>1. o \in SealedItems /\ o \in Changes
        BY <1>5 DEF CacheInv, PastIsSettled, Settled, SealedItems, Committed
    <2>2. Touches[o] \in Namespaces /\ q.grant[Touches[o]] >= 3
        BY <1>1, <1>5, <2>1, ChangeIs, CacheAssumption DEF Shown, Reaches, Requests
    <2> QED BY <2>1, <2>2
<1>6. CASE Extend(r, "listed", known \cup stored, {}, {})
    <2>1. \A o \in q.before : Shown(o, q.grant, q.readable) /\ ToCome(q, o) =>
            \/ o \in {} \cup {}
            \/ Touches[o] = "labels" /\ "listed" # "built"
            \/ Touches[o] # "labels" /\ Level[o] = 3 /\ "listed" = "listed"
               /\ Touches[o] \in known \cup stored
        BY <1>5 DEF ToCome
    <2> HIDE DEF known, stored, lost
    <2> QED BY <1>1, <1>3, <1>4, <1>6, <2>1, ReadInv
<1>7. CASE Extend(r, "listed", known, {}, lost)
    <2>1. \A o \in q.before : Shown(o, q.grant, q.readable) /\ ToCome(q, o) =>
            \/ o \in {} \cup lost
            \/ Touches[o] = "labels" /\ "listed" # "built"
            \/ Touches[o] # "labels" /\ Level[o] = 3 /\ "listed" = "listed"
               /\ Touches[o] \in known
        BY <1>5 DEF ToCome
    <2> HIDE DEF known, stored, lost
    <2> QED BY <1>1, <1>3, <1>4, <1>7, <2>1, ReadInv
<1> QED BY <1>2, <1>6, <1>7

\* The items of the listed namespaces are counted, and the grant reaches those.
LEMMA SealedCountsInv ==
    ASSUME CacheInv, NEW r \in Callers, sealed_counts(r) PROVE CacheInv'
<1> DEFINE q == req[r]
           sealed == {o \in SealedItems : Touches[o] \in q.listed}
<1>1. q \in Requests /\ q.digest \in Digests /\ q.step = "listed" /\ Building(q)
    BY DEF CacheInv, TypeOK, Requests, sealed_counts, Building
<1>2. \/ Extend(r, "counted", q.listed, sealed, {})
      \/ Extend(r, "counted", q.listed, {}, sealed)
    BY DEF sealed_counts
<1>3. sealed \in SUBSET Changes /\ {} \in SUBSET Changes /\ q.listed \in SUBSET Namespaces
    BY <1>1 DEF SealedItems, Committed, Requests
<1>4. \A o \in sealed : Shown(o, q.grant, q.readable)
    <2>1. \A n \in q.listed : q.grant[n] >= 3
        BY <1>1 DEF CacheInv, BuildsAreWhole, Whole
    <2>2. q.grant \in [Namespaces -> 0 .. 3]
        BY <1>1, CacheAssumption DEF Requests
    <2> QED BY <2>1, <2>2, <1>3 DEF SealedItems, Shown, Reaches
<1>5. \A o \in q.before : Shown(o, q.grant, q.readable) /\ ToCome(q, o) =>
            o \in sealed \/ Touches[o] = "labels"
    BY <1>1 DEF ToCome, CacheInv, PastIsSettled, Settled, SealedItems, Committed
<1> HIDE DEF sealed
<1>6. CASE Extend(r, "counted", q.listed, sealed, {})
    BY <1>1, <1>3, <1>4, <1>5, <1>6, ReadInv
<1>7. CASE Extend(r, "counted", q.listed, {}, sealed)
    BY <1>1, <1>3, <1>5, <1>7, ReadInv
<1> QED BY <1>2, <1>6, <1>7

\* The labels are read last, so a rename that had settled is in them or was lost.
LEMMA LabelsInv == ASSUME CacheInv, NEW r \in Callers, labels(r) PROVE CacheInv'
<1> DEFINE q == req[r]
<1>1. q \in Requests /\ q.digest \in Digests /\ q.step = "counted" /\ Building(q)
    BY DEF CacheInv, TypeOK, Requests, labels, Building
<1>2. \/ Extend(r, "built", q.listed, Renames, {})
      \/ Extend(r, "built", q.listed, {}, Renames)
    BY DEF labels
<1>3. Renames \in SUBSET Changes /\ {} \in SUBSET Changes /\ q.listed \in SUBSET Namespaces
    BY <1>1 DEF Renames, Committed, Requests
<1>4. \A o \in Renames : Shown(o, q.grant, q.readable)
    BY DEF Renames, Shown
<1>5. \A o \in q.before : Shown(o, q.grant, q.readable) /\ ToCome(q, o) => o \in Renames
    BY <1>1 DEF ToCome, CacheInv, PastIsSettled, Settled, Renames, Committed
<1>6. CASE Extend(r, "built", q.listed, Renames, {})
    BY <1>1, <1>3, <1>4, <1>5, <1>6, ReadInv
<1>7. CASE Extend(r, "built", q.listed, {}, Renames)
    BY <1>1, <1>3, <1>5, <1>7, ReadInv
<1> QED BY <1>2, <1>6, <1>7

\* The entry is filed under the ceilings and the model it was built for.
LEMMA InsertInv == ASSUME CacheInv, NEW r \in Callers, insert_fresh(r) PROVE CacheInv'
<1> DEFINE q == req[r]
           k == cache_key(q, q.model)
           d == [q.digest EXCEPT !.filed = Settled]
           fresh == {e \in DOMAIN cache : now < cache[e].at + CacheMs}
           n == [q EXCEPT !.step = "answered", !.digest = d]
<1>1. q \in Requests /\ q.digest \in Digests /\ q.step = "built"
    BY DEF insert_fresh, CacheInv, TypeOK, Requests
<1>2. q.before \subseteq Settled /\ Matches(q.grant, q.readable) /\ Whole(q)
    BY <1>1 DEF CacheInv, PastIsSettled, GrantsMatch, BuildsAreWhole, Building
<1>3. Settled' = Settled /\ Settled \subseteq Changes
    BY DEF insert_fresh, Settled
<1>4. /\ d \in Digests /\ d.filed = Settled /\ d.view = q.digest.view /\ d.unread = q.digest.unread
      /\ d.begun = q.digest.begun /\ d.model = q.digest.model /\ d.grant = q.digest.grant
    BY <1>1, <1>3 DEF Digests
<1>5. /\ k = <<q.client, q.readable, q.model, q.query>>
      /\ k \in CacheKeys /\ k[2] = q.readable /\ k[3] = q.model
    BY <1>1 DEF cache_key, CacheKeys, Requests
<1>6. /\ cache' = [e \in fresh \cup {k} |-> IF e = k THEN [at |-> now, digest |-> d] ELSE cache[e]]
      /\ req' = [req EXCEPT ![r] = n]
      /\ UNCHANGED <<now, change, grant, grants, model>>
    BY DEF insert_fresh
<1> HIDE DEF d
<1>7. /\ n \in Requests /\ n.step = "answered" /\ n.digest = d /\ n.model = q.model
      /\ n.grant = q.grant /\ n.readable = q.readable /\ n.before = q.before
      /\ n.client = q.client /\ n.query = q.query
    BY <1>1, <1>4 DEF Requests, Steps
<1> HIDE DEF n
<1>8. Sound(k, d)
    <2>1. \A o \in d.view : Shown(o, d.grant, k[2])
        BY <1>2, <1>4, <1>5 DEF Whole
    <2>2. \A o \in Settled \ d.view : Shown(o, d.grant, k[2]) => LostOrRaced(d, o)
        BY <1>1, <1>2, <1>4, <1>5 DEF Whole, ToCome, LostOrRaced
    <2> QED BY <1>2, <1>4, <1>5, <2>1, <2>2 DEF Sound, Whole
<1> HIDE DEF k
<1>9. /\ DOMAIN cache' = fresh \cup {k}
      /\ cache'[k] = [at |-> now, digest |-> d]
      /\ \A e \in fresh \ {k} : cache'[e] = cache[e]
    BY <1>6
<1>10. TypeOK'
    <2>1. req' \in [Callers -> Requests]
        BY <1>6, <1>7 DEF CacheInv, TypeOK
    <2>2. \A e \in fresh \cup {k} :
            (IF e = k THEN [at |-> now, digest |-> d] ELSE cache[e]) \in [at : Nat, digest : Digests]
        BY <1>4 DEF CacheInv, TypeOK
    <2>3. cache' \in [DOMAIN cache' -> [at : Nat, digest : Digests]]
        BY <1>6, <1>9, <2>2
    <2>4. DOMAIN cache' \subseteq CacheKeys
        BY <1>5, <1>9 DEF CacheInv, TypeOK
    <2> QED BY <1>6, <2>1, <2>3, <2>4 DEF CacheInv, TypeOK
<1>11. EntriesAreSound'
    <2>1. ASSUME NEW e \in DOMAIN cache' PROVE Sound(e, cache'[e].digest)
        <3>1. CASE e = k
            BY <3>1, <1>8, <1>9
        <3>2. CASE e # k
            BY <3>2, <1>9 DEF CacheInv, EntriesAreSound
        <3> QED BY <3>1, <3>2
    <2> QED BY <1>3, <2>1 DEF EntriesAreSound, Sound
<1>12. Sound(<<n.client, n.readable, n.model, n.query>>, n.digest)
    BY <1>5, <1>7, <1>8
<1> QED BY <1>2, <1>6, <1>7, <1>10, <1>11, <1>12, AnswerInv

-----------------------------------------------------------------------------
LEMMA NextInv == CacheInv /\ [CacheNext]_cvars => CacheInv'
<1> SUFFICES ASSUME CacheInv, [CacheNext]_cvars PROVE CacheInv'
    OBVIOUS
<1>1. CASE UNCHANGED cvars
    <2>1. UNCHANGED <<now, change, grant, grants, model, cache, req>>
        BY <1>1 DEF cvars
    <2>2. TypeOK'
        BY <2>1 DEF CacheInv, TypeOK
    <2>3. Settled' = Settled
        BY <2>1 DEF Settled
    <2>4. PastIsSettled' /\ GrantsMatch' /\ BuildsAreWhole' /\ EntriesAreSound'
        BY <2>1, <2>3 DEF CacheInv, PastIsSettled, GrantsMatch, BuildsAreWhole, EntriesAreSound, Sound
    <2>5. AnswerIsWithinGrant' /\ MissingOnlyIfRaced'
        BY <2>1 DEF CacheInv, AnswerIsWithinGrant, MissingOnlyIfRaced, Answered
    <2> QED BY <2>2, <2>4, <2>5 DEF CacheInv
<1>2. CASE CacheNext
    <2>1. CASE \E o \in Changes : Commit(o) \/ clear_cache(o)
        BY <2>1, CommitInv, ClearInv
    <2>2. CASE Flip \/ CacheTick \/ \E c \in Clients : set_client_grant(c)
        BY <2>2, MoveInv
    <2>3. CASE \E r \in Callers : \E c \in Clients, q \in Queries : run_with_query(r, c, q)
        BY <2>3, RunInv
    <2>4. CASE \E r \in Callers : lookup(r) \/ digest(r) \/ insert_fresh(r)
        BY <2>4, LookupInv, DigestInv, InsertInv
    <2>5. CASE \E r \in Callers : sealed_namespaces(r) \/ sealed_counts(r) \/ labels(r)
        BY <2>5, SealedNamespacesInv, SealedCountsInv, LabelsInv
    <2> QED BY <1>2, <2>1, <2>2, <2>3, <2>4, <2>5 DEF CacheNext
<1> QED BY <1>1, <1>2

\* Requests, builds, entries and answers keep the invariant from the empty
\* cache on, whatever commits, clears, flips, grants and failed reads come
\* between them.
THEOREM Inductive == CacheSpec => []CacheInv
    BY InitInv, NextInv, PTL DEF CacheSpec

\* context_bootstrap never answers with a row above the grant its caller came
\* with, a sealed item above it in a namespace the cache key carries, or pairs
\* compared under another model, from the cache or from a build.
THEOREM GrantsHold == CacheSpec => []AnswerIsWithinGrant
<1>1. CacheInv => AnswerIsWithinGrant
    BY DEF CacheInv
<1> QED BY <1>1, Inductive, PTL

\* A fact whose writer was answered before a bootstrap began is missing from it
\* only when it cleared the cache inside the build the answer came from, when
\* that build could not read it, or when it is a sealed item outside the key.
THEOREM MissesAreRaces == CacheSpec => []MissingOnlyIfRaced
<1>1. CacheInv => MissingOnlyIfRaced
    BY DEF CacheInv
<1> QED BY <1>1, Inductive, PTL
=============================================================================
