----------------------------- MODULE LoginLimiter -----------------------------
(* The two throttles of the login and registration forms                    *)
(* (authserver/limiter.rs) and the handlers that charge them: the consent   *)
(* screen's login, the console's login and dynamic registration. Each of    *)
(* the three surfaces holds a limiter of its own; the permits for password  *)
(* hashes are shared by the process. A handler reads the clock, takes a     *)
(* reservation in one mutex section, takes a permit, and waits for a hash   *)
(* on a blocking thread; its connection may go away while it waits.         *)
EXTENDS Naturals, FiniteSets

CONSTANTS
    Reqs,           \* posts to the three forms
    Forms,          \* which form each post may be sent to, a set of functions
    Keys,           \* throttle keys: the forwarded or the peer address
    Peers,          \* socket addresses
    PerMinute,      \* LoginLimiter.per_minute
    PeerMultiplier, \* PEER_MULTIPLIER
    MaxKeys,        \* MAX_KEYS
    Permits,        \* PASSWORD_WORK_PERMITS
    Window,         \* WINDOW, in ticks
    MaxTime         \* bound on the clock

ASSUME LimiterAssumption ==
    /\ PerMinute \in Nat /\ {PeerMultiplier, MaxKeys, Permits, Window} \subseteq Nat \ {0}
    /\ MaxTime \in Nat /\ IsFiniteSet(Reqs)
    /\ Forms \subseteq [Reqs -> {"consent", "console", "register"}]

VARIABLES
    clock,   \* Instant::now()
    by_key,  \* surface -> tracked key -> its charges
    by_peer, \* surface -> tracked peer -> its charges
    form,    \* the form each post is sent to
    post,    \* what a post has come to: its step, key, peer and instant
    permits, \* PASSWORD_WORK: permits that are free
    hashing, \* posts whose blocking closure runs
    kept     \* the maps that have not been cleared since a post charged them

lvars == <<form, clock, by_key, by_peer, post, permits, hashing, kept>>

Surfaces == {"consent", "console", "register"}

\* LoginLimiter::new reads a configured zero as one.
per_minute == IF PerMinute = 0 THEN 1 ELSE PerMinute

Unsent == [step |-> "new", key |-> "", peer |-> "", at |-> 0]

LoginInit ==
    /\ form \in Forms
    /\ clock = 0
    /\ by_key = [s \in Surfaces |-> <<>>]
    /\ by_peer = [s \in Surfaces |-> <<>>]
    /\ post = [r \in Reqs |-> Unsent]
    /\ permits = Permits
    /\ hashing = {}
    /\ kept = [r \in Reqs |-> {}]

-----------------------------------------------------------------------------
\* A map at its limit forgets every window before it admits a new name.
Full(map, name) == Cardinality(DOMAIN map) >= MaxKeys /\ name \notin DOMAIN map

\* A window is a vector of instants whose order nobody looks at. It is the set
\* of its charges: <<at, n>> is the nth that it has of one instant.
Count(window, at) == Cardinality({c \in window : c[1] = at})

\* The charges of a window that are still inside the minute.
prune(window, now) == {c \in window : now < c[1] + Window}

\* map.entry(name).or_default(), after the clear a full map undergoes.
Entry(map, name) ==
    LET left == IF Full(map, name) THEN <<>> ELSE map
    IN  [n \in DOMAIN left \cup {name} |-> IF n \in DOMAIN left THEN left[n] ELSE {}]

\* One window of a map, pruned, and charged when `charge` says so.
Charge(map, name, at, charge) ==
    LET window == prune(map[name], at)
    IN  [map EXCEPT ![name] =
            IF charge THEN window \cup {<<at, Count(window, at) + 1>>} ELSE window]

\* A full peer map is cleared even when the key refuses the post, and the
\* peer gets no entry then.
Cleared(map, name) == IF Full(map, name) THEN <<>> ELSE map

\* LoginLimiter::reserve, one mutex section, at the instant the handler read
\* before it took the lock.
reserve(r) ==
    LET p == post[r]
        s == form[r]
        keys == Entry(by_key[s], p.key)
        peers == Entry(by_peer[s], p.peer)
        keyOpen == Cardinality(prune(keys[p.key], p.at)) < per_minute
        peerOpen == Cardinality(prune(peers[p.peer], p.at)) < per_minute * PeerMultiplier
    IN  /\ p.step = "arrived"
        /\ by_key' = [by_key EXCEPT ![s] = Charge(keys, p.key, p.at, keyOpen /\ peerOpen)]
        /\ by_peer' = [by_peer EXCEPT ![s] =
                IF keyOpen THEN Charge(peers, p.peer, p.at, peerOpen) ELSE Cleared(@, p.peer)]
        /\ post' = [post EXCEPT ![r] = IF keyOpen /\ peerOpen THEN [p EXCEPT !.step = "reserved"]
                                       ELSE [Unsent EXCEPT !.step = "throttled"]]
        /\ kept' = [q \in Reqs |->
                IF q = r THEN IF keyOpen /\ peerOpen THEN {"key", "peer"} ELSE {}
                ELSE IF form[q] # s THEN kept[q]
                ELSE kept[q] \ ((IF Full(by_key[s], p.key) THEN {"key"} ELSE {})
                                    \cup (IF Full(by_peer[s], p.peer) THEN {"peer"} ELSE {}))]
        /\ UNCHANGED <<form, clock, permits, hashing>>

\* Takes every charge of that instant back. Mutant.
remove_every(map, name, at) ==
    IF name \in DOMAIN map
    THEN [map EXCEPT ![name] = {c \in @ : c[1] # at}] ELSE map

\* remove_one takes one charge of that instant back, if the window has one.
remove_one(map, name, at) ==
    IF name \in DOMAIN map THEN [map EXCEPT ![name] = @ \ {<<at, Count(@, at)>>}] ELSE map

\* Reservation::release, a second mutex section.
release(r) ==
    LET p == post[r]
        s == form[r]
    IN  /\ by_key' = [by_key EXCEPT ![s] = remove_one(@, p.key, p.at)]
        /\ by_peer' = [by_peer EXCEPT ![s] = remove_one(@, p.peer, p.at)]
        /\ post' = [post EXCEPT ![r].step = "released"]

-----------------------------------------------------------------------------
\* A handler starts: throttle_key and peer_key name the post, and the clock
\* is read before the lock is taken.
arrive(r, k, p) ==
    /\ post[r].step = "new"
    /\ post' = [post EXCEPT ![r] = [step |-> "arrived", key |-> k, peer |-> p, at |-> clock]]
    /\ UNCHANGED <<form, clock, by_key, by_peer, permits, hashing, kept>>

\* A login that holds a reservation takes a permit and moves it into the
\* blocking closure, or gives the reservation back when none is free.
password_slot(r) ==
    /\ post[r].step = "reserved" /\ form[r] # "register"
    /\ \/ /\ permits > 0
          /\ permits' = permits - 1
          /\ hashing' = hashing \cup {r}
          /\ post' = [post EXCEPT ![r].step = "checking"]
          /\ UNCHANGED <<by_key, by_peer>>
       \/ /\ permits = 0
          /\ release(r)
          /\ UNCHANGED <<permits, hashing>>
    /\ UNCHANGED <<form, clock, kept>>

\* The closure ends and drops its permit; the handler, if it still waits,
\* learns whether the password was right. A wrong one, or a hash that does
\* not parse, drops the reservation and keeps the charge.
verify_owner_password(r) ==
    /\ r \in hashing
    /\ hashing' = hashing \ {r}
    /\ permits' = permits + 1
    /\ \/ post[r].step = "checking" /\ \E ok \in {"right", "wrong"} :
            post' = [post EXCEPT ![r].step = ok]
       \/ post[r].step = "gone" /\ UNCHANGED post
    /\ UNCHANGED <<form, clock, by_key, by_peer, kept>>

\* The right password gives the reservation back.
login(r) ==
    /\ post[r].step = "right"
    /\ release(r)
    /\ UNCHANGED <<form, clock, permits, hashing, kept>>

\* A registration keeps the charge for the row it wrote and gives it back
\* when the insert failed.
register(r) ==
    /\ post[r].step = "reserved" /\ form[r] = "register"
    /\ \/ post' = [post EXCEPT ![r].step = "wrong"] /\ UNCHANGED <<by_key, by_peer>>
       \/ release(r)
    /\ UNCHANGED <<form, clock, permits, hashing, kept>>

\* The permit dropped with the handler. Mutant.
Gone_permit(r) ==
    /\ post[r].step = "checking"
    /\ post' = [post EXCEPT ![r].step = "gone"]
    /\ permits' = permits + 1
    /\ UNCHANGED <<form, clock, by_key, by_peer, hashing, kept>>

\* The connection goes while the handler waits: the future is dropped and
\* the reservation with it, and the closure runs on with its permit.
Gone(r) ==
    /\ post[r].step = "checking"
    /\ post' = [post EXCEPT ![r].step = "gone"]
    /\ UNCHANGED <<form, clock, by_key, by_peer, permits, hashing, kept>>

Tick ==
    /\ clock < MaxTime
    /\ clock' = clock + 1
    /\ UNCHANGED <<form, by_key, by_peer, post, permits, hashing, kept>>

LoginNext ==
    \/ Tick
    \/ \E r \in Reqs :
        \/ \E k \in Keys, p \in Peers : arrive(r, k, p)
        \/ reserve(r) \/ password_slot(r) \/ verify_owner_password(r)
        \/ login(r) \/ register(r) \/ Gone(r)

LoginSpec == LoginInit /\ [][LoginNext]_lvars

-----------------------------------------------------------------------------
\* The posts of a surface that charge one window: not given back, not aged,
\* and made since the map was last cleared.
Charged(s, which, name) ==
    {r \in Reqs : /\ form[r] = s /\ which \in kept[r]
                  /\ post[r][which] = name
                  /\ post[r].step # "released" /\ clock < post[r].at + Window}

\* The posts given back after their charge had been cleared with its map: a
\* release then takes a charge of the same instant that is not its own.
Strayed(s, which, name) ==
    {r \in Reqs : form[r] = s /\ which \notin kept[r] /\ post[r][which] = name
                    /\ post[r].step = "released"}

\* However the posts interleave, no key holds more attempts inside a minute
\* than per_minute and no peer more than PEER_MULTIPLIER times that: running
\* and failed ones count from the moment they are admitted, a burst cannot
\* pass before the first is charged, and a release gives back one charge
\* (limiter.rs, reserve and remove_one). The one thing that loosens the
\* bound, by one, is a release whose own charge went with a cleared map.
AttemptsAreBounded ==
    \A s \in Surfaces :
        /\ \A k \in Keys : Cardinality(Charged(s, "key", k))
                                <= per_minute + Cardinality(Strayed(s, "key", k))
        /\ \A p \in Peers : Cardinality(Charged(s, "peer", p))
                                <= per_minute * PeerMultiplier + Cardinality(Strayed(s, "peer", p))

\* No more password hashes run at once than there are permits, also when the
\* callers hang up and others take their turn, and every permit comes back
\* (verify_owner_password moves the permit into the closure).
WorkIsBounded == permits + Cardinality(hashing) = Permits

\* Both bounds at once: what the module comment of limiter.rs promises of the
\* budget that is taken before the password check.
LoadIsBounded == AttemptsAreBounded /\ WorkIsBounded
=============================================================================
