---------------------------- MODULE MCProcessState ----------------------------
(* The two pieces of state that live in the server process alone, the login *)
(* throttles and the digest cache. They share nothing, so a behaviour is of *)
(* one or of the other; one of the cache has either a private row in the    *)
(* user's own namespace and a rename, or a sealed item in a namespace that  *)
(* no row is in until one is written there.                                 *)
EXTENDS MCBootstrapCache, LoginLimiter

VARIABLE part

vars == <<part, lvars, cvars>>

\* Every post to the consent screen's login, or every one to registration. The
\* console's login runs the same steps as the consent screen's.
MCForms == {[r \in Reqs |-> f] : f \in {"consent", "register"}}

MCGrants == MCUserGrants \cup MCVaultGrants

\* What a behaviour of each part writes, and the grants it moves between.
Writes(p) == IF p = "rows" THEN {"note", "rename"} ELSE {"key", "entry"}
Given(p) ==
    IF p = "login" THEN MCUserGrants \cap MCVaultGrants
    ELSE IF p = "rows" THEN MCUserGrants ELSE MCVaultGrants

Init ==
    /\ part \in {"login", "rows", "sealed"}
    /\ LoginInit /\ CacheInit
    /\ \A c \in Clients : grant[c] \in Given(part)
    /\ part # "login" => \A r \in Reqs : form[r] = "consent"

\* Two keys, two peers or two requests differ in nothing but their names, so the
\* first post comes with a fixed key and peer, and one request comes first.
FirstKey == CHOOSE k \in Keys : TRUE
FirstPeer == CHOOSE p \in Peers : TRUE
FirstCaller == CHOOSE r \in Callers : TRUE

Next ==
    \/ /\ part = "login" /\ LoginNext /\ UNCHANGED <<part, cvars>>
       /\ (\A r \in Reqs : post[r].step = "new") =>
            \A r \in Reqs : post'[r].key \in {"", FirstKey} /\ post'[r].peer \in {"", FirstPeer}
    \/ /\ part # "login" /\ CacheNext /\ UNCHANGED <<part, lvars>>
       /\ Committed' \subseteq Writes(part)
       /\ \A c \in Clients : grant'[c] \in Given(part)
       /\ (\E r \in Callers : req'[r].step # "new") => req'[FirstCaller].step # "new"

Symmetry == Permutations(Reqs)

Spec == Init /\ [][Next]_vars
=============================================================================
