--------------------------- MODULE CredentialChain ---------------------------
(***************************************************************************)
(* What the token endpoint promises of one authorization: there is one     *)
(* credential for it at a time.  The owner's consent creates it, a client  *)
(* spends it and is handed its successor, and when it is lost nothing      *)
(* brings the authorization back short of another consent.                 *)
(***************************************************************************)
CONSTANTS Chains,   \* authorizations (token families)
          Holders   \* what may hold an authorization: credentials, requests

VARIABLES baton,    \* per authorization: the set of its current holders
          begun     \* the authorizations consented to so far

chainVars == <<baton, begun>>

ChainInit ==
    /\ baton = [f \in Chains |-> {}]
    /\ begun = {}

\* The owner consents: the first credential of the authorization exists.
Begin(f, h) ==
    /\ f \notin begun
    /\ begun' = begun \cup {f}
    /\ baton' = [baton EXCEPT ![f] = {h}]

\* The one holder hands the authorization on to the next.
Pass(f, h) ==
    /\ baton[f] # {}
    /\ baton' = [baton EXCEPT ![f] = {h}]
    /\ UNCHANGED begun

\* Authorizations end: revoked, expired, or lost with the request that held them.
Drop(F) ==
    /\ baton' = [f \in Chains |-> IF f \in F THEN {} ELSE baton[f]]
    /\ UNCHANGED begun

ChainNext ==
    \/ \E F \in SUBSET Chains : Drop(F)
    \/ \E f \in Chains, h \in Holders : Begin(f, h) \/ Pass(f, h)

ChainSpec == ChainInit /\ [][ChainNext]_chainVars
=============================================================================
