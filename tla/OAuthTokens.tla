----------------------------- MODULE OAuthTokens -----------------------------
(***************************************************************************)
(* The authorization server: clients, consent, authorization codes, access *)
(* tokens and refresh tokens, in the four tables behind OauthStore.        *)
(*                                                                         *)
(* A request is a handler that runs one statement (or transaction) of the  *)
(* store at a time, with the statements of other requests in between.  It  *)
(* may stop before any of them: the connection drops and axum drops the    *)
(* handler's future, the store answers with an error, or the server stops. *)
(*                                                                         *)
(* The family of every token is family_for(code), so it is named by its    *)
(* code.  A pair is the access and the refresh token issue_tokens mints at *)
(* once; pairs of one family are numbered in the order of their issue.     *)
(* Abstracted: secrets and PKCE (a caller proves who it is or does not),   *)
(* grants (a consented client holds one), scopes, resources, lifetimes (a  *)
(* row expires at any moment after it was made), and the owner's label, a  *)
(* column nothing here reads.                                              *)
(***************************************************************************)
EXTENDS Naturals

CONSTANTS
    Clients,     \* client ids
    Codes,       \* authorization codes, and so token families
    Reqs,        \* concurrent requests
    MaxPairs,    \* bound on the pairs issued to one family
    Refreshing,  \* the clients registered for the refresh_token grant
    None         \* Option::None

ASSUME OAuthAssumption ==
    /\ MaxPairs \in Nat
    /\ Refreshing \subseteq Clients
    /\ None \notin Clients \cup Codes

VARIABLES
    client,    \* oauth_client: whether the row is there, consented, revoked
    code,      \* oauth_code
    owner,     \* per code: the client it was issued to
    access,    \* oauth_token, per pair: what find_token and its caller make of the row
    refresh,   \* oauth_refresh, per pair: what rotate_refresh makes of the row
    issued,    \* per family: how many pairs were issued
    req,       \* per slot: the request under way
    killed     \* families revoked while none of their requests was issuing

vars == <<client, code, owner, access, refresh, issued, req, killed>>

Pairs == Codes \X (1 .. MaxPairs)
Family(f) == {p \in Pairs : p[1] = f}

PCs == {"idle", "grant", "code", "client", "token", "refresh", "answer", "caller", "spend",
        "recheck", "revoke", "kill", "killing", "auth", "admitted", "disowning"}

Idle == [pc |-> "idle", client |-> None, code |-> None, pair |-> None,
         proved |-> FALSE, hit |-> {}, alone |-> FALSE, late |-> FALSE, saves |-> FALSE]

Requests == [pc : PCs, client : Clients \cup {None}, code : Codes \cup {None},
             pair : Pairs \cup {None}, proved : BOOLEAN, hit : SUBSET Pairs,
             alone : BOOLEAN, late : BOOLEAN, saves : BOOLEAN]

TypeOK ==
    /\ client \in [Clients -> [row : {"none", "here", "purged"},
                              consented : BOOLEAN, revoked : BOOLEAN]]
    /\ code \in [Codes -> {"none", "fresh", "consumed", "expired", "purged"}]
    /\ owner \in [Codes -> Clients \cup {None}]
    /\ access \in [Pairs -> {"none", "live", "revoked", "expired", "purged"}]
    /\ refresh \in [Pairs -> {"none", "live", "consumed", "revoked", "expired", "purged"}]
    /\ issued \in [Codes -> 0 .. MaxPairs]
    /\ req \in [Reqs -> Requests]
    /\ killed \subseteq Codes

Init ==
    /\ client = [c \in Clients |-> [row |-> "none", consented |-> FALSE, revoked |-> FALSE]]
    /\ code = [f \in Codes |-> "none"]
    /\ owner = [f \in Codes |-> None]
    /\ access = [p \in Pairs |-> "none"]
    /\ refresh = [p \in Pairs |-> "none"]
    /\ issued = [f \in Codes |-> 0]
    /\ req = [r \in Reqs |-> Idle]
    /\ killed = {}

-----------------------------------------------------------------------------
(* What a request reads.                                                   *)

Registered(c) == client[c].row = "here"
is_live(c) == Registered(c) /\ ~client[c].revoked
live_consented_client(c) == is_live(c) /\ client[c].consented

\* A row keeps the answer its reader gives: consumed outranks revoked, and
\* revoked outranks expired, in rotate_refresh.  The UPDATE of rotate_refresh
\* matches a live row, and refresh_owner finds it.
Usable(p) == refresh[p] = "live"
Accepted(p) == access[p] = "live"
Written(rows) == {p \in Pairs : rows[p] \notin {"none", "purged"}}

\* An UPDATE that sets revoked_at on the rows in P that are not spent or over.
Revoked(rows, P) == [p \in Pairs |-> IF p \in P /\ rows[p] \in {"live", "expired"}
                                     THEN "revoked" ELSE rows[p]]

\* The request spent the credential of family f and has not handed out the next one.
Issuing(r, f) == req[r].code = f /\ req[r].pc \in {"client", "recheck", "token", "refresh"}

-----------------------------------------------------------------------------
(* Steps of a request.                                                     *)

At(r, pc) == req[r].pc = pc
Goto(r, pc) == req' = [req EXCEPT ![r].pc = pc]
End(r) == req' = [req EXCEPT ![r] = Idle]

\* POST /oauth/register: a row with an empty grant, in one statement.
register(c) ==
    /\ client[c].row = "none"
    /\ client' = [client EXCEPT ![c].row = "here"]
    /\ UNCHANGED <<code, owner, access, refresh, issued, req, killed>>

\* The console registers a client by hand and then writes its grant.
create(r, c) ==
    /\ At(r, "idle")
    /\ client[c].row = "none"
    /\ client' = [client EXCEPT ![c].row = "here"]
    /\ req' = [req EXCEPT ![r].pc = "grant", ![r].client = c]
    /\ UNCHANGED <<code, owner, access, refresh, issued, killed>>

\* POST /oauth/consent and the console's access form look the client up first.
\* Consent goes on to write a code, the access form stops at the grant.
consent(r, c, saves) ==
    /\ At(r, "idle")
    /\ is_live(c)
    /\ req' = [req EXCEPT ![r].pc = "grant", ![r].client = c, ![r].saves = saves]
    /\ UNCHANGED <<client, code, owner, access, refresh, issued, killed>>

\* Grant and consented_at in one UPDATE by id: it revives no row, and a row
\* revoked since the lookup stays revoked.
set_client_grant(r) ==
    /\ At(r, "grant")
    /\ client' = [client EXCEPT ![req[r].client].consented = @ \/ Registered(req[r].client)]
    /\ IF req[r].saves THEN Goto(r, "code") ELSE End(r)
    /\ UNCHANGED <<code, owner, access, refresh, issued, killed>>

\* The code names its client, whose row must still be there.
insert_code(r, f) ==
    /\ At(r, "code")
    /\ code[f] = "none"
    /\ Registered(req[r].client)
    /\ code' = [code EXCEPT ![f] = "fresh"]
    /\ owner' = [owner EXCEPT ![f] = req[r].client]
    /\ End(r)
    /\ UNCHANGED <<client, access, refresh, issued, killed>>

-----------------------------------------------------------------------------
(* POST /oauth/token, grant_type=authorization_code.                       *)

\* One UPDATE spends the code; the code of a caller that cannot prove it is
\* the client (redirect URI, PKCE verifier, client id) is spent all the same.
\* A code spent before sends the caller to revoke the family.
consume_code(r, f, proved) ==
    /\ At(r, "idle")
    /\ code[f] # "none"
    /\ CASE code[f] = "fresh" ->
              /\ code' = [code EXCEPT ![f] = "consumed"]
              /\ req' = [req EXCEPT ![r].pc = IF proved THEN "client" ELSE "idle",
                                    ![r].code = IF proved THEN f ELSE None]
         [] code[f] = "consumed" ->
              /\ req' = [req EXCEPT ![r].pc = "kill", ![r].code = f]
              /\ UNCHANGED code
         [] OTHER -> UNCHANGED <<code, req>>
    /\ UNCHANGED <<client, owner, access, refresh, issued, killed>>

\* The client must be there, live and approved, before anything is issued.
exchange_code(r) ==
    /\ At(r, "client")
    /\ IF live_consented_client(owner[req[r].code]) THEN Goto(r, "token") ELSE End(r)
    /\ UNCHANGED <<client, code, owner, access, refresh, issued, killed>>

-----------------------------------------------------------------------------
(* issue_tokens: two inserts, in statements of their own.                  *)

insert_token(r) ==
    LET f == req[r].code
        p == <<f, issued[f] + 1>>
    IN  /\ At(r, "token")
        /\ issued[f] < MaxPairs
        /\ Registered(owner[f])
        /\ issued' = [issued EXCEPT ![f] = @ + 1]
        /\ access' = [access EXCEPT ![p] = "live"]
        /\ req' = [req EXCEPT ![r].pc = IF owner[f] \in Refreshing THEN "refresh" ELSE "answer",
                              ![r].pair = p]
        /\ UNCHANGED <<client, code, owner, refresh, killed>>

insert_refresh(r) ==
    /\ At(r, "refresh")
    /\ Registered(owner[req[r].code])
    /\ refresh' = [refresh EXCEPT ![req[r].pair] = "live"]
    /\ Goto(r, "answer")
    /\ UNCHANGED <<client, code, owner, access, issued, killed>>

-----------------------------------------------------------------------------
(* POST /oauth/token, grant_type=refresh_token.                            *)

\* A token with a live owner has its caller checked before it is spent; any
\* other goes straight to the spend, so that a spent one still counts.
rotate(r, p, proved) ==
    /\ At(r, "idle")
    /\ p \in Written(refresh)
    /\ IF Usable(p) /\ ~proved
       THEN UNCHANGED req
       ELSE req' = [req EXCEPT ![r].pc = IF Usable(p) THEN "caller" ELSE "spend",
                               ![r].code = p[1], ![r].pair = p, ![r].proved = proved]
    /\ UNCHANGED <<client, code, owner, access, refresh, issued, killed>>

refresh_caller(r) ==
    /\ At(r, "caller")
    /\ IF live_consented_client(owner[req[r].code]) THEN Goto(r, "spend") ELSE End(r)
    /\ UNCHANGED <<client, code, owner, access, refresh, issued, killed>>

\* Mutant: the token is read, found unspent, and marked in a later statement
\* that does not look again.
rotate_refresh_reread(r, next) ==
    LET p == req[r].pair
    IN  /\ IF refresh[p] \in {"live", "consumed"}
           THEN /\ refresh' = [refresh EXCEPT ![p] = "consumed"]
                /\ Goto(r, next)
           ELSE /\ End(r)
                /\ UNCHANGED refresh
        /\ UNCHANGED <<client, code, owner, access, issued, killed>>

\* One UPDATE: rotated, or refused.  Consumed is looked at before revoked and
\* expired, because only a second presentation calls for the family.
rotate_refresh(r, next) ==
    LET p == req[r].pair
    IN  /\ IF Usable(p)
           THEN /\ refresh' = [refresh EXCEPT ![p] = "consumed"]
                /\ Goto(r, next)
           ELSE /\ IF refresh[p] = "consumed" THEN Goto(r, "kill") ELSE End(r)
                /\ UNCHANGED refresh
        /\ UNCHANGED <<client, code, owner, access, issued, killed>>

Spend(r) == At(r, "spend") /\ rotate_refresh(r, "recheck")

\* The same check again, on whatever the spend really took.
Recheck(r) ==
    /\ At(r, "recheck")
    /\ IF req[r].proved /\ live_consented_client(owner[req[r].code])
       THEN Goto(r, "token") ELSE End(r)
    /\ UNCHANGED <<client, code, owner, access, refresh, issued, killed>>

-----------------------------------------------------------------------------
(* Revocation.                                                             *)

\* POST /oauth/revoke with an access token.
revoke_token(r, p) ==
    /\ At(r, "idle")
    /\ p \in Written(access)
    /\ access' = Revoked(access, {p})
    /\ UNCHANGED <<client, code, owner, refresh, issued, req, killed>>

\* POST /oauth/revoke with a refresh token spends it and revokes its family.
revoke(r, p) ==
    /\ At(r, "idle")
    /\ p \in Written(refresh)
    /\ req' = [req EXCEPT ![r].pc = "revoke", ![r].code = p[1], ![r].pair = p]
    /\ UNCHANGED <<client, code, owner, access, refresh, issued, killed>>

RevokeSpend(r) == At(r, "revoke") /\ rotate_refresh(r, "kill")

\* Mutant: only the access tokens of the family go.
revoke_family_access(r) ==
    LET f == req[r].code
        alone == \A q \in Reqs : ~Issuing(q, f)
    IN  \/ /\ At(r, "kill")
           /\ req' = [req EXCEPT ![r].pc = "killing", ![r].alone = alone,
                                 ![r].hit = Written(access) \cap Family(f)]
           /\ UNCHANGED <<client, code, owner, access, refresh, issued, killed>>
        \/ /\ At(r, "killing")
           /\ access' = Revoked(access, req[r].hit)
           /\ killed' = IF req[r].alone /\ alone THEN killed \cup {f} ELSE killed
           /\ End(r)
           /\ UNCHANGED <<client, code, owner, refresh, issued>>

\* revoke_family: a transaction of two UPDATEs, the access tokens as they are
\* now and then the refresh tokens, seen by others when it commits.
revoke_family(r) ==
    LET f == req[r].code
        alone == \A q \in Reqs : ~Issuing(q, f)
    IN  \/ /\ At(r, "kill")
           /\ req' = [req EXCEPT ![r].pc = "killing", ![r].alone = alone,
                                 ![r].hit = Written(access) \cap Family(f)]
           /\ UNCHANGED <<client, code, owner, access, refresh, issued, killed>>
        \/ /\ At(r, "killing")
           /\ access' = Revoked(access, req[r].hit)
           /\ refresh' = Revoked(refresh, Family(f))
           /\ killed' = IF req[r].alone /\ alone /\ Written(access) \cap Family(f) \subseteq req[r].hit
                        THEN killed \cup {f} ELSE killed
           /\ End(r)
           /\ UNCHANGED <<client, code, owner, issued>>

\* The owner revokes a client in the console: one transaction over its row,
\* its access tokens and its refresh tokens.  Its codes are left as they are.
revoke_client(r, c) ==
    LET mine == {p \in Pairs : owner[p[1]] = c}
    IN  \/ /\ At(r, "idle")
           /\ Registered(c)
           /\ req' = [req EXCEPT ![r].pc = "disowning", ![r].client = c,
                                 ![r].hit = Written(access) \cap mine]
           /\ UNCHANGED <<client, code, owner, access, refresh, issued, killed>>
        \/ /\ At(r, "disowning") /\ req[r].client = c
           /\ client' = [client EXCEPT ![c].revoked = TRUE]
           /\ access' = Revoked(access, req[r].hit)
           /\ refresh' = Revoked(refresh, mine)
           /\ End(r)
           /\ UNCHANGED <<code, owner, issued, killed>>

-----------------------------------------------------------------------------
(* An authenticated request: the token's row, then its client's.           *)

find_token(r, p) ==
    /\ At(r, "idle")
    /\ Accepted(p)
    /\ req' = [req EXCEPT ![r].pc = "auth", ![r].client = owner[p[1]], ![r].pair = p,
                          ![r].late = client[owner[p[1]]].revoked]
    /\ UNCHANGED <<client, code, owner, access, refresh, issued, killed>>

\* Mutant: the token's own row decides, and the client's is read for its grant.
authenticate_by_token(r) ==
    /\ At(r, "auth")
    /\ IF client[req[r].client].consented THEN Goto(r, "admitted") ELSE End(r)
    /\ UNCHANGED <<client, code, owner, access, refresh, issued, killed>>

authenticate(r) ==
    /\ At(r, "auth")
    /\ IF live_consented_client(req[r].client) THEN Goto(r, "admitted") ELSE End(r)
    /\ UNCHANGED <<client, code, owner, access, refresh, issued, killed>>

\* The answer is out, or the request is gone: see the head of the module.
Finish(r) ==
    /\ ~At(r, "idle")
    /\ End(r)
    /\ UNCHANGED <<client, code, owner, access, refresh, issued, killed>>

-----------------------------------------------------------------------------
(* Time.                                                                   *)

ExpireCode(f) ==
    /\ code[f] = "fresh"
    /\ code' = [code EXCEPT ![f] = "expired"]
    /\ UNCHANGED <<client, owner, access, refresh, issued, req, killed>>

ExpireAccess(p) ==
    /\ access[p] = "live"
    /\ access' = [access EXCEPT ![p] = "expired"]
    /\ UNCHANGED <<client, code, owner, refresh, issued, req, killed>>

ExpireRefresh(p) ==
    /\ refresh[p] = "live"
    /\ refresh' = [refresh EXCEPT ![p] = "expired"]
    /\ UNCHANGED <<client, code, owner, access, issued, req, killed>>

\* The hourly purge, a statement at a time: expired rows after their grace (a
\* spent code or token expires in the end too), and self-registered clients
\* that nobody approved in a day.
purge_expired ==
    /\ \/ /\ \E f \in Codes :
                /\ code[f] \in {"consumed", "expired"}
                /\ code' = [code EXCEPT ![f] = "purged"]
          /\ UNCHANGED <<client, access, refresh>>
       \/ /\ \E p \in Pairs :
                /\ access[p] \in {"revoked", "expired"}
                /\ access' = [access EXCEPT ![p] = "purged"]
          /\ UNCHANGED <<client, code, refresh>>
       \/ /\ \E p \in Pairs :
                /\ refresh[p] \in {"consumed", "revoked", "expired"}
                /\ refresh' = [refresh EXCEPT ![p] = "purged"]
          /\ UNCHANGED <<client, code, access>>
       \/ /\ \E c \in Clients :
                /\ is_live(c) /\ ~client[c].consented
                /\ client' = [client EXCEPT ![c].row = "purged"]
          /\ UNCHANGED <<code, access, refresh>>
    /\ UNCHANGED <<owner, issued, req, killed>>

-----------------------------------------------------------------------------

Consenting(r) ==
    \/ \E c \in Clients : create(r, c) \/ \E saves \in BOOLEAN : consent(r, c, saves)
    \/ set_client_grant(r)
    \/ \E f \in Codes : insert_code(r, f)

Exchanging(r) ==
    \/ \E f \in Codes, proved \in BOOLEAN : consume_code(r, f, proved)
    \/ exchange_code(r)
    \/ insert_token(r)
    \/ insert_refresh(r)

Rotating(r) ==
    \/ \E p \in Pairs, proved \in BOOLEAN : rotate(r, p, proved)
    \/ refresh_caller(r)
    \/ Spend(r)
    \/ Recheck(r)

Revoking(r) ==
    \/ \E p \in Pairs : revoke_token(r, p) \/ revoke(r, p)
    \/ RevokeSpend(r)
    \/ revoke_family(r)
    \/ \E c \in Clients : revoke_client(r, c)

Authenticating(r) ==
    \/ \E p \in Pairs : find_token(r, p)
    \/ authenticate(r)

Passing ==
    \/ \E f \in Codes : ExpireCode(f)
    \/ \E p \in Pairs : ExpireAccess(p) \/ ExpireRefresh(p)
    \/ purge_expired

Next ==
    \/ \E c \in Clients : register(c)
    \/ \E r \in Reqs : \/ Consenting(r) \/ Exchanging(r) \/ Rotating(r)
                        \/ Revoking(r) \/ Authenticating(r) \/ Finish(r)
    \/ Passing

Spec == Init /\ [][Next]_vars

-----------------------------------------------------------------------------
(* Properties.                                                             *)

\* What holds the authorization of family f: its code, a refresh token, or
\* the request that spent one and has not handed out the next.
Holding(f) == {<<"code", 0>> : x \in {y \in {f} : code[y] = "fresh"}}
              \cup {<<"refresh", p[2]>> : p \in {q \in Family(f) : Usable(q)}}
              \cup {<<"request", r>> : r \in {q \in Reqs : Issuing(q, f)}}

Chain == INSTANCE CredentialChain WITH
    Chains <- Codes,
    Holders <- {<<"code", 0>>} \cup ({"refresh"} \X (1 .. MaxPairs)) \cup ({"request"} \X Reqs),
    baton <- [f \in Codes |-> Holding(f)],
    begun <- {f \in Codes : code[f] # "none"}

\* However requests interleave, repeat, fail or vanish, an authorization has
\* one credential at a time, spent once, and never comes back when it is lost
\* (consume_code, rotate_refresh and issue_tokens).
OneCredential == Chain!ChainSpec

\* A family revoked for a replay, while no request of it was between its spend
\* and its inserts, is dead for good: no token of it is accepted, none can be
\* rotated, none is on its way (revoke_family, rotate_refresh).
DeadStaysDead ==
    \A f \in killed :
        /\ \A p \in Family(f) : ~Accepted(p) /\ ~Usable(p)
        /\ \A r \in Reqs : ~Issuing(r, f)
        /\ code[f] # "fresh"

\* A request whose token was looked up after the owner revoked its client is
\* not admitted, whatever consent or exchange was under way when the owner did
\* it (the second lookup of authenticate; revoke_client misses their inserts).
RevokedShutOut == \A r \in Reqs : req[r].pc = "admitted" => ~req[r].late

-----------------------------------------------------------------------------
(* What makes them inductive.                                              *)

\* A request that works on an authorization names a code that was written and
\* is no longer fresh, and the token it presented or mints is of that family.
Bound(r) ==
    /\ req[r].pc \in {"grant", "code", "auth", "admitted", "disowning"} => req[r].client \in Clients
    /\ req[r].pc \in {"client", "token", "refresh", "caller", "spend", "recheck", "revoke",
                     "kill", "killing"}
          => req[r].code \in Codes /\ code[req[r].code] \notin {"none", "fresh"}
    /\ req[r].pc \in {"refresh", "caller", "spend", "recheck", "revoke", "auth"}
          => req[r].pair \in Pairs
    /\ req[r].pc \in {"refresh", "caller", "spend", "recheck", "revoke"}
          => req[r].code = req[r].pair[1]

RequestsAreBound == \A r \in Reqs : Bound(r)

\* A code has its client, and a token row its code, which was spent for it.
RowsAreOwned ==
    /\ \A f \in Codes : code[f] # "none" => owner[f] \in Clients
    /\ \A p \in Pairs : access[p] # "none" \/ refresh[p] # "none" => code[p[1]] \notin {"none", "fresh"}

\* One credential: of the fresh code, the live refresh tokens and the requests
\* between a spend and an insert, a family has at most one.
AtMostOne ==
    /\ \A p, q \in Pairs : Usable(p) /\ Usable(q) /\ p[1] = q[1] => p = q
    /\ \A p \in Pairs, r \in Reqs : Usable(p) => ~Issuing(r, p[1])
    /\ \A r, q \in Reqs : \A f \in Codes : Issuing(r, f) /\ Issuing(q, f) => r = q

\* A token looked up late belongs to a client that is revoked, and stays so.
LateIsRevoked ==
    \A r \in Reqs : req[r].pc = "auth" /\ req[r].late => client[req[r].client].revoked

\* A family is revoked for a replay only once its code is spent.
KilledIsSpent == \A f \in killed : code[f] # "none"

ChainInv ==
    /\ TypeOK /\ RequestsAreBound /\ RowsAreOwned /\ AtMostOne
    /\ LateIsRevoked /\ RevokedShutOut /\ KilledIsSpent /\ DeadStaysDead
=============================================================================
