------------------------------ MODULE OAuthProofs ------------------------------
(***************************************************************************)
(* The token endpoint keeps one credential per authorization, a family     *)
(* revoked for a replay stays dead and a revoked client stays out, for any *)
(* number of clients, codes, pairs and concurrent requests; and processes  *)
(* that share a config file never spend one refresh token twice.           *)
(*                                                                         *)
(* Most steps of the endpoint hand nothing out: they move a request along  *)
(* or take rows away.  Those are shown once to keep the invariant          *)
(* (Narrows); the steps that create a code, spend a credential or insert   *)
(* its successor have a lemma each.                                        *)
(*                                                                         *)
(* Every step of the composition with the command-line processes is a step *)
(* of the endpoint or leaves it alone, so the endpoint's invariant holds   *)
(* there too.  A step of the server takes no token that has not been       *)
(* presented; a step of a process changes its own part, and the file only  *)
(* under the lock.                                                         *)
(***************************************************************************)
EXTENDS CliRefresh, TLAPS

USE OAuthAssumption DEF At, Usable, Accepted, Issuing, Family

LEMMA PairParts == \A p \in Pairs : p[1] \in Codes /\ p[2] \in 1 .. MaxPairs /\ p = <<p[1], p[2]>>
    BY DEF Pairs

LEMMA PairIs == \A f \in Codes, n \in 1 .. MaxPairs : <<f, n>> \in Pairs /\ <<f, n>>[1] = f
    BY DEF Pairs

LEMMA RequestIs == ASSUME ChainInv, NEW r \in Reqs PROVE req[r] \in Requests /\ Bound(r)
    BY DEF ChainInv, TypeOK, RequestsAreBound

LEMMA InitInv == Init => ChainInv
<1> SUFFICES ASSUME Init PROVE ChainInv
    OBVIOUS
<1>1. Idle \in Requests /\ Idle.pc = "idle"
    BY DEF Idle, Requests, PCs
<1>2. TypeOK
    BY <1>1 DEF Init, TypeOK
<1>3. \A r \in Reqs : req[r].pc = "idle"
    BY <1>1 DEF Init
<1>4. RequestsAreBound /\ LateIsRevoked /\ RevokedShutOut
    BY <1>3 DEF RequestsAreBound, Bound, LateIsRevoked, RevokedShutOut
<1>5. RowsAreOwned /\ KilledIsSpent /\ DeadStaysDead
    BY DEF Init, RowsAreOwned, KilledIsSpent, DeadStaysDead
<1>6. AtMostOne
    BY <1>3 DEF Init, AtMostOne
<1> QED BY <1>2, <1>4, <1>5, <1>6 DEF ChainInv

-----------------------------------------------------------------------------
(* How a request moves.                                                    *)

Others(r) == \A q \in Reqs : q # r => req'[q] = req[q]

\* Goto moves the request and leaves what it carries.
LEMMA GotoIs ==
    ASSUME TypeOK, NEW r \in Reqs, NEW pc \in PCs, Goto(r, pc)
    PROVE  /\ req' \in [Reqs -> Requests] /\ Others(r)
           /\ req'[r].pc = pc
           /\ req'[r].client = req[r].client /\ req'[r].code = req[r].code
           /\ req'[r].pair = req[r].pair /\ req'[r].late = req[r].late
           /\ req'[r].proved = req[r].proved
<1>1. req \in [Reqs -> Requests] /\ req' = [req EXCEPT ![r].pc = pc]
    BY DEF TypeOK, Goto
<1>2. [req[r] EXCEPT !.pc = pc] \in Requests
    BY <1>1 DEF Requests
<1> QED BY <1>1, <1>2 DEF Requests, Others

\* End leaves the slot idle.
LEMMA EndIs ==
    ASSUME TypeOK, NEW r \in Reqs, End(r)
    PROVE  req' \in [Reqs -> Requests] /\ Others(r) /\ req'[r].pc = "idle"
<1>1. req \in [Reqs -> Requests] /\ req' = [req EXCEPT ![r] = Idle]
    BY DEF TypeOK, End
<1>2. Idle \in Requests /\ Idle.pc = "idle"
    BY DEF Idle, Requests, PCs
<1> QED BY <1>1, <1>2 DEF Others

-----------------------------------------------------------------------------
(* Steps that hand nothing out.                                            *)

\* Request q goes on as it was, or to a place where it holds no more than before.
Tame(q) ==
    \/ req'[q] = req[q]
    \/ /\ Bound(q)'
       /\ \A f \in Codes : Issuing(q, f)' => Issuing(q, f)
       /\ req'[q].pc = "auth" /\ req'[q].late => client'[req'[q].client].revoked
       /\ req'[q].pc = "admitted" => ~req'[q].late

\* Nothing is handed out: no code turns fresh, no token live, and no request
\* comes to hold an authorization.
Narrows ==
    /\ TypeOK'
    /\ UNCHANGED <<owner, killed>>
    /\ \A f \in Codes : (code'[f] = "none" <=> code[f] = "none") /\ (code'[f] = "fresh" => code[f] = "fresh")
    /\ \A p \in Pairs : /\ access'[p] = "none" <=> access[p] = "none"
                        /\ access'[p] = "live" => access[p] = "live"
                        /\ refresh'[p] = "none" <=> refresh[p] = "none"
                        /\ refresh'[p] = "live" => refresh[p] = "live"
    /\ \A c \in Clients : client[c].revoked => client'[c].revoked
    /\ \A q \in Reqs : Tame(q)

LEMMA NarrowsInv == ASSUME ChainInv, Narrows PROVE ChainInv'
<1> USE DEF ChainInv
<1>1. \A q \in Reqs, f \in Codes : Issuing(q, f)' => Issuing(q, f)
    BY DEF Narrows, Tame
<1>2. RequestsAreBound'
    <2> SUFFICES ASSUME NEW q \in Reqs PROVE Bound(q)'
        BY DEF RequestsAreBound
    <2>1. CASE req'[q] = req[q]
        <3>1. Bound(q)
            BY DEF RequestsAreBound
        <3> QED BY <2>1, <3>1 DEF Bound, Narrows
    <2>2. CASE req'[q] # req[q]
        BY <2>2 DEF Narrows, Tame
    <2> QED BY <2>1, <2>2
<1>3. RowsAreOwned'
    BY PairParts DEF RowsAreOwned, Narrows
<1>4. AtMostOne'
    BY <1>1, PairParts DEF AtMostOne, Narrows
<1>5. LateIsRevoked' /\ RevokedShutOut'
    <2> SUFFICES ASSUME NEW q \in Reqs
                 PROVE  /\ req'[q].pc = "auth" /\ req'[q].late => client'[req'[q].client].revoked
                        /\ req'[q].pc = "admitted" => ~req'[q].late
        BY DEF LateIsRevoked, RevokedShutOut
    <2>1. req[q].pc = "auth" => req[q].client \in Clients
        BY DEF RequestsAreBound, Bound
    <2> QED BY <2>1 DEF LateIsRevoked, RevokedShutOut, Narrows, Tame
<1>6. KilledIsSpent' /\ DeadStaysDead'
    BY <1>1 DEF KilledIsSpent, DeadStaysDead, Narrows, TypeOK
<1> QED BY <1>2, <1>3, <1>4, <1>5, <1>6 DEF Narrows

\* A step that touches no table narrows when its one request stays tame.
LEMMA OnlyRequest ==
    ASSUME ChainInv, NEW r \in Reqs, req' \in [Reqs -> Requests], Others(r), Tame(r),
           UNCHANGED <<client, code, owner, access, refresh, issued, killed>>
    PROVE  Narrows
    BY DEF ChainInv, TypeOK, Narrows, Others, Tame

\* A request that ends holds nothing, wherever it was.
LEMMA Finishes ==
    ASSUME ChainInv, NEW r \in Reqs, End(r)
    PROVE  req' \in [Reqs -> Requests] /\ Others(r) /\ Tame(r)
    BY EndIs DEF ChainInv, Tame, Bound

LEMMA RegisterNarrows == ASSUME ChainInv, NEW c \in Clients, register(c) PROVE Narrows
<1>1. client' \in [Clients -> [row : {"none", "here", "purged"}, consented : BOOLEAN, revoked : BOOLEAN]]
    BY DEF ChainInv, TypeOK, register
<1>2. \A d \in Clients : client[d].revoked => client'[d].revoked
    BY DEF ChainInv, TypeOK, register
<1> QED BY <1>1, <1>2 DEF ChainInv, TypeOK, Narrows, Tame, register

LEMMA CreateNarrows == ASSUME ChainInv, NEW r \in Reqs, NEW c \in Clients, create(r, c) PROVE Narrows
<1> DEFINE x == [req[r] EXCEPT !.pc = "grant", !.client = c]
<1>1. client' \in [Clients -> [row : {"none", "here", "purged"}, consented : BOOLEAN, revoked : BOOLEAN]]
    BY DEF ChainInv, TypeOK, create
<1>2. \A d \in Clients : client[d].revoked => client'[d].revoked
    BY DEF ChainInv, TypeOK, create
<1>3. x \in Requests /\ x.pc = "grant" /\ x.client = c
    BY RequestIs DEF Requests, PCs
<1>4. req' = [req EXCEPT ![r] = x]
    BY DEF create
<1>5. req' \in [Reqs -> Requests] /\ Others(r) /\ Tame(r)
    BY <1>3, <1>4 DEF ChainInv, TypeOK, Others, Tame, Bound
<1> QED BY <1>1, <1>2, <1>5 DEF ChainInv, TypeOK, Narrows, Others, Tame, create

LEMMA ConsentNarrows ==
    ASSUME ChainInv, NEW r \in Reqs, NEW c \in Clients, NEW saves \in BOOLEAN, consent(r, c, saves)
    PROVE  Narrows
<1> DEFINE x == [req[r] EXCEPT !.pc = "grant", !.client = c, !.saves = saves]
<1>1. x \in Requests /\ x.pc = "grant" /\ x.client = c
    BY RequestIs DEF Requests, PCs
<1>2. req' = [req EXCEPT ![r] = x]
    BY DEF consent
<1>3. req' \in [Reqs -> Requests] /\ Others(r) /\ Tame(r)
    BY <1>1, <1>2 DEF ChainInv, TypeOK, Others, Tame, Bound
<1> QED BY <1>3, OnlyRequest DEF consent

LEMMA GrantNarrows == ASSUME ChainInv, NEW r \in Reqs, set_client_grant(r) PROVE Narrows
<1>1. req[r].pc = "grant" /\ req[r].client \in Clients /\ Bound(r)
    BY DEF ChainInv, RequestsAreBound, Bound, set_client_grant
<1>2. client' \in [Clients -> [row : {"none", "here", "purged"}, consented : BOOLEAN, revoked : BOOLEAN]]
    <2>1. client \in [Clients -> [row : {"none", "here", "purged"}, consented : BOOLEAN, revoked : BOOLEAN]]
        BY DEF ChainInv, TypeOK
    <2>2. PICK b \in BOOLEAN : client' = [client EXCEPT ![req[r].client].consented = b]
        BY DEF set_client_grant, Registered
    <2> QED BY <1>1, <2>1, <2>2
<1>3. \A d \in Clients : client[d].revoked => client'[d].revoked
    BY <1>1 DEF ChainInv, TypeOK, set_client_grant
<1>4. req' \in [Reqs -> Requests] /\ Others(r) /\ Tame(r)
    <2>1. CASE Goto(r, "code")
        BY <1>1, <2>1, GotoIs DEF ChainInv, PCs, Tame, Bound
    <2>2. CASE End(r)
        BY <2>2, Finishes
    <2> QED BY <2>1, <2>2 DEF set_client_grant
<1> QED BY <1>2, <1>3, <1>4 DEF ChainInv, TypeOK, Narrows, Others, Tame, set_client_grant

LEMMA ExchangeNarrows == ASSUME ChainInv, NEW r \in Reqs, exchange_code(r) PROVE Narrows
<1>1. req[r].pc = "client" /\ Bound(r) /\ UNCHANGED code
    BY DEF ChainInv, RequestsAreBound, exchange_code
<1>2. CASE Goto(r, "token")
    <2>1. req' \in [Reqs -> Requests] /\ Others(r) /\ Tame(r)
        BY <1>1, <1>2, GotoIs DEF ChainInv, PCs, Tame, Bound
    <2> QED BY <2>1, OnlyRequest DEF exchange_code
<1>3. CASE End(r)
    BY <1>3, Finishes, OnlyRequest DEF exchange_code
<1> QED BY <1>2, <1>3 DEF exchange_code

LEMMA RotateNarrows ==
    ASSUME ChainInv, NEW r \in Reqs, NEW p \in Pairs, NEW proved \in BOOLEAN, rotate(r, p, proved)
    PROVE  Narrows
<1> DEFINE pc == IF Usable(p) THEN "caller" ELSE "spend"
           x == [req[r] EXCEPT !.pc = pc, !.code = p[1], !.pair = p, !.proved = proved]
<1>1. p[1] \in Codes /\ code[p[1]] \notin {"none", "fresh"}
    BY PairParts DEF ChainInv, RowsAreOwned, rotate, Written
<1>2. x \in Requests /\ x.pc \in {"caller", "spend"} /\ x.code = p[1] /\ x.pair = p
    <2>1. PICK to \in {"caller", "spend"} : to = pc
        OBVIOUS
    <2>2. req[r] \in Requests /\ x = [req[r] EXCEPT !.pc = to, !.code = p[1], !.pair = p, !.proved = proved]
        BY <2>1, RequestIs
    <2> QED BY <1>1, <2>2 DEF Requests, PCs
<1>3. CASE UNCHANGED req
    BY <1>3, OnlyRequest DEF rotate, ChainInv, TypeOK, Others, Tame
<1>4. CASE req' = [req EXCEPT ![r] = x]
    <2>1. req' \in [Reqs -> Requests] /\ Others(r) /\ req'[r] = x
        BY <1>2, <1>4 DEF ChainInv, TypeOK, Others
    <2>2. Tame(r)
        BY <1>1, <1>2, <2>1 DEF rotate, Tame, Bound
    <2> QED BY <2>1, <2>2, OnlyRequest DEF rotate
<1> QED BY <1>3, <1>4 DEF rotate

LEMMA CallerNarrows == ASSUME ChainInv, NEW r \in Reqs, refresh_caller(r) PROVE Narrows
<1>1. req[r].pc = "caller" /\ Bound(r) /\ UNCHANGED code
    BY DEF ChainInv, RequestsAreBound, refresh_caller
<1>2. CASE Goto(r, "spend")
    <2>1. req' \in [Reqs -> Requests] /\ Others(r) /\ Tame(r)
        BY <1>1, <1>2, GotoIs DEF ChainInv, PCs, Tame, Bound
    <2> QED BY <2>1, OnlyRequest DEF refresh_caller
<1>3. CASE End(r)
    BY <1>3, Finishes, OnlyRequest DEF refresh_caller
<1> QED BY <1>2, <1>3 DEF refresh_caller

LEMMA RecheckNarrows == ASSUME ChainInv, NEW r \in Reqs, Recheck(r) PROVE Narrows
<1>1. req[r].pc = "recheck" /\ Bound(r) /\ UNCHANGED code
    BY DEF ChainInv, RequestsAreBound, Recheck
<1>2. CASE Goto(r, "token")
    <2>1. req' \in [Reqs -> Requests] /\ Others(r) /\ Tame(r)
        BY <1>1, <1>2, GotoIs DEF ChainInv, PCs, Tame, Bound
    <2> QED BY <2>1, OnlyRequest DEF Recheck
<1>3. CASE End(r)
    BY <1>3, Finishes, OnlyRequest DEF Recheck
<1> QED BY <1>2, <1>3 DEF Recheck

\* An UPDATE of revoked_at makes no row live and no row appear.
LEMMA RevokedIs ==
    ASSUME NEW S, {"none", "live", "revoked", "expired"} \subseteq S, NEW rows \in [Pairs -> S], NEW P
    PROVE  /\ Revoked(rows, P) \in [Pairs -> S]
           /\ \A p \in Pairs : /\ Revoked(rows, P)[p] = "none" <=> rows[p] = "none"
                               /\ Revoked(rows, P)[p] = "live" <=> rows[p] = "live" /\ p \notin P
    BY DEF Revoked

LEMMA AccessIs ==
    ASSUME ChainInv, NEW P, access' = Revoked(access, P)
    PROVE  /\ access' \in [Pairs -> {"none", "live", "revoked", "expired", "purged"}]
           /\ \A p \in Pairs : /\ access'[p] = "none" <=> access[p] = "none"
                               /\ access'[p] = "live" <=> access[p] = "live" /\ p \notin P
<1> DEFINE S == {"none", "live", "revoked", "expired", "purged"}
<1>1. access \in [Pairs -> S] /\ {"none", "live", "revoked", "expired"} \subseteq S
    BY DEF ChainInv, TypeOK
<1> HIDE DEF S
<1>2. /\ access' \in [Pairs -> S]
      /\ \A p \in Pairs : /\ access'[p] = "none" <=> access[p] = "none"
                          /\ access'[p] = "live" <=> access[p] = "live" /\ p \notin P
    BY <1>1, RevokedIs
<1> QED BY <1>2 DEF S

LEMMA RefreshIs ==
    ASSUME ChainInv, NEW P, refresh' = Revoked(refresh, P)
    PROVE  /\ refresh' \in [Pairs -> {"none", "live", "consumed", "revoked", "expired", "purged"}]
           /\ \A p \in Pairs : /\ refresh'[p] = "none" <=> refresh[p] = "none"
                               /\ refresh'[p] = "live" <=> refresh[p] = "live" /\ p \notin P
<1> DEFINE S == {"none", "live", "consumed", "revoked", "expired", "purged"}
<1>1. refresh \in [Pairs -> S] /\ {"none", "live", "revoked", "expired"} \subseteq S
    BY DEF ChainInv, TypeOK
<1> HIDE DEF S
<1>2. /\ refresh' \in [Pairs -> S]
      /\ \A p \in Pairs : /\ refresh'[p] = "none" <=> refresh[p] = "none"
                          /\ refresh'[p] = "live" <=> refresh[p] = "live" /\ p \notin P
    BY <1>1, RevokedIs
<1> QED BY <1>2 DEF S

LEMMA RevokeTokenNarrows ==
    ASSUME ChainInv, NEW r \in Reqs, NEW p \in Pairs, revoke_token(r, p) PROVE Narrows
    BY AccessIs DEF ChainInv, TypeOK, Narrows, Tame, revoke_token

LEMMA RevokeNarrows == ASSUME ChainInv, NEW r \in Reqs, NEW p \in Pairs, revoke(r, p) PROVE Narrows
<1> DEFINE x == [req[r] EXCEPT !.pc = "revoke", !.code = p[1], !.pair = p]
<1>1. p[1] \in Codes /\ code[p[1]] \notin {"none", "fresh"}
    BY PairParts DEF ChainInv, RowsAreOwned, revoke, Written
<1>2. x \in Requests /\ x.pc = "revoke" /\ x.code = p[1] /\ x.pair = p
    BY <1>1, RequestIs DEF Requests, PCs
<1>3. req' \in [Reqs -> Requests] /\ Others(r) /\ req'[r] = x
    BY <1>2 DEF ChainInv, TypeOK, Others, revoke
<1>4. Tame(r)
    BY <1>1, <1>2, <1>3 DEF revoke, Tame, Bound
<1> QED BY <1>3, <1>4, OnlyRequest DEF revoke

\* A spend that finds the token spent or over, and one that is not followed by
\* an insert, take the row away at most.
LEMMA SpendNarrows ==
    ASSUME ChainInv, NEW r \in Reqs,
           RevokeSpend(r) \/ (Spend(r) /\ ~Usable(req[r].pair))
    PROVE  Narrows
<1>1. /\ req[r].pc \in {"revoke", "spend"} /\ Bound(r) /\ req[r].pair \in Pairs
      /\ req[r].code \in Codes /\ code[req[r].code] \notin {"none", "fresh"}
      /\ UNCHANGED <<client, code, owner, access, issued, killed>>
    BY DEF ChainInv, RequestsAreBound, Bound, RevokeSpend, Spend, rotate_refresh
<1>2. Goto(r, "kill") \/ End(r)
    BY DEF RevokeSpend, Spend, rotate_refresh
<1>3. req' \in [Reqs -> Requests] /\ Others(r) /\ Tame(r)
    <2>1. CASE Goto(r, "kill")
        BY <1>1, <2>1, GotoIs DEF ChainInv, PCs, Tame, Bound
    <2>2. CASE End(r)
        BY <2>2, Finishes
    <2> QED BY <1>2, <2>1, <2>2
<1>4. refresh' = refresh \/ (Usable(req[r].pair) /\ refresh' = [refresh EXCEPT ![req[r].pair] = "consumed"])
    BY DEF RevokeSpend, Spend, rotate_refresh
<1>5. /\ refresh' \in [Pairs -> {"none", "live", "consumed", "revoked", "expired", "purged"}]
      /\ \A p \in Pairs : /\ refresh'[p] = "none" <=> refresh[p] = "none"
                          /\ refresh'[p] = "live" => refresh[p] = "live"
    BY <1>1, <1>4 DEF ChainInv, TypeOK
<1> QED BY <1>1, <1>3, <1>5 DEF ChainInv, TypeOK, Narrows, Others, Tame

LEMMA KillNarrows == ASSUME ChainInv, NEW r \in Reqs, At(r, "kill"), revoke_family(r) PROVE Narrows
<1> DEFINE alone == \A q \in Reqs : ~Issuing(q, req[r].code)
           hit == Written(access) \cap Family(req[r].code)
           x == [req[r] EXCEPT !.pc = "killing", !.alone = alone, !.hit = hit]
<1>1. hit \subseteq Pairs /\ Bound(r) /\ req[r] \in Requests
    BY RequestIs
<1>2. /\ req' = [req EXCEPT ![r] = x]
      /\ UNCHANGED <<client, code, owner, access, refresh, issued, killed>>
    BY DEF revoke_family
<1>0. alone \in BOOLEAN
    BY Zenon
<1> HIDE DEF hit, alone
<1>3. x \in Requests /\ x.pc = "killing" /\ x.code = req[r].code
    BY <1>1, <1>0 DEF Requests, PCs
<1>4. req' \in [Reqs -> Requests] /\ Others(r) /\ req'[r] = x
    BY <1>2, <1>3 DEF ChainInv, TypeOK, Others
<1>5. Tame(r)
    BY <1>1, <1>2, <1>3, <1>4 DEF Tame, Bound
<1> QED BY <1>2, <1>4, <1>5, OnlyRequest

LEMMA DisownNarrows ==
    ASSUME ChainInv, NEW r \in Reqs, NEW c \in Clients, revoke_client(r, c)
    PROVE  Narrows
<1> DEFINE mine == {p \in Pairs : owner[p[1]] = c}
           hit == Written(access) \cap mine
           x == [req[r] EXCEPT !.pc = "disowning", !.client = c, !.hit = hit]
<1>1. CASE At(r, "idle")
    <2>1. hit \subseteq Pairs /\ req[r] \in Requests
        BY RequestIs
    <2>2. /\ req' = [req EXCEPT ![r] = x]
          /\ UNCHANGED <<client, code, owner, access, refresh, issued, killed>>
        BY <1>1 DEF revoke_client
    <2> HIDE DEF hit
    <2>3. x \in Requests /\ x.pc = "disowning" /\ x.client = c
        BY <2>1 DEF Requests, PCs
    <2>4. req' \in [Reqs -> Requests] /\ Others(r) /\ req'[r] = x
        BY <2>2, <2>3 DEF ChainInv, TypeOK, Others
    <2>5. Tame(r)
        BY <2>3, <2>4 DEF Tame, Bound
    <2> QED BY <2>2, <2>4, <2>5, OnlyRequest
<1>2. CASE At(r, "disowning")
    <2>1. /\ client' = [client EXCEPT ![c].revoked = TRUE]
          /\ access' = Revoked(access, req[r].hit)
          /\ refresh' = Revoked(refresh, mine)
          /\ End(r)
          /\ UNCHANGED <<code, owner, issued, killed>>
        BY <1>2 DEF revoke_client
    <2>2. /\ client' \in [Clients -> [row : {"none", "here", "purged"}, consented : BOOLEAN, revoked : BOOLEAN]]
          /\ \A d \in Clients : client[d].revoked => client'[d].revoked
        <3>1. client \in [Clients -> [row : {"none", "here", "purged"}, consented : BOOLEAN, revoked : BOOLEAN]]
            BY DEF ChainInv, TypeOK
        <3> QED BY <2>1, <3>1
    <2>3. req' \in [Reqs -> Requests] /\ Others(r) /\ Tame(r)
        BY <2>1, Finishes
    <2> QED BY <2>1, <2>2, <2>3, AccessIs, RefreshIs DEF ChainInv, TypeOK, Narrows, Others, Tame
<1> QED BY <1>1, <1>2 DEF revoke_client

LEMMA FindTokenNarrows ==
    ASSUME ChainInv, NEW r \in Reqs, NEW p \in Pairs, find_token(r, p) PROVE Narrows
<1> DEFINE c == owner[p[1]]
           x == [req[r] EXCEPT !.pc = "auth", !.client = c, !.pair = p, !.late = client[c].revoked]
<1>1. c \in Clients
    BY PairParts DEF ChainInv, RowsAreOwned, find_token
<1>2. client[c].revoked \in BOOLEAN
    BY <1>1 DEF ChainInv, TypeOK
<1>3. req' = [req EXCEPT ![r] = x] /\ UNCHANGED <<client, code, owner, access, refresh, issued, killed>>
    BY DEF find_token
<1> HIDE DEF c
<1>4. x \in Requests /\ x.pc = "auth" /\ x.client = c /\ x.pair = p /\ x.late = client[c].revoked
    BY <1>1, <1>2, RequestIs DEF Requests, PCs
<1>5. req' \in [Reqs -> Requests] /\ Others(r) /\ req'[r] = x
    BY <1>3, <1>4 DEF ChainInv, TypeOK, Others
<1>6. Tame(r)
    BY <1>1, <1>3, <1>4, <1>5 DEF Tame, Bound
<1> QED BY <1>3, <1>5, <1>6, OnlyRequest

\* The second lookup: a client that is revoked by now is not admitted.
LEMMA AuthenticateNarrows == ASSUME ChainInv, NEW r \in Reqs, authenticate(r) PROVE Narrows
<1>1. /\ req[r].pc = "auth" /\ Bound(r)
      /\ req[r].late => client[req[r].client].revoked
      /\ UNCHANGED <<client, code, owner, access, refresh, issued, killed>>
    BY RequestIs DEF ChainInv, LateIsRevoked, authenticate
<1>2. CASE live_consented_client(req[r].client) /\ Goto(r, "admitted")
    <2>1. ~req[r].late
        BY <1>1, <1>2 DEF live_consented_client, is_live
    <2>2. req' \in [Reqs -> Requests] /\ Others(r) /\ Tame(r)
        BY <1>1, <1>2, <2>1, GotoIs DEF ChainInv, PCs, Tame, Bound
    <2> QED BY <1>1, <2>2, OnlyRequest
<1>3. CASE End(r)
    BY <1>1, <1>3, Finishes, OnlyRequest
<1> QED BY <1>2, <1>3 DEF authenticate

LEMMA FinishNarrows == ASSUME ChainInv, NEW r \in Reqs, Finish(r) PROVE Narrows
    BY Finishes, OnlyRequest DEF Finish

\* Time and the purge take rows away.
LEMMA PassingNarrows == ASSUME ChainInv, Passing PROVE Narrows
<1>1. ASSUME NEW f \in Codes, ExpireCode(f) PROVE Narrows
    BY <1>1 DEF ChainInv, TypeOK, Narrows, Tame, ExpireCode
<1>2. ASSUME NEW p \in Pairs, ExpireAccess(p) PROVE Narrows
    BY <1>2 DEF ChainInv, TypeOK, Narrows, Tame, ExpireAccess
<1>3. ASSUME NEW p \in Pairs, ExpireRefresh(p) PROVE Narrows
    BY <1>3 DEF ChainInv, TypeOK, Narrows, Tame, ExpireRefresh
<1>4. ASSUME purge_expired PROVE Narrows
    <2>1. UNCHANGED <<owner, issued, req, killed>>
        BY <1>4 DEF purge_expired
    <2>2. /\ code' \in [Codes -> {"none", "fresh", "consumed", "expired", "purged"}]
          /\ \A f \in Codes : (code'[f] = "none" <=> code[f] = "none") /\ (code'[f] = "fresh" => code[f] = "fresh")
        BY <1>4 DEF ChainInv, TypeOK, purge_expired
    <2>3. /\ access' \in [Pairs -> {"none", "live", "revoked", "expired", "purged"}]
          /\ \A p \in Pairs : /\ access'[p] = "none" <=> access[p] = "none"
                              /\ access'[p] = "live" => access[p] = "live"
        BY <1>4 DEF ChainInv, TypeOK, purge_expired
    <2>4. /\ refresh' \in [Pairs -> {"none", "live", "consumed", "revoked", "expired", "purged"}]
          /\ \A p \in Pairs : /\ refresh'[p] = "none" <=> refresh[p] = "none"
                              /\ refresh'[p] = "live" => refresh[p] = "live"
        BY <1>4 DEF ChainInv, TypeOK, purge_expired
    <2>5. /\ client' \in [Clients -> [row : {"none", "here", "purged"}, consented : BOOLEAN, revoked : BOOLEAN]]
          /\ \A d \in Clients : client[d].revoked => client'[d].revoked
        <3>1. client \in [Clients -> [row : {"none", "here", "purged"}, consented : BOOLEAN, revoked : BOOLEAN]]
            BY DEF ChainInv, TypeOK
        <3>2. client' = client \/ \E c \in Clients : client' = [client EXCEPT ![c].row = "purged"]
            BY <1>4 DEF purge_expired
        <3> QED BY <3>1, <3>2
    <2> QED BY <2>1, <2>2, <2>3, <2>4, <2>5 DEF ChainInv, TypeOK, Narrows, Tame
<1> QED BY <1>1, <1>2, <1>3, <1>4 DEF Passing

-----------------------------------------------------------------------------
(* Steps that hand out a credential.                                       *)

\* Requests other than r are bound and timely as they were, when the tables
\* keep what they are bound to.
LEMMA OthersKept ==
    ASSUME ChainInv, NEW r \in Reqs, Others(r), UNCHANGED client,
           \A f \in Codes : code[f] \notin {"none", "fresh"} => code'[f] \notin {"none", "fresh"}
    PROVE  \A q \in Reqs : q # r => /\ Bound(q)'
                                    /\ req'[q].pc = "auth" /\ req'[q].late => client'[req'[q].client].revoked
                                    /\ req'[q].pc = "admitted" => ~req'[q].late
<1> SUFFICES ASSUME NEW q \in Reqs, q # r
             PROVE  /\ Bound(q)'
                    /\ req'[q].pc = "auth" /\ req'[q].late => client'[req'[q].client].revoked
                    /\ req'[q].pc = "admitted" => ~req'[q].late
    OBVIOUS
<1>1. req'[q] = req[q] /\ Bound(q)
    BY RequestIs DEF Others
<1>2. Bound(q)'
    BY <1>1 DEF Bound
<1> QED BY <1>1, <1>2 DEF ChainInv, LateIsRevoked, RevokedShutOut

\* The code is new: nothing holds the authorization yet.
LEMMA InsertCodeInv == ASSUME ChainInv, NEW r \in Reqs, NEW f \in Codes, insert_code(r, f) PROVE ChainInv'
<1>1. /\ code[f] = "none" /\ code' = [code EXCEPT ![f] = "fresh"]
      /\ owner' = [owner EXCEPT ![f] = req[r].client] /\ req[r].client \in Clients
      /\ End(r) /\ UNCHANGED <<client, access, refresh, issued, killed>>
    BY RequestIs DEF insert_code, Bound
<1>2. req' \in [Reqs -> Requests] /\ Others(r) /\ req'[r].pc = "idle"
    BY <1>1, EndIs DEF ChainInv
<1>3. TypeOK'
    BY <1>1, <1>2 DEF ChainInv, TypeOK
<1>4. RequestsAreBound' /\ LateIsRevoked' /\ RevokedShutOut'
    <2>1. \A g \in Codes : code[g] \notin {"none", "fresh"} => code'[g] \notin {"none", "fresh"}
        BY <1>1 DEF ChainInv, TypeOK
    <2> QED BY <1>1, <1>2, <2>1, OthersKept DEF RequestsAreBound, Bound, LateIsRevoked, RevokedShutOut
<1>5. RowsAreOwned'
    BY <1>1, PairParts DEF ChainInv, TypeOK, RowsAreOwned
<1>6. AtMostOne'
    BY <1>1, <1>2 DEF ChainInv, AtMostOne, Others
<1>7. KilledIsSpent' /\ DeadStaysDead'
    BY <1>1, <1>2 DEF ChainInv, TypeOK, KilledIsSpent, DeadStaysDead, Others
<1> QED BY <1>3, <1>4, <1>5, <1>6, <1>7 DEF ChainInv

\* A fresh code is the only holder, and the request that consumes it takes its
\* place.  A code spent before sends the request to revoke the family.
LEMMA ConsumeCodeInv ==
    ASSUME ChainInv, NEW r \in Reqs, NEW f \in Codes, NEW proved \in BOOLEAN, consume_code(r, f, proved)
    PROVE  ChainInv'
<1>1. UNCHANGED <<client, owner, access, refresh, issued, killed>> /\ req[r].pc = "idle"
    BY DEF consume_code
<1>2. CASE code[f] = "fresh"
    <2> DEFINE x == [req[r] EXCEPT !.pc = IF proved THEN "client" ELSE "idle",
                                   !.code = IF proved THEN f ELSE None]
    <2>1. code' = [code EXCEPT ![f] = "consumed"] /\ req' = [req EXCEPT ![r] = x]
        BY <1>2 DEF consume_code
    <2>2. x \in Requests /\ (x.pc = "idle" \/ (x.pc = "client" /\ x.code = f))
        <3>1. req[r] \in Requests
            BY RequestIs
        <3>2. CASE proved
            BY <3>1, <3>2 DEF Requests, PCs
        <3>3. CASE ~proved
            BY <3>1, <3>3 DEF Requests, PCs
        <3> QED BY <3>2, <3>3
    <2>3. req' \in [Reqs -> Requests] /\ Others(r) /\ req'[r] = x
        BY <2>1, <2>2 DEF ChainInv, TypeOK, Others
    <2> HIDE DEF x
    <2>4. TypeOK'
        BY <1>1, <2>1, <2>3 DEF ChainInv, TypeOK
    <2>5. RequestsAreBound' /\ LateIsRevoked' /\ RevokedShutOut'
        <3>1. \A g \in Codes : code[g] \notin {"none", "fresh"} => code'[g] \notin {"none", "fresh"}
            BY <2>1 DEF ChainInv, TypeOK
        <3>2. Bound(r)'
            BY <2>1, <2>2, <2>3 DEF ChainInv, TypeOK, Bound
        <3> QED BY <1>1, <2>2, <2>3, <3>1, <3>2, OthersKept DEF RequestsAreBound, LateIsRevoked, RevokedShutOut
    <2>6. RowsAreOwned'
        BY <1>1, <1>2, <2>1, PairParts DEF ChainInv, TypeOK, RowsAreOwned
    <2>7. \A p \in Pairs : ~(Usable(p) /\ p[1] = f)
        BY <1>2 DEF ChainInv, RowsAreOwned
    <2>8. \A q \in Reqs : ~Issuing(q, f)
        BY <1>2, RequestIs DEF Bound
    <2>9. AtMostOne'
        BY <1>1, <2>2, <2>3, <2>7, <2>8 DEF ChainInv, AtMostOne, Others
    <2>10. KilledIsSpent' /\ DeadStaysDead'
        <3>1. f \notin killed
            BY <1>2 DEF ChainInv, DeadStaysDead
        <3> QED BY <1>1, <2>1, <2>2, <2>3, <3>1 DEF ChainInv, TypeOK, KilledIsSpent, DeadStaysDead, Others
    <2> QED BY <2>4, <2>5, <2>6, <2>9, <2>10 DEF ChainInv
<1>3. CASE code[f] = "consumed"
    <2> DEFINE x == [req[r] EXCEPT !.pc = "kill", !.code = f]
    <2>1. code' = code /\ req' = [req EXCEPT ![r] = x]
        BY <1>3 DEF consume_code
    <2>2. x \in Requests /\ x.pc = "kill" /\ x.code = f
        BY RequestIs DEF Requests, PCs
    <2>3. req' \in [Reqs -> Requests] /\ Others(r) /\ req'[r] = x
        BY <2>1, <2>2 DEF ChainInv, TypeOK, Others
    <2>4. Tame(r)
        BY <1>3, <2>1, <2>2, <2>3 DEF Tame, Bound
    <2> QED BY <1>1, <2>1, <2>3, <2>4, OnlyRequest, NarrowsInv
<1>4. CASE code[f] \notin {"fresh", "consumed"}
    <2>1. UNCHANGED <<code, req>>
        BY <1>4 DEF consume_code
    <2> QED BY <1>1, <2>1, OnlyRequest, NarrowsInv DEF ChainInv, TypeOK, Others, Tame
<1> QED BY <1>2, <1>3, <1>4

\* The access token of the next pair: its family has a request issuing, so it
\* was not revoked for a replay, and the request goes on to the refresh token
\* or to its answer.
LEMMA InsertTokenInv == ASSUME ChainInv, NEW r \in Reqs, insert_token(r) PROVE ChainInv'
<1> DEFINE f == req[r].code
           p == <<f, issued[f] + 1>>
           pc == IF owner[f] \in Refreshing THEN "refresh" ELSE "answer"
           x == [req[r] EXCEPT !.pc = pc, !.pair = p]
<1>1. /\ req[r].pc = "token" /\ f \in Codes /\ code[f] \notin {"none", "fresh"}
      /\ issued[f] < MaxPairs /\ UNCHANGED <<client, code, owner, refresh, killed>>
    BY RequestIs DEF insert_token, Bound
<1>2. issued[f] \in 0 .. MaxPairs /\ issued[f] + 1 \in 1 .. MaxPairs
    BY <1>1 DEF ChainInv, TypeOK
<1>3. p \in Pairs /\ p[1] = f
    BY <1>1, <1>2, PairIs
<1>4. /\ issued' = [issued EXCEPT ![f] = @ + 1] /\ access' = [access EXCEPT ![p] = "live"]
      /\ req' = [req EXCEPT ![r] = x]
    BY DEF insert_token
<1> HIDE DEF p
<1>5. x \in Requests /\ x.pc \in {"refresh", "answer"} /\ x.code = f /\ x.pair = p
    BY <1>3, RequestIs DEF Requests, PCs
<1>6. req' \in [Reqs -> Requests] /\ Others(r) /\ req'[r] = x
    BY <1>4, <1>5 DEF ChainInv, TypeOK, Others
<1> HIDE DEF x
<1>7. TypeOK'
    <2>1. issued' \in [Codes -> 0 .. MaxPairs]
        BY <1>1, <1>2, <1>4 DEF ChainInv, TypeOK
    <2>2. access' \in [Pairs -> {"none", "live", "revoked", "expired", "purged"}]
        BY <1>3, <1>4 DEF ChainInv, TypeOK
    <2> QED BY <1>1, <1>6, <2>1, <2>2 DEF ChainInv, TypeOK
<1>8. RequestsAreBound' /\ LateIsRevoked' /\ RevokedShutOut'
    <2>1. Bound(r)'
        BY <1>1, <1>3, <1>5, <1>6 DEF Bound
    <2> QED BY <1>1, <1>5, <1>6, <2>1, OthersKept DEF RequestsAreBound, LateIsRevoked, RevokedShutOut
<1>9. RowsAreOwned'
    BY <1>1, <1>3, <1>4 DEF ChainInv, TypeOK, RowsAreOwned
<1>10. \A q \in Reqs, g \in Codes : Issuing(q, g)' => Issuing(q, g)
    BY <1>1, <1>5, <1>6 DEF Others
<1>11. AtMostOne'
    BY <1>1, <1>10, PairParts DEF ChainInv, AtMostOne
<1>12. f \notin killed
    BY <1>1 DEF ChainInv, DeadStaysDead
<1>13. KilledIsSpent' /\ DeadStaysDead'
    BY <1>1, <1>3, <1>4, <1>10, <1>12 DEF ChainInv, TypeOK, KilledIsSpent, DeadStaysDead
<1> QED BY <1>7, <1>8, <1>9, <1>11, <1>13 DEF ChainInv

\* The refresh token takes the place of the request that inserts it.
LEMMA InsertRefreshInv == ASSUME ChainInv, NEW r \in Reqs, insert_refresh(r) PROVE ChainInv'
<1> DEFINE f == req[r].code
           p == req[r].pair
<1>1. /\ req[r].pc = "refresh" /\ f \in Codes /\ code[f] \notin {"none", "fresh"}
      /\ p \in Pairs /\ p[1] = f /\ refresh' = [refresh EXCEPT ![p] = "live"]
      /\ Goto(r, "answer") /\ UNCHANGED <<client, code, owner, access, issued, killed>>
    BY RequestIs DEF insert_refresh, Bound
<1>2. req' \in [Reqs -> Requests] /\ Others(r) /\ req'[r].pc = "answer"
    BY <1>1, GotoIs DEF ChainInv, PCs
<1>3. TypeOK'
    BY <1>1, <1>2 DEF ChainInv, TypeOK
<1>4. RequestsAreBound' /\ LateIsRevoked' /\ RevokedShutOut'
    BY <1>1, <1>2, OthersKept DEF RequestsAreBound, Bound, LateIsRevoked, RevokedShutOut
<1>5. RowsAreOwned'
    BY <1>1 DEF ChainInv, TypeOK, RowsAreOwned
<1>6. \A q \in Pairs : Usable(q)' <=> Usable(q) \/ q = p
    BY <1>1 DEF ChainInv, TypeOK
<1>7. \A q \in Reqs, g \in Codes : Issuing(q, g)' <=> Issuing(q, g) /\ q # r
    BY <1>2 DEF Others
<1>8. Issuing(r, f)
    BY <1>1
<1>9. AtMostOne'
    BY <1>1, <1>6, <1>7, <1>8, PairParts DEF ChainInv, AtMostOne
<1>10. f \notin killed
    BY <1>8 DEF ChainInv, DeadStaysDead
<1>11. KilledIsSpent' /\ DeadStaysDead'
    BY <1>1, <1>6, <1>7, <1>10 DEF ChainInv, TypeOK, KilledIsSpent, DeadStaysDead
<1> QED BY <1>3, <1>4, <1>5, <1>9, <1>11 DEF ChainInv

\* The request that spends a live refresh token takes its place.
LEMMA SpendInv == ASSUME ChainInv, NEW r \in Reqs, Spend(r), Usable(req[r].pair) PROVE ChainInv'
<1> DEFINE f == req[r].code
           p == req[r].pair
<1>1. /\ req[r].pc = "spend" /\ f \in Codes /\ code[f] \notin {"none", "fresh"}
      /\ p \in Pairs /\ p[1] = f /\ refresh' = [refresh EXCEPT ![p] = "consumed"]
      /\ Goto(r, "recheck") /\ UNCHANGED <<client, code, owner, access, issued, killed>>
    BY RequestIs DEF Spend, rotate_refresh, Bound
<1>2. req' \in [Reqs -> Requests] /\ Others(r) /\ req'[r].pc = "recheck" /\ req'[r].code = f /\ req'[r].pair = p
    BY <1>1, GotoIs DEF ChainInv, PCs
<1>3. TypeOK'
    BY <1>1, <1>2 DEF ChainInv, TypeOK
<1>4. RequestsAreBound' /\ LateIsRevoked' /\ RevokedShutOut'
    BY <1>1, <1>2, OthersKept DEF RequestsAreBound, Bound, LateIsRevoked, RevokedShutOut
<1>5. RowsAreOwned'
    BY <1>1 DEF ChainInv, TypeOK, RowsAreOwned
<1>6. \A q \in Pairs : Usable(q)' <=> Usable(q) /\ q # p
    BY <1>1 DEF ChainInv, TypeOK
<1>7. \A q \in Reqs, g \in Codes : Issuing(q, g)' <=> Issuing(q, g) \/ (q = r /\ g = f)
    BY <1>1, <1>2 DEF Others
<1>8. AtMostOne'
    BY <1>1, <1>6, <1>7, PairParts DEF ChainInv, AtMostOne
<1>9. f \notin killed
    BY <1>1 DEF ChainInv, DeadStaysDead
<1>10. KilledIsSpent' /\ DeadStaysDead'
    BY <1>1, <1>6, <1>7, <1>9 DEF ChainInv, TypeOK, KilledIsSpent, DeadStaysDead
<1> QED BY <1>3, <1>4, <1>5, <1>8, <1>10 DEF ChainInv

\* The commit of revoke_family.  A family counts as killed when its access
\* tokens were all there at the first UPDATE and nothing was being issued.
LEMMA KillingInv == ASSUME ChainInv, NEW r \in Reqs, At(r, "killing"), revoke_family(r) PROVE ChainInv'
<1> DEFINE f == req[r].code
           alone == \A q \in Reqs : ~Issuing(q, f)
<1>1. /\ f \in Codes /\ code[f] \notin {"none", "fresh"}
      /\ access' = Revoked(access, req[r].hit) /\ refresh' = Revoked(refresh, Family(f))
      /\ End(r) /\ UNCHANGED <<client, code, owner, issued>>
      /\ \/ killed' = killed
         \/ killed' = killed \cup {f} /\ alone /\ Written(access) \cap Family(f) \subseteq req[r].hit
    BY RequestIs DEF revoke_family, Bound
<1>2. req' \in [Reqs -> Requests] /\ Others(r) /\ req'[r].pc = "idle"
    BY <1>1, EndIs DEF ChainInv
<1>3. TypeOK'
    BY <1>1, <1>2, AccessIs, RefreshIs DEF ChainInv, TypeOK
<1>4. RequestsAreBound' /\ LateIsRevoked' /\ RevokedShutOut'
    BY <1>1, <1>2, OthersKept DEF RequestsAreBound, Bound, LateIsRevoked, RevokedShutOut
<1>5. RowsAreOwned'
    BY <1>1, AccessIs, RefreshIs DEF ChainInv, RowsAreOwned
<1>6. \A q \in Reqs, g \in Codes : Issuing(q, g)' => Issuing(q, g)
    BY <1>2 DEF Others
<1>7. AtMostOne'
    BY <1>1, <1>6, RefreshIs, PairParts DEF ChainInv, AtMostOne
<1>8. \A g \in killed' : g \in killed \/ (g = f /\ alone /\ Written(access) \cap Family(f) \subseteq req[r].hit)
    BY <1>1
<1>9. \A p \in Family(f) : ~Usable(p)'
    BY <1>1, RefreshIs
<1>10. Written(access) \cap Family(f) \subseteq req[r].hit => \A p \in Family(f) : ~Accepted(p)'
    BY <1>1, AccessIs DEF Written
<1>11. KilledIsSpent' /\ DeadStaysDead'
    <2> SUFFICES ASSUME NEW g \in killed'
                 PROVE  /\ code'[g] # "none" /\ code'[g] # "fresh"
                        /\ \A p \in Family(g) : ~Accepted(p)' /\ ~Usable(p)'
                        /\ \A q \in Reqs : ~Issuing(q, g)'
        BY DEF KilledIsSpent, DeadStaysDead
    <2>1. CASE g \in killed
        <3>1. /\ code[g] # "none" /\ code[g] # "fresh"
              /\ \A p \in Family(g) : ~Accepted(p) /\ ~Usable(p)
              /\ \A q \in Reqs : ~Issuing(q, g)
              /\ g \in Codes
            BY <2>1 DEF ChainInv, TypeOK, KilledIsSpent, DeadStaysDead
        <3>2. \A p \in Family(g) : (Accepted(p)' => Accepted(p)) /\ (Usable(p)' => Usable(p))
            BY <1>1, AccessIs, RefreshIs
        <3> QED BY <1>1, <1>6, <3>1, <3>2
    <2>2. CASE g \notin killed
        BY <1>1, <1>6, <1>8, <1>9, <1>10, <2>2
    <2> QED BY <2>1, <2>2
<1> QED BY <1>3, <1>4, <1>5, <1>7, <1>11 DEF ChainInv

-----------------------------------------------------------------------------
(* Every step keeps the invariant.                                         *)

\* The steps that hand out a credential; all others narrow.
HandsOut(r) ==
    \/ \E f \in Codes : insert_code(r, f)
    \/ \E f \in Codes, proved \in BOOLEAN : consume_code(r, f, proved)
    \/ insert_token(r)
    \/ insert_refresh(r)
    \/ Spend(r) /\ Usable(req[r].pair)
    \/ At(r, "killing") /\ revoke_family(r)

LEMMA StepKinds == ASSUME ChainInv, Next PROVE Narrows \/ \E r \in Reqs : HandsOut(r)
<1>1. ASSUME NEW r \in Reqs, Consenting(r) PROVE Narrows \/ HandsOut(r)
    BY <1>1, CreateNarrows, ConsentNarrows, GrantNarrows DEF Consenting, HandsOut
<1>2. ASSUME NEW r \in Reqs, Exchanging(r) PROVE Narrows \/ HandsOut(r)
    BY <1>2, ExchangeNarrows DEF Exchanging, HandsOut
<1>3. ASSUME NEW r \in Reqs, Rotating(r) PROVE Narrows \/ HandsOut(r)
    BY <1>3, RotateNarrows, CallerNarrows, SpendNarrows, RecheckNarrows DEF Rotating, HandsOut
<1>4. ASSUME NEW r \in Reqs, Revoking(r) PROVE Narrows \/ HandsOut(r)
    <2>1. CASE revoke_family(r)
        <3>1. At(r, "kill") \/ At(r, "killing")
            BY <2>1 DEF revoke_family
        <3> QED BY <2>1, <3>1, KillNarrows DEF HandsOut
    <2> QED BY <1>4, <2>1, RevokeTokenNarrows, RevokeNarrows, SpendNarrows, DisownNarrows DEF Revoking
<1>5. ASSUME NEW r \in Reqs, Authenticating(r) PROVE Narrows
    BY <1>5, FindTokenNarrows, AuthenticateNarrows DEF Authenticating
<1> QED BY <1>1, <1>2, <1>3, <1>4, <1>5, RegisterNarrows, FinishNarrows, PassingNarrows DEF Next

LEMMA NextInv == ASSUME ChainInv, [Next]_vars PROVE ChainInv'
<1>1. CASE Next
    BY <1>1, StepKinds, NarrowsInv, InsertCodeInv, ConsumeCodeInv, InsertTokenInv, InsertRefreshInv,
       SpendInv, KillingInv DEF HandsOut
<1>2. CASE UNCHANGED vars
    BY <1>2 DEF vars, ChainInv, TypeOK, RequestsAreBound, Bound, RowsAreOwned, AtMostOne,
                LateIsRevoked, RevokedShutOut, KilledIsSpent, DeadStaysDead
<1> QED BY <1>1, <1>2

\* The invariant of the token endpoint holds in every state.
THEOREM ChainInvariant == Spec => []ChainInv
    BY InitInv, NextInv, PTL DEF Spec

\* A family revoked for a replay while nothing of it was being issued stays
\* dead, however late requests, retries and inserts interleave (revoke_family).
THEOREM ReplayEndsTheFamily == Spec => []DeadStaysDead
<1>1. ChainInv => DeadStaysDead
    BY DEF ChainInv
<1> QED BY <1>1, ChainInvariant, PTL

\* A request whose token was looked up after its client was revoked is never
\* admitted (authenticate).
THEOREM RevokedStayOut == Spec => []RevokedShutOut
<1>1. ChainInv => RevokedShutOut
    BY DEF ChainInv
<1> QED BY <1>1, ChainInvariant, PTL

-----------------------------------------------------------------------------
(* The refinement: what holds an authorization is passed on or dropped.    *)

AllHolders == {<<"code", 0>>} \cup ({"refresh"} \X (1 .. MaxPairs)) \cup ({"request"} \X Reqs)

\* The three kinds of holder, told apart.
LEMMA HoldingIs ==
    ASSUME NEW f \in Codes, NEW h
    PROVE  h \in Holding(f) <=>
              \/ h = <<"code", 0>> /\ code[f] = "fresh"
              \/ \E p \in Pairs : p[1] = f /\ Usable(p) /\ h = <<"refresh", p[2]>>
              \/ \E r \in Reqs : Issuing(r, f) /\ h = <<"request", r>>
    BY DEF Holding

\* A fresh code is of no token and no request, so with AtMostOne there is at
\* most one holder; without a code there is none.
LEMMA OneHolder ==
    ASSUME ChainInv, NEW f \in Codes
    PROVE  /\ \A g, h \in Holding(f) : g = h
           /\ code[f] = "none" => Holding(f) = {}
<1>1. code[f] \in {"none", "fresh"} => \A p \in Pairs : p[1] = f => ~Usable(p)
    BY DEF ChainInv, RowsAreOwned
<1>2. code[f] \in {"none", "fresh"} => \A r \in Reqs : ~Issuing(r, f)
    BY RequestIs DEF Bound
<1>3. code[f] = "none" => Holding(f) = {}
    BY <1>1, <1>2, HoldingIs
<1>4. ASSUME NEW g \in Holding(f), NEW h \in Holding(f) PROVE g = h
    <2>1. CASE code[f] = "fresh"
        BY <1>1, <1>2, <1>4, <2>1, HoldingIs
    <2>2. CASE code[f] # "fresh" /\ \E r \in Reqs : Issuing(r, f)
        BY <1>4, <2>2, HoldingIs DEF ChainInv, AtMostOne
    <2>3. CASE code[f] # "fresh" /\ \A r \in Reqs : ~Issuing(r, f)
        BY <1>4, <2>3, HoldingIs DEF ChainInv, AtMostOne
    <2> QED BY <2>1, <2>2, <2>3
<1> QED BY <1>3, <1>4

Baton == [f \in Codes |-> Holding(f)]
Begun == {f \in Codes : code[f] # "none"}
Step == [Chain!ChainNext]_<<Baton, Begun>>

\* Where holders only go away, authorizations are dropped.
LEMMA DropStep ==
    ASSUME ChainInv, Begun' = Begun, \A f \in Codes : Holding(f)' \subseteq Holding(f)
    PROVE  Step
<1> DEFINE F == {f \in Codes : Holding(f)' = {}}
<1>1. \A f \in Codes : f \notin F => Holding(f)' = Holding(f)
    BY OneHolder
<1>2. Baton' = [f \in Codes |-> IF f \in F THEN {} ELSE Baton[f]]
    BY <1>1 DEF Baton
<1>3. F \in SUBSET Codes
    OBVIOUS
<1> QED BY <1>2, <1>3 DEF Step, Baton, Begun, Chain!ChainNext, Chain!Drop

\* Where the holder of one authorization is replaced, it is passed on.
LEMMA PassStep ==
    ASSUME Begun' = Begun, NEW f \in Codes, NEW h \in AllHolders, Holding(f) # {}, Holding(f)' = {h},
           \A g \in Codes \ {f} : Holding(g)' = Holding(g)
    PROVE  Step
<1>1. Baton' = [Baton EXCEPT ![f] = {h}] /\ Baton[f] # {}
    BY DEF Baton
<1> QED BY <1>1 DEF Step, Baton, Begun, AllHolders, Chain!ChainNext, Chain!Pass

LEMMA BeginStep ==
    ASSUME NEW f \in Codes, NEW h \in AllHolders, f \notin Begun, Begun' = Begun \cup {f},
           Holding(f)' = {h}, \A g \in Codes \ {f} : Holding(g)' = Holding(g)
    PROVE  Step
<1>1. Baton' = [Baton EXCEPT ![f] = {h}]
    BY DEF Baton
<1> QED BY <1>1 DEF Step, Baton, Begun, AllHolders, Chain!ChainNext, Chain!Begin

\* What a step does to the holders, from what it does to the rows.
LEMMA FewerHolders ==
    ASSUME \A f \in Codes : code'[f] = "fresh" => code[f] = "fresh",
           \A p \in Pairs : Usable(p)' => Usable(p),
           \A r \in Reqs, f \in Codes : Issuing(r, f)' => Issuing(r, f)
    PROVE  \A f \in Codes : Holding(f)' \subseteq Holding(f)
<1> SUFFICES ASSUME NEW f \in Codes, NEW h \in Holding(f)' PROVE h \in Holding(f)
    OBVIOUS
<1>1. \/ h = <<"code", 0>> /\ code'[f] = "fresh"
      \/ \E p \in Pairs : p[1] = f /\ Usable(p)' /\ h = <<"refresh", p[2]>>
      \/ \E r \in Reqs : Issuing(r, f)' /\ h = <<"request", r>>
    BY DEF Holding
<1> QED BY <1>1, HoldingIs

LEMMA SameHolders ==
    ASSUME NEW f \in Codes, code'[f] = "fresh" <=> code[f] = "fresh",
           \A p \in Pairs : p[1] = f => (Usable(p)' <=> Usable(p)),
           \A r \in Reqs : Issuing(r, f)' <=> Issuing(r, f)
    PROVE  Holding(f)' = Holding(f)
    BY DEF Holding

\* The holders after a step, as HoldingIs has them before it.
LEMMA HoldingNext ==
    ASSUME NEW f \in Codes, NEW h
    PROVE  h \in Holding(f)' <=>
              \/ h = <<"code", 0>> /\ code'[f] = "fresh"
              \/ \E p \in Pairs : p[1] = f /\ Usable(p)' /\ h = <<"refresh", p[2]>>
              \/ \E r \in Reqs : Issuing(r, f)' /\ h = <<"request", r>>
    BY DEF Holding

LEMMA NarrowsStep == ASSUME ChainInv, Narrows PROVE Step
<1>1. \A r \in Reqs, f \in Codes : Issuing(r, f)' => Issuing(r, f)
    BY DEF Narrows, Tame
<1>2. \A f \in Codes : Holding(f)' \subseteq Holding(f)
    BY <1>1, FewerHolders DEF Narrows
<1>3. Begun' = Begun
    BY DEF Narrows, Begun
<1> QED BY <1>2, <1>3, DropStep

LEMMA InsertCodeStep == ASSUME ChainInv, NEW r \in Reqs, NEW f \in Codes, insert_code(r, f) PROVE Step
<1>1. /\ code[f] = "none" /\ code' = [code EXCEPT ![f] = "fresh"] /\ End(r) /\ UNCHANGED refresh
      /\ req[r].pc = "code"
    BY DEF insert_code
<1>2. Others(r) /\ req'[r].pc = "idle"
    BY <1>1, EndIs DEF ChainInv
<1>3. \A q \in Reqs, g \in Codes : Issuing(q, g)' <=> Issuing(q, g)
    BY <1>1, <1>2 DEF Others
<1>4. \A g \in Codes \ {f} : Holding(g)' = Holding(g)
    BY <1>1, <1>3, SameHolders DEF ChainInv, TypeOK
<1>5. code'[f] = "fresh" /\ \A p \in Pairs : p[1] = f => ~Usable(p)'
    BY <1>1 DEF ChainInv, TypeOK, RowsAreOwned
<1>6. \A q \in Reqs : ~Issuing(q, f)'
    BY <1>1, <1>3, RequestIs DEF Bound
<1>7. Holding(f)' = {<<"code", 0>>}
    BY <1>5, <1>6, HoldingNext
<1>8. f \notin Begun /\ Begun' = Begun \cup {f}
    BY <1>1 DEF ChainInv, TypeOK, Begun
<1> QED BY <1>4, <1>7, <1>8, BeginStep DEF AllHolders

LEMMA ConsumeCodeStep ==
    ASSUME ChainInv, NEW r \in Reqs, NEW f \in Codes, NEW proved \in BOOLEAN, consume_code(r, f, proved)
    PROVE  Step
<1>1. UNCHANGED refresh /\ req[r].pc = "idle" /\ code[f] # "none" /\ req \in [Reqs -> Requests]
    BY DEF consume_code, ChainInv, TypeOK
<1>2. CASE code[f] = "fresh" /\ proved
    <2>1. /\ code' = [code EXCEPT ![f] = "consumed"]
          /\ req' = [req EXCEPT ![r] = [req[r] EXCEPT !.pc = "client", !.code = f]]
        BY <1>2 DEF consume_code
    <2>2. Others(r) /\ req'[r].pc = "client" /\ req'[r].code = f
        BY <1>1, <2>1 DEF Others, Requests
    <2>3. \A q \in Reqs, g \in Codes : Issuing(q, g)' <=> Issuing(q, g) \/ (q = r /\ g = f)
        BY <1>1, <2>2 DEF Others
    <2>4. \A g \in Codes \ {f} : Holding(g)' = Holding(g)
        BY <1>1, <2>1, <2>3, SameHolders DEF ChainInv, TypeOK
    <2>5. code'[f] # "fresh" /\ \A p \in Pairs : p[1] = f => ~Usable(p)'
        BY <1>1, <1>2, <2>1 DEF ChainInv, TypeOK, RowsAreOwned
    <2>6. \A q \in Reqs : Issuing(q, f)' <=> q = r
        BY <1>2, <2>3, RequestIs DEF Bound
    <2>7. Holding(f)' = {<<"request", r>>}
        BY <2>5, <2>6, HoldingNext
    <2>8. Holding(f) # {}
        BY <1>2, HoldingIs
    <2>9. Begun' = Begun
        BY <1>2, <2>1 DEF ChainInv, TypeOK, Begun
    <2> QED BY <2>4, <2>7, <2>8, <2>9, PassStep DEF AllHolders
<1>3. CASE ~(code[f] = "fresh" /\ proved)
    <2>1. \A g \in Codes : (code'[g] = "fresh" => code[g] = "fresh") /\ (code'[g] = "none" <=> code[g] = "none")
        BY <1>1, <1>3 DEF ChainInv, TypeOK, consume_code
    <2>2. Others(r) /\ (req'[r] = req[r] \/ req'[r].pc \in {"idle", "kill"})
        BY <1>1, <1>3 DEF consume_code, Others, Requests
    <2>3. \A q \in Reqs, g \in Codes : Issuing(q, g)' => Issuing(q, g)
        BY <2>2 DEF Others
    <2>4. \A g \in Codes : Holding(g)' \subseteq Holding(g)
        BY <1>1, <2>1, <2>3, FewerHolders
    <2>5. Begun' = Begun
        BY <2>1 DEF Begun
    <2> QED BY <2>4, <2>5, DropStep
<1> QED BY <1>2, <1>3

\* A client without refresh tokens ends its authorization with the access token.
LEMMA InsertTokenStep == ASSUME ChainInv, NEW r \in Reqs, insert_token(r) PROVE Step
<1>1. UNCHANGED <<code, refresh>> /\ req[r].pc = "token" /\ req \in [Reqs -> Requests]
    BY DEF insert_token, ChainInv, TypeOK
<1>2. Others(r) /\ req'[r].code = req[r].code
    BY <1>1 DEF insert_token, Others, Requests
<1>3. \A q \in Reqs, g \in Codes : Issuing(q, g)' => Issuing(q, g)
    BY <1>1, <1>2 DEF Others
<1>4. \A g \in Codes : Holding(g)' \subseteq Holding(g)
    BY <1>1, <1>3, FewerHolders
<1> QED BY <1>1, <1>4, DropStep DEF Begun

LEMMA InsertRefreshStep == ASSUME ChainInv, NEW r \in Reqs, insert_refresh(r) PROVE Step
<1>0. PICK f \in Codes, p \in Pairs : f = req[r].code /\ p = req[r].pair
    BY RequestIs DEF insert_refresh, Bound
<1>1. /\ req[r].pc = "refresh" /\ code[f] # "fresh" /\ p[1] = f
      /\ refresh' = [refresh EXCEPT ![p] = "live"] /\ Goto(r, "answer") /\ UNCHANGED code
    BY <1>0, RequestIs DEF insert_refresh, Bound
<1>2. Others(r) /\ req'[r].pc = "answer"
    BY <1>0, <1>1, GotoIs DEF ChainInv, PCs
<1>3. \A q \in Pairs : Usable(q)' <=> Usable(q) \/ q = p
    BY <1>1 DEF ChainInv, TypeOK
<1>4. \A q \in Reqs, g \in Codes : Issuing(q, g)' <=> Issuing(q, g) /\ q # r
    BY <1>2 DEF Others
<1>5. Issuing(r, f) /\ \A g \in Codes : g # f => ~Issuing(r, g)
    BY <1>0, <1>1
<1>6. \A g \in Codes \ {f} : Holding(g)' = Holding(g)
    BY <1>1, <1>3, <1>4, <1>5, SameHolders
<1>7. \A q \in Reqs : ~Issuing(q, f)'
    BY <1>1, <1>4, <1>5 DEF ChainInv, AtMostOne
<1>8. \A q \in Pairs : q[1] = f /\ Usable(q)' <=> q = p
    BY <1>1, <1>3, <1>5 DEF ChainInv, AtMostOne
<1>9. Holding(f)' = {<<"refresh", p[2]>>}
    BY <1>1, <1>7, <1>8, HoldingNext
<1>10. Holding(f) # {}
    BY <1>1, <1>5, HoldingIs
<1>11. <<"refresh", p[2]>> \in AllHolders
    BY <1>1, PairParts DEF AllHolders
<1> QED BY <1>1, <1>6, <1>9, <1>10, <1>11, PassStep DEF Begun

LEMMA SpendStep == ASSUME ChainInv, NEW r \in Reqs, Spend(r), Usable(req[r].pair) PROVE Step
<1>0. PICK f \in Codes, p \in Pairs : f = req[r].code /\ p = req[r].pair
    BY RequestIs DEF Spend, rotate_refresh, Bound
<1>1. /\ req[r].pc = "spend" /\ code[f] # "fresh" /\ p[1] = f /\ Usable(p)
      /\ refresh' = [refresh EXCEPT ![p] = "consumed"] /\ Goto(r, "recheck") /\ UNCHANGED code
    BY <1>0, RequestIs DEF Spend, rotate_refresh, Bound
<1>2. Others(r) /\ req'[r].pc = "recheck" /\ req'[r].code = f
    BY <1>0, <1>1, GotoIs DEF ChainInv, PCs
<1>3. \A q \in Pairs : Usable(q)' <=> Usable(q) /\ q # p
    BY <1>1 DEF ChainInv, TypeOK
<1>4. \A q \in Reqs, g \in Codes : Issuing(q, g)' <=> Issuing(q, g) \/ (q = r /\ g = f)
    BY <1>0, <1>1, <1>2 DEF Others
<1>5. \A g \in Codes \ {f} : Holding(g)' = Holding(g)
    BY <1>1, <1>3, <1>4, SameHolders
<1>6. \A q \in Reqs : Issuing(q, f)' <=> q = r
    BY <1>1, <1>4 DEF ChainInv, AtMostOne
<1>7. \A q \in Pairs : q[1] = f => ~Usable(q)'
    BY <1>1, <1>3 DEF ChainInv, AtMostOne
<1>8. Holding(f)' = {<<"request", r>>}
    BY <1>1, <1>6, <1>7, HoldingNext
<1>9. Holding(f) # {}
    BY <1>1, HoldingIs
<1> QED BY <1>1, <1>5, <1>8, <1>9, PassStep DEF Begun, AllHolders

LEMMA KillingStep == ASSUME ChainInv, NEW r \in Reqs, At(r, "killing"), revoke_family(r) PROVE Step
<1>1. refresh' = Revoked(refresh, Family(req[r].code)) /\ End(r) /\ UNCHANGED code
    BY DEF revoke_family
<1>2. Others(r) /\ req'[r].pc = "idle"
    BY <1>1, EndIs DEF ChainInv
<1>3. \A q \in Reqs, g \in Codes : Issuing(q, g)' => Issuing(q, g)
    BY <1>2 DEF Others
<1>4. \A p \in Pairs : Usable(p)' => Usable(p)
    BY <1>1, RefreshIs
<1>5. \A g \in Codes : Holding(g)' \subseteq Holding(g)
    BY <1>1, <1>3, <1>4, FewerHolders
<1> QED BY <1>1, <1>5, DropStep DEF Begun

LEMMA NextStep == ASSUME ChainInv, [Next]_vars PROVE Step
<1>1. CASE Next
    BY <1>1, StepKinds, NarrowsStep, InsertCodeStep, ConsumeCodeStep, InsertTokenStep, InsertRefreshStep,
       SpendStep, KillingStep DEF HandsOut
<1>2. CASE UNCHANGED vars
    <2>1. \A f \in Codes : Holding(f)' = Holding(f)
        BY <1>2, SameHolders DEF vars
    <2> QED BY <1>2, <2>1, DropStep DEF vars, Begun
<1> QED BY <1>1, <1>2

\* The token endpoint implements CredentialChain: whatever requests interleave,
\* repeat, fail or vanish, an authorization has one credential at a time, it is
\* spent once, and a lost one is gone (consume_code, rotate_refresh, issue_tokens).
THEOREM EndpointImplementsChain == Spec => OneCredential
<1>1. Init => Chain!ChainInit
    <2> SUFFICES ASSUME Init PROVE Chain!ChainInit
        OBVIOUS
    <2>1. \A r \in Reqs : req[r].pc = "idle"
        BY DEF Init, Idle
    <2>2. \A f \in Codes : Holding(f) = {}
        BY <2>1, HoldingIs DEF Init
    <2> QED BY <2>2 DEF Init, Chain!ChainInit
<1>2. ChainInv /\ [Next]_vars => [Chain!ChainNext]_Chain!chainVars
    BY NextStep DEF Step, Baton, Begun, Chain!chainVars
<1> QED BY <1>1, <1>2, ChainInvariant, PTL DEF Spec, OneCredential, Chain!ChainSpec

-----------------------------------------------------------------------------
(* The command-line client.                                                *)

HIDE DEF Accepted
USE CliAssumption DEF In

LEMMA CliInitInv == CliInit => CliInv
<1> SUFFICES ASSUME CliInit PROVE CliInv
    OBVIOUS
<1>1. ChainInv /\ TypeOK
    BY InitInv DEF CliInit, ChainInv
<1>2. \A p \in Procs : proc[p] = NoWork /\ NoWork.pc = "idle" /\ NoWork.slot = None /\ NoWork.tok = None
    BY DEF CliInit, NoWork
<1>3. CliTypeOK
    BY <1>1 DEF CliInit, CliTypeOK, NoWork
<1>4. WorkIsWired
    BY <1>2 DEF CliInit, WorkIsWired
<1>5. ClientsApproved
    BY DEF CliInit, Init, ClientsApproved, Idle
<1>6. LoginsArePrivate /\ RefreshIsOfDisk /\ CredentialIsSafe
    BY <1>2 DEF CliInit, LoginsArePrivate, Pending, RefreshIsOfDisk, CredentialIsSafe
<1> QED BY <1>1, <1>3, <1>4, <1>5, <1>6 DEF CliInv

\* A process talks to the endpoint as any client does.
LEMMA CliStepIsNext == ASSUME CliInv, CliNext PROVE [Next]_vars
<1>1. ASSUME NEW p \in Procs, refresh_answer(p) \/ login_answer(p) PROVE [Next]_vars
    <2>1. proc[p].slot \in Reqs
        BY <1>1 DEF refresh_answer, login_answer, CliInv, WorkIsWired
    <2>2. UNCHANGED vars \/ Finish(proc[p].slot)
        BY <1>1 DEF refresh_answer, login_answer
    <2> QED BY <2>1, <2>2 DEF Next
<1>2. ASSUME NEW p \in Procs, NEW r \in Reqs, refresh_post(p, r) PROVE [Next]_vars
    <2>1. disk \in Pairs /\ rotate(r, disk, TRUE)
        BY <1>2 DEF refresh_post, rotate, Written
    <2> QED BY <2>1 DEF Next, Rotating
<1>3. ASSUME NEW p \in Procs, NEW r \in Reqs, NEW f \in Codes, login(p, r, f) PROVE [Next]_vars
    BY <1>3 DEF login, Next, Exchanging
<1>4. ASSUME NEW p \in Procs, new(p) \/ lock_config(p) \/ refresh_gives_up(p) \/ refresh_timeout(p)
                             \/ save_locked(p) \/ save(p) \/ die(p)
      PROVE UNCHANGED vars
    BY <1>4 DEF new, lock_config, refresh_gives_up, refresh_timeout, save_locked, save, die
<1>5. ASSUME NEW r \in Reqs, Serve(r) PROVE Next
    BY <1>5 DEF Serve, Next, Consenting, Exchanging, Rotating, Revoking
<1>6. ASSUME NEW r \in Reqs, ServerFault(r) PROVE Next
    BY <1>6 DEF ServerFault, Next
<1>7. ASSUME NEW c \in Clients, OwnerStep(c) PROVE Next
    BY <1>7 DEF OwnerStep, Next, Consenting
<1>8. ASSUME CliPassing PROVE Next
    <2>1. disk \in Pairs
        BY <1>8 DEF CliPassing, CliInv, CliTypeOK
    <2> QED BY <1>8, <2>1 DEF CliPassing, Next, Passing
<1> QED BY <1>1, <1>2, <1>3, <1>4, <1>5, <1>6, <1>7, <1>8 DEF CliNext, CliStep

LEMMA EndpointInv == ASSUME CliInv, CliNext PROVE ChainInv' /\ TypeOK'
    BY CliStepIsNext, NextInv DEF CliInv, ChainInv

-----------------------------------------------------------------------------
(* Steps of the server.                                                    *)

Turn(r, a, b) == req[r].pc = a /\ req'[r].pc = b /\ req'[r].code = req[r].code

\* Where a step of the server takes the request it works on.  Clients are
\* approved, so no lookup turns an exchange away, nor a rotation of the client's own.
Turns(r) ==
    \/ Turn(r, "grant", "code") \/ Turn(r, "client", "token") \/ Turn(r, "token", "refresh")
    \/ Turn(r, "refresh", "answer") /\ req'[r].pair = req[r].pair /\ refresh'[req[r].pair] = "live"
    \/ Turn(r, "caller", "spend") /\ req'[r].pair = req[r].pair /\ req'[r].proved = req[r].proved
    \/ Turn(r, "spend", "recheck") /\ req'[r].proved = req[r].proved
    \/ Turn(r, "spend", "kill") /\ ~Usable(req[r].pair)
    \/ Turn(r, "recheck", "token") \/ Turn(r, "kill", "killing")
    \/ req'[r].pc = "idle" /\ \/ req[r].pc \in {"grant", "code", "killing"}
                              \/ req[r].pc = "spend" /\ ~Usable(req[r].pair)
                              \/ req[r].pc = "recheck" /\ ~req[r].proved

\* A token stops being live only where one of its family was presented.
TakesPresented(r) == \A g \in Pairs : Usable(g) => Usable(g)' \/ Presented(r, g[1])

LEMMA ServeTurns == ASSUME CliInv, NEW r \in Reqs, Serve(r) PROVE Others(r) /\ Turns(r) /\ TakesPresented(r)
<1>1. ChainInv /\ TypeOK /\ Bound(r) /\ req[r] \in Requests
    BY RequestIs DEF CliInv, ChainInv
<1>2. \A f \in Codes : code[f] # "none" => owner[f] \in Refreshing /\ live_consented_client(owner[f])
    BY DEF CliInv, ChainInv, ClientsApproved, RowsAreOwned
<1>3. CASE set_client_grant(r)
    <2>1. UNCHANGED refresh /\ req[r].pc = "grant" /\ (Goto(r, "code") \/ End(r))
        BY <1>3 DEF set_client_grant
    <2> QED BY <1>1, <2>1, GotoIs, EndIs DEF PCs, Turns, Turn, TakesPresented
<1>4. CASE exchange_code(r)
    <2>1. UNCHANGED refresh /\ req[r].pc = "client" /\ Goto(r, "token")
        BY <1>1, <1>2, <1>4 DEF exchange_code, Bound
    <2> QED BY <1>1, <2>1, GotoIs DEF PCs, Turns, Turn, TakesPresented
<1>5. CASE insert_token(r)
    <2>1. UNCHANGED refresh /\ req[r].pc = "token" /\ owner[req[r].code] \in Refreshing
        BY <1>1, <1>2, <1>5 DEF insert_token, Bound
    <2>2. req' = [req EXCEPT ![r] = [req[r] EXCEPT !.pc = "refresh", !.pair = <<req[r].code, issued[req[r].code] + 1>>]]
        BY <1>5, <2>1 DEF insert_token
    <2>3. Others(r) /\ Turn(r, "token", "refresh")
        BY <1>1, <2>1, <2>2 DEF TypeOK, Requests, Others, Turn
    <2> QED BY <2>1, <2>3 DEF Turns, TakesPresented
<1>6. CASE insert_refresh(r)
    <2>1. /\ req[r].pc = "refresh" /\ req[r].pair \in Pairs /\ Goto(r, "answer")
          /\ refresh' = [refresh EXCEPT ![req[r].pair] = "live"]
        BY <1>1, <1>6 DEF insert_refresh, Bound
    <2>2. TakesPresented(r) /\ refresh'[req[r].pair] = "live"
        BY <1>1, <2>1 DEF TypeOK, TakesPresented
    <2> QED BY <1>1, <2>1, <2>2, GotoIs DEF PCs, Turns, Turn
<1>7. ASSUME NEW f \in Codes, insert_code(r, f) PROVE Others(r) /\ Turns(r) /\ TakesPresented(r)
    <2>1. UNCHANGED refresh /\ req[r].pc = "code" /\ End(r)
        BY <1>7 DEF insert_code
    <2> QED BY <1>1, <2>1, EndIs DEF Turns, TakesPresented
<1>8. CASE refresh_caller(r)
    <2>1. UNCHANGED refresh /\ req[r].pc = "caller" /\ Goto(r, "spend")
        BY <1>1, <1>2, <1>8 DEF refresh_caller, Bound
    <2> QED BY <1>1, <2>1, GotoIs DEF PCs, Turns, Turn, TakesPresented
<1>9. CASE Spend(r)
    <2>1. /\ req[r].pc = "spend" /\ req[r].pair \in Pairs /\ req[r].pair[1] = req[r].code
          /\ \/ Goto(r, "recheck") /\ refresh' = [refresh EXCEPT ![req[r].pair] = "consumed"]
             \/ ~Usable(req[r].pair) /\ (Goto(r, "kill") \/ End(r)) /\ UNCHANGED refresh
        BY <1>1, <1>9 DEF Spend, rotate_refresh, Bound
    <2>2. TakesPresented(r)
        BY <1>1, <2>1 DEF TypeOK, TakesPresented, Presented
    <2> QED BY <1>1, <2>1, <2>2, GotoIs, EndIs DEF PCs, Turns, Turn
<1>10. CASE Recheck(r)
    <2>1. UNCHANGED refresh /\ req[r].pc = "recheck" /\ (Goto(r, "token") \/ (End(r) /\ ~req[r].proved))
        BY <1>1, <1>2, <1>10 DEF Recheck, Bound
    <2> QED BY <1>1, <2>1, GotoIs, EndIs DEF PCs, Turns, Turn, TakesPresented
<1>11. CASE At(r, "kill") /\ revoke_family(r)
    <2>1. UNCHANGED refresh
        BY <1>11 DEF revoke_family
    <2> DEFINE alone == \A q \in Reqs : ~Issuing(q, req[r].code)
               hit == Written(access) \cap Family(req[r].code)
               x == [req[r] EXCEPT !.pc = "killing", !.alone = alone, !.hit = hit]
    <2>2. req' = [req EXCEPT ![r] = x]
        BY <1>11 DEF revoke_family
    <2> HIDE DEF alone, hit
    <2>3. x.pc = "killing" /\ x.code = req[r].code
        BY <1>1 DEF Requests
    <2>4. Others(r) /\ req'[r] = x
        BY <1>1, <2>2 DEF TypeOK, Others
    <2> QED BY <1>11, <2>1, <2>3, <2>4 DEF Turns, Turn, TakesPresented
<1>12. CASE At(r, "killing") /\ revoke_family(r)
    <2>1. refresh' = Revoked(refresh, Family(req[r].code)) /\ End(r)
        BY <1>12 DEF revoke_family
    <2>2. TakesPresented(r)
        BY <1>1, <1>12, <2>1, RefreshIs DEF TakesPresented, Presented
    <2> QED BY <1>1, <1>12, <2>1, <2>2, EndIs DEF Turns
<1>13. ASSUME revoke_family(r) PROVE At(r, "kill") \/ At(r, "killing")
    BY <1>13 DEF revoke_family
<1> QED BY <1>3, <1>4, <1>5, <1>6, <1>7, <1>8, <1>9, <1>10, <1>11, <1>12, <1>13 DEF Serve

\* Approval is never lost: rows stay, consent stays, codes keep their owner.
LEMMA ApprovedStays == ASSUME CliInv, CliNext PROVE ClientsApproved'
<1> USE DEF CliInv, CliTypeOK, ClientsApproved, Registered, is_live, live_consented_client
<1>1. ASSUME NEW r \in Reqs, Others(r), UNCHANGED <<client, owner>>, req'[r].pc \notin {"grant", "code"},
             \A f \in Codes : code'[f] # "none" => code[f] # "none"
      PROVE ClientsApproved'
    BY <1>1 DEF Others
<1>2. ASSUME UNCHANGED <<client, code, owner, req>> PROVE ClientsApproved'
    BY <1>2
<1>3. /\ \A r \in Reqs : req[r].pc \in {"grant", "code"} => req[r].client \in Clients
      /\ \A f \in Codes : code[f] # "none" => owner[f] \in Clients
    BY RequestIs DEF Bound, ChainInv, RowsAreOwned
<1>4. ASSUME NEW c \in Clients, register(c) PROVE ClientsApproved'
    <2>1. \A d \in Clients : /\ ~client'[d].revoked /\ client'[d].row # "purged"
                             /\ client[d].row = "here" => client'[d].row = "here"
                             /\ client[d].consented => client'[d].consented
        BY <1>4 DEF register, TypeOK
    <2> QED BY <1>3, <1>4, <2>1 DEF register
<1>5. ASSUME NEW r \in Reqs, NEW c \in Clients, consent(r, c, TRUE) PROVE ClientsApproved'
    <2>1. Others(r) /\ req'[r].pc = "grant" /\ req'[r].client = c
        BY <1>5, RequestIs DEF consent, TypeOK, Others, Requests
    <2>2. UNCHANGED <<client, code, owner>> /\ client[c].row = "here"
        BY <1>5 DEF consent
    <2> QED BY <2>1, <2>2 DEF Others
<1>6. ASSUME NEW r \in Reqs, set_client_grant(r) PROVE ClientsApproved'
    <2>1. req[r].pc = "grant" /\ req[r].client \in Clients /\ client[req[r].client].row = "here"
        BY <1>3, <1>6 DEF set_client_grant
    <2>2. /\ client'[req[r].client].consented
          /\ \A d \in Clients : /\ ~client'[d].revoked /\ client'[d].row = client[d].row
                                /\ client[d].consented => client'[d].consented
        <3>1. (client[req[r].client].consented \/ client[req[r].client].row = "here") = TRUE
            BY <2>1
        <3>2. client' = [client EXCEPT ![req[r].client].consented = TRUE]
            BY <1>6, <3>1 DEF set_client_grant
        <3> QED BY <2>1, <3>2 DEF TypeOK
    <2>3. Others(r) /\ (req'[r].pc = "idle" \/ (req'[r].pc = "code" /\ req'[r].client = req[r].client))
        BY <1>6, GotoIs, EndIs DEF set_client_grant, PCs
    <2> QED BY <1>3, <1>6, <2>1, <2>2, <2>3 DEF set_client_grant, Others
<1>7. ASSUME NEW r \in Reqs, NEW f \in Codes, insert_code(r, f) PROVE ClientsApproved'
    <2>1. Others(r) /\ req'[r].pc = "idle"
        BY <1>7, EndIs DEF insert_code
    <2>2. \A g \in Codes : code'[g] # "none" => \/ code[g] # "none" /\ owner'[g] = owner[g]
                                               \/ owner'[g] = req[r].client
        BY <1>7 DEF insert_code, TypeOK
    <2> QED BY <1>7, <2>1, <2>2 DEF insert_code, Others
<1>8. ASSUME NEW r \in Reqs, Serve(r), ~set_client_grant(r), \A f \in Codes : ~insert_code(r, f)
      PROVE ClientsApproved'
    <2>1. UNCHANGED <<client, owner, code>> /\ req[r].pc # "grant"
        BY <1>8 DEF Serve, exchange_code, insert_token, insert_refresh, refresh_caller, Spend,
                    rotate_refresh, Recheck, revoke_family
    <2>2. Others(r) /\ req'[r].pc \notin {"grant", "code"}
        BY <1>8, <2>1, ServeTurns DEF Turns, Turn
    <2> QED BY <1>1, <2>1, <2>2
<1>9. ASSUME NEW r \in Reqs, Finish(r) PROVE ClientsApproved'
    BY <1>1, <1>9, EndIs DEF Finish
<1>10. ASSUME NEW r \in Reqs, NEW f \in Codes, code[f] = "fresh", consume_code(r, f, TRUE) PROVE ClientsApproved'
    <2>1. Others(r) /\ req'[r].pc = "client"
        BY <1>10 DEF consume_code, TypeOK, Requests, Others
    <2>2. \A g \in Codes : code'[g] # "none" => code[g] # "none"
        BY <1>10 DEF consume_code, TypeOK
    <2> QED BY <1>1, <1>10, <2>1, <2>2 DEF consume_code
<1>11. ASSUME NEW r \in Reqs, rotate(r, disk, TRUE) PROVE ClientsApproved'
    <2>1. Others(r) /\ req'[r].pc \in {"caller", "spend"}
        BY <1>11 DEF rotate, TypeOK, Requests, Others
    <2> QED BY <1>1, <1>11, <2>1 DEF rotate
<1>12. ASSUME NEW p \in Procs, refresh_answer(p) \/ login_answer(p) PROVE ClientsApproved'
    <2>1. proc[p].slot \in Reqs
        BY <1>12 DEF refresh_answer, login_answer, WorkIsWired
    <2> QED BY <1>2, <1>9, <1>12, <2>1 DEF refresh_answer, login_answer, vars
<1>13. ASSUME NEW p \in Procs, new(p) \/ lock_config(p) \/ refresh_gives_up(p) \/ refresh_timeout(p)
                             \/ save_locked(p) \/ save(p) \/ die(p)
      PROVE ClientsApproved'
    BY <1>2, <1>13 DEF new, lock_config, refresh_gives_up, refresh_timeout, save_locked, save, die, vars
<1>14. ASSUME CliPassing PROVE ClientsApproved'
    BY <1>2, <1>14 DEF CliPassing, ExpireAccess
<1> HIDE DEF CliInv, CliTypeOK, ClientsApproved
<1> QED BY <1>4, <1>5, <1>6, <1>7, <1>8, <1>9, <1>10, <1>11, <1>12, <1>13, <1>14
        DEF CliNext, CliStep, refresh_post, login, ServerFault, OwnerStep

\* Where nothing new is presented and no live token is taken but a presented
\* one, a token that is ready stays so.
LEMMA ReadyStays ==
    ASSUME NEW r \in Reqs, TakesPresented(r), \A q \in Reqs, f \in Codes : Presented(q, f)' => Presented(q, f)
    PROVE  \A g \in Pairs : Ready(g) => Ready(g)'
    BY PairParts DEF Ready, TakesPresented

LEMMA ServeInv == ASSUME CliInv, NEW r \in Reqs, Serve(r) PROVE CliInv'
<1>1. UNCHANGED <<disk, lock, proc, fault>> /\ ChainInv' /\ TypeOK' /\ ClientsApproved'
    BY EndpointInv, ApprovedStays DEF Serve, cliVars, CliNext
<1>2. Others(r) /\ Turns(r) /\ TakesPresented(r)
    BY ServeTurns
<1>3. Bound(r) /\ ChainInv /\ \A q \in Reqs : q # r => req'[q] = req[q]
    BY <1>2, RequestIs DEF CliInv, Others
<1>4. \A q \in Reqs, f \in Codes : Presented(q, f)' => Presented(q, f)
    BY <1>2, <1>3 DEF Presented, Turns, Turn
<1>5. \A g \in Pairs : Ready(g) => Ready(g)'
    BY <1>2, <1>4, ReadyStays
<1>6. \A f \in Codes : code[f] \notin {"none", "fresh"} => code'[f] \notin {"none", "fresh"}
    BY <1>3 DEF Serve, set_client_grant, exchange_code, insert_token, insert_refresh, insert_code,
                refresh_caller, Spend, rotate_refresh, Recheck, revoke_family, ChainInv, TypeOK
<1>7. CliTypeOK' /\ WorkIsWired'
    BY <1>1 DEF CliInv, CliTypeOK, WorkIsWired
<1>8. \A p \in Procs : proc[p].pc \in {"posted", "login"} => proc[p].slot \in Reqs
    BY DEF CliInv, WorkIsWired
<1>9. \A p \in Procs, f \in Codes : Pending(p, f)' => Pending(p, f)
    BY <1>1, <1>2, <1>3, <1>8 DEF Pending, Turns, Turn
<1>10. LoginsArePrivate'
    <2> SUFFICES ASSUME NEW p \in Procs
                 PROVE  /\ In(p, "login") =>
                              /\ req'[proc[p].slot].pc \in {"client", "token", "refresh", "answer", "idle"}
                              /\ req'[proc[p].slot].pc = "answer" =>
                                    Ready(req[proc[p].slot].pair)'
                                    /\ req'[proc[p].slot].pair[1] = req'[proc[p].slot].code
                        /\ In(p, "keep") => Ready(proc[p].got)'
                        /\ \A f \in Codes : Pending(p, f)' =>
                              /\ code'[f] \notin {"none", "fresh"}
                              /\ disk # None => disk[1] # f
                              /\ \A q \in Procs : Pending(q, f)' => q = p
                              /\ \A q \in Reqs : ~Presented(q, f)'
        BY <1>1 DEF LoginsArePrivate
    <2>1. ASSUME NEW f \in Codes, Pending(p, f)'
          PROVE /\ code'[f] \notin {"none", "fresh"}
                /\ disk # None => disk[1] # f
                /\ \A q \in Procs : Pending(q, f)' => q = p
                /\ \A q \in Reqs : ~Presented(q, f)'
        BY <1>4, <1>6, <1>9, <2>1 DEF CliInv, LoginsArePrivate
    <2>2. In(p, "keep") => Ready(proc[p].got)'
        <3>1. In(p, "keep") => Ready(proc[p].got)
            BY DEF CliInv, LoginsArePrivate
        <3> QED BY <1>1, <1>5, <3>1 DEF Ready
    <2>3. ASSUME In(p, "login")
          PROVE  /\ req'[proc[p].slot].pc \in {"client", "token", "refresh", "answer", "idle"}
                 /\ req'[proc[p].slot].pc = "answer" =>
                       Ready(req[proc[p].slot].pair)'
                       /\ req'[proc[p].slot].pair[1] = req'[proc[p].slot].code
        <3>1. /\ proc[p].slot \in Reqs /\ proc'[p].slot = proc[p].slot
              /\ req[proc[p].slot].pc \in {"client", "token", "refresh", "answer", "idle"}
              /\ req[proc[p].slot].pc = "answer" => Ready(req[proc[p].slot].pair)
                                               /\ req[proc[p].slot].pair[1] = req[proc[p].slot].code
            BY <1>1, <1>8, <2>3 DEF CliInv, LoginsArePrivate
        <3>2. CASE proc[p].slot # r
            <4>1. req'[proc[p].slot] = req[proc[p].slot]
                BY <1>3, <3>1, <3>2
            <4> QED BY <1>5, <3>1, <4>1 DEF Ready
        <3>3. CASE proc[p].slot = r
            <4>1. req'[r].pc \in {"token", "refresh", "answer"}
                BY <1>2, <3>1, <3>3 DEF Turns, Turn
            <4>2. req'[r].pc = "answer" => /\ req[r].pc = "refresh" /\ req'[r].pair = req[r].pair
                                         /\ refresh'[req[r].pair] = "live" /\ req'[r].code = req[r].code
                BY <1>2, <3>1, <3>3 DEF Turns, Turn
            <4>3. req[r].pc = "refresh" => /\ req[r].pair \in Pairs /\ req[r].pair[1] = req[r].code
                                          /\ Pending(p, req[r].code) /\ req[r].code \in Codes
                BY <1>3, <2>3, <3>3 DEF Bound, Pending
            <4>4. req[r].pc = "refresh" => \A q \in Reqs : ~Presented(q, req[r].code)
                BY <4>3 DEF CliInv, LoginsArePrivate
            <4>5. ASSUME req'[r].pc = "answer" PROVE Ready(req[r].pair)'
                <5>1. PICK g \in Pairs : g = req[r].pair /\ g = req'[r].pair
                    BY <4>2, <4>3, <4>5
                <5>2. \A q \in Reqs : ~Presented(q, g[1])'
                    BY <1>4, <4>2, <4>3, <4>4, <4>5, <5>1
                <5> QED BY <4>2, <4>5, <5>1, <5>2 DEF Ready, Presented
            <4> QED BY <3>1, <3>3, <4>1, <4>2, <4>3, <4>5
        <3> QED BY <3>2, <3>3
    <2> QED BY <2>1, <2>2, <2>3
<1>11. RefreshIsOfDisk'
    <2>1. disk # None => disk \in Pairs /\ disk[1] \in Codes
        BY PairParts DEF CliInv, CliTypeOK
    <2>2. ASSUME NEW p \in Procs, In(p, "posted")
          PROVE  /\ req'[proc[p].slot].pc \in {"caller", "spend", "recheck", "token", "refresh", "answer",
                                               "kill", "killing", "idle"}
                 /\ req'[proc[p].slot].pc # "idle" => req'[proc[p].slot].code = disk[1]
                 /\ req'[proc[p].slot].pc = "answer" => req'[proc[p].slot].pair \in Pairs
                                                       /\ req'[proc[p].slot].pair[1] = disk[1]
        <3>1. /\ req[proc[p].slot].pc \in {"caller", "spend", "recheck", "token", "refresh", "answer",
                                            "kill", "killing", "idle"}
              /\ req[proc[p].slot].pc # "idle" => req[proc[p].slot].code = disk[1]
              /\ req[proc[p].slot].pc = "answer" => req[proc[p].slot].pair \in Pairs
                                                    /\ req[proc[p].slot].pair[1] = disk[1]
              /\ proc[p].slot \in Reqs
            BY <1>8, <2>2 DEF CliInv, RefreshIsOfDisk
        <3>2. CASE proc[p].slot # r
            BY <1>3, <3>1, <3>2
        <3>3. CASE proc[p].slot = r
            BY <1>2, <1>3, <3>1, <3>3 DEF Turns, Turn, Bound
        <3> QED BY <3>2, <3>3
    <2> QED BY <1>1, <1>6, <2>1, <2>2 DEF CliInv, RefreshIsOfDisk
<1>12. CredentialIsSafe'
    <2> SUFFICES ASSUME disk # None, ~fault
                 PROVE  /\ lock = None => Ready(disk)'
                        /\ \A p \in Procs :
                            /\ In(p, "locked") => Ready(disk)'
                            /\ In(p, "save") => Ready(proc[p].got)'
                            /\ In(p, "posted") =>
                                  /\ req'[proc[p].slot].pc \notin {"kill", "killing"}
                                  /\ req'[proc[p].slot].pc \in {"caller", "spend"}
                                        => req'[proc[p].slot].pair = disk /\ refresh'[disk] = "live"
                                  /\ req'[proc[p].slot].pc \in {"caller", "spend", "recheck"}
                                        => req'[proc[p].slot].proved
                                  /\ req'[proc[p].slot].pc = "answer" => Ready(req[proc[p].slot].pair)'
                                  /\ req'[proc[p].slot].pc = "idle" => Ready(disk)'
                                  /\ \A q \in Reqs : Presented(q, disk[1])' => q = proc[p].slot
        BY <1>1 DEF CredentialIsSafe
    <2>1. disk \in Pairs /\ disk[1] \in Codes /\ disk' = disk
        BY <1>1, PairParts DEF CliInv, CliTypeOK
    <2>2. Ready(disk) => Ready(disk)'
        BY <1>5, <2>1 DEF Ready
    <2>3. lock = None => Ready(disk)'
        BY <2>2 DEF CliInv, CredentialIsSafe
    <2>4. ASSUME NEW p \in Procs, In(p, "locked") PROVE Ready(disk)'
        BY <2>2, <2>4 DEF CliInv, CredentialIsSafe
    <2>5. ASSUME NEW p \in Procs, In(p, "save") PROVE Ready(proc[p].got)'
        <3>1. Ready(proc[p].got)
            BY <2>5 DEF CliInv, CredentialIsSafe
        <3> QED BY <1>1, <1>5, <3>1 DEF Ready
    <2>6. ASSUME NEW p \in Procs, In(p, "posted")
          PROVE  /\ req'[proc[p].slot].pc \notin {"kill", "killing"}
                 /\ req'[proc[p].slot].pc \in {"caller", "spend"}
                       => req'[proc[p].slot].pair = disk /\ refresh'[disk] = "live"
                 /\ req'[proc[p].slot].pc \in {"caller", "spend", "recheck"} => req'[proc[p].slot].proved
                 /\ req'[proc[p].slot].pc = "answer" => Ready(req[proc[p].slot].pair)'
                 /\ req'[proc[p].slot].pc = "idle" => Ready(disk)'
                 /\ \A q \in Reqs : Presented(q, disk[1])' => q = proc[p].slot
        <3>1. PICK s \in Reqs : s = proc[p].slot /\ s = proc'[p].slot
            BY <1>1, <1>8, <2>6
        <3>2. /\ req[s].pc \in {"caller", "spend", "recheck", "token", "refresh", "answer", "idle"}
              /\ req[s].pc # "idle" => req[s].code = disk[1]
            BY <2>6, <3>1 DEF CliInv, RefreshIsOfDisk, CredentialIsSafe
        <3>3. /\ req[s].pc \in {"caller", "spend"} => req[s].pair = disk /\ refresh[disk] = "live"
              /\ req[s].pc \in {"caller", "spend", "recheck"} => req[s].proved
              /\ req[s].pc = "answer" => Ready(req[s].pair)
              /\ req[s].pc = "idle" => Ready(disk)
              /\ \A q \in Reqs : Presented(q, disk[1]) => q = s
            BY <2>6, <3>1 DEF CliInv, CredentialIsSafe
        <3>4. \A q \in Reqs, f \in Codes : f = disk[1] /\ Presented(q, f)' => q = s
            BY <1>4, <2>1, <3>3
        <3>5. CASE s # r
            <4>1. req'[s] = req[s]
                BY <1>3, <3>5
            <4>2. refresh[disk] = "live" => refresh'[disk] = "live"
                BY <1>2, <2>1, <3>3, <3>5 DEF TakesPresented
            <4>3. req[s].pc = "answer" => Ready(req[s].pair)'
                BY <1>5, <3>3, <4>1 DEF Ready
            <4> QED BY <2>1, <2>2, <3>1, <3>2, <3>3, <3>4, <4>1, <4>2, <4>3 DEF Presented, Ready
        <3>6. CASE s = r
            <4>1. CASE Turn(r, "caller", "spend") /\ req'[r].pair = req[r].pair /\ req'[r].proved = req[r].proved
                <5>1. refresh'[disk] = "live"
                    BY <3>3, <3>6, <4>1 DEF Serve, Turn, refresh_caller, set_client_grant, exchange_code,
                       insert_token, insert_refresh, insert_code, Spend, rotate_refresh, Recheck, revoke_family
                <5> QED BY <2>1, <3>1, <3>3, <3>4, <3>6, <4>1, <5>1 DEF Presented, Turn
            <4>2. CASE Turn(r, "refresh", "answer") /\ req'[r].pair = req[r].pair /\ refresh'[req[r].pair] = "live"
                <5>1. PICK g \in Pairs : g = req[r].pair /\ g = req'[r].pair /\ g[1] = disk[1]
                    BY <1>3, <3>2, <3>6, <4>2 DEF Bound, Turn
                <5>2. \A q \in Reqs : ~Presented(q, g[1])'
                    BY <2>1, <3>4, <3>6, <4>2, <5>1 DEF Presented, Turn
                <5>3. Ready(req[proc[p].slot].pair)'
                    BY <3>1, <3>6, <4>2, <5>1, <5>2 DEF Ready, Presented
                <5> QED BY <2>1, <3>1, <3>4, <3>6, <4>2, <5>3 DEF Presented, Turn
            <4>3. CASE Turn(r, "spend", "recheck") /\ req'[r].proved = req[r].proved
                BY <2>1, <3>1, <3>3, <3>4, <3>6, <4>3 DEF Presented, Turn
            <4>4. CASE Turn(r, "recheck", "token") \/ Turn(r, "token", "refresh")
                BY <2>1, <3>1, <3>4, <3>6, <4>4 DEF Presented, Turn
            <4> QED BY <1>2, <3>2, <3>3, <3>6, <4>1, <4>2, <4>3, <4>4 DEF Turns, Turn
        <3> QED BY <3>5, <3>6
    <2> QED BY <2>3, <2>4, <2>5, <2>6
<1> QED BY <1>1, <1>7, <1>10, <1>11, <1>12 DEF CliInv

\* Steps beside the processes: the server fails a request, the owner registers
\* a client or starts a consent, an access token expires.  No request of a
\* process moves but one that fails.
LEMMA BesideInv ==
    ASSUME CliInv, CliNext, UNCHANGED <<disk, lock, proc, code, refresh>>, fault' \in BOOLEAN, fault => fault',
           \A q \in Reqs : \/ req'[q] = req[q]
                           \/ /\ req'[q].pc \in {"idle", "grant"}
                              /\ \A p \in Procs : proc[p].slot = q =>
                                    req'[q].pc = "idle" /\ (In(p, "posted") => fault')
    PROVE  CliInv'
<1>1. ChainInv' /\ TypeOK' /\ ClientsApproved'
    BY EndpointInv, ApprovedStays
<1>2. CliTypeOK' /\ WorkIsWired'
    BY <1>1 DEF CliInv, CliTypeOK, WorkIsWired
<1>3. \A q \in Reqs, f \in Codes : Presented(q, f)' => Presented(q, f)
    BY DEF Presented
<1>4. \A g \in Pairs : Ready(g) => Ready(g)'
    BY <1>3, PairParts DEF Ready
<1>5. \A p \in Procs : proc[p].pc \in {"posted", "login"} => proc[p].slot \in Reqs
    BY DEF CliInv, WorkIsWired
<1>6. \A p \in Procs : proc[p].pc \in {"posted", "login"} =>
            \/ req'[proc[p].slot] = req[proc[p].slot]
            \/ req'[proc[p].slot].pc = "idle" /\ (In(p, "posted") => fault')
    BY <1>5
<1>7. \A p \in Procs, f \in Codes : Pending(p, f)' => Pending(p, f)
    BY <1>6 DEF Pending
<1>8. LoginsArePrivate'
    <2>1. ASSUME NEW p \in Procs, NEW f \in Codes, Pending(p, f)'
          PROVE /\ code'[f] \notin {"none", "fresh"}
                /\ disk' # None => disk'[1] # f
                /\ \A q \in Procs : Pending(q, f)' => q = p
                /\ \A q \in Reqs : ~Presented(q, f)'
        BY <1>3, <1>7, <2>1 DEF CliInv, LoginsArePrivate
    <2>2. ASSUME NEW p \in Procs, In(p, "keep") PROVE Ready(proc[p].got)'
        <3>1. Ready(proc[p].got)
            BY <2>2 DEF CliInv, LoginsArePrivate
        <3> QED BY <1>4, <3>1 DEF Ready
    <2>3. ASSUME NEW p \in Procs, In(p, "login")
          PROVE  /\ req'[proc[p].slot].pc \in {"client", "token", "refresh", "answer", "idle"}
                 /\ req'[proc[p].slot].pc = "answer" =>
                       Ready(req[proc[p].slot].pair)'
                       /\ req'[proc[p].slot].pair[1] = req'[proc[p].slot].code
        <3>1. /\ req[proc[p].slot].pc \in {"client", "token", "refresh", "answer", "idle"}
              /\ req[proc[p].slot].pc = "answer" => Ready(req[proc[p].slot].pair)
                                               /\ req[proc[p].slot].pair[1] = req[proc[p].slot].code
            BY <2>3 DEF CliInv, LoginsArePrivate
        <3> QED BY <1>4, <1>6, <2>3, <3>1 DEF Ready
    <2> QED BY <2>1, <2>2, <2>3 DEF LoginsArePrivate
<1>9. RefreshIsOfDisk'
    BY <1>6 DEF CliInv, RefreshIsOfDisk
<1>10. CredentialIsSafe'
    <2> SUFFICES ASSUME disk # None, ~fault, ~fault'
                 PROVE  /\ lock = None => Ready(disk)'
                        /\ \A p \in Procs :
                            /\ In(p, "locked") => Ready(disk)'
                            /\ In(p, "save") => Ready(proc[p].got)'
                            /\ In(p, "posted") =>
                                  /\ req'[proc[p].slot].pc \notin {"kill", "killing"}
                                  /\ req'[proc[p].slot].pc \in {"caller", "spend"}
                                        => req'[proc[p].slot].pair = disk /\ refresh'[disk] = "live"
                                  /\ req'[proc[p].slot].pc \in {"caller", "spend", "recheck"}
                                        => req'[proc[p].slot].proved
                                  /\ req'[proc[p].slot].pc = "answer" => Ready(req[proc[p].slot].pair)'
                                  /\ req'[proc[p].slot].pc = "idle" => Ready(disk)'
                                  /\ \A q \in Reqs : Presented(q, disk[1])' => q = proc[p].slot
        BY DEF CredentialIsSafe
    <2>1. disk \in Pairs /\ disk[1] \in Codes
        BY PairParts DEF CliInv, CliTypeOK
    <2>2. Ready(disk) => Ready(disk)'
        BY <1>4, <2>1 DEF Ready
    <2>3. /\ lock = None => Ready(disk)'
          /\ \A p \in Procs : In(p, "locked") => Ready(disk)'
        BY <2>2 DEF CliInv, CredentialIsSafe
    <2>4. ASSUME NEW p \in Procs, In(p, "save") PROVE Ready(proc[p].got)'
        <3>1. Ready(proc[p].got)
            BY <2>4 DEF CliInv, CredentialIsSafe
        <3> QED BY <1>4, <3>1 DEF Ready
    <2>5. ASSUME NEW p \in Procs, In(p, "posted")
          PROVE  /\ req'[proc[p].slot].pc \notin {"kill", "killing"}
                 /\ req'[proc[p].slot].pc \in {"caller", "spend"}
                       => req'[proc[p].slot].pair = disk /\ refresh'[disk] = "live"
                 /\ req'[proc[p].slot].pc \in {"caller", "spend", "recheck"} => req'[proc[p].slot].proved
                 /\ req'[proc[p].slot].pc = "answer" => Ready(req[proc[p].slot].pair)'
                 /\ req'[proc[p].slot].pc = "idle" => Ready(disk)'
                 /\ \A q \in Reqs : Presented(q, disk[1])' => q = proc[p].slot
        <3>1. req'[proc[p].slot] = req[proc[p].slot]
            BY <1>6, <2>5
        <3>2. \A q \in Reqs : Presented(q, disk[1])' => q = proc[p].slot
            <4>1. PICK f \in Codes : f = disk[1] /\ f = disk'[1]
                BY <2>1
            <4>2. \A q \in Reqs : Presented(q, f)' => Presented(q, f)
                BY <1>3
            <4> QED BY <2>5, <4>1, <4>2 DEF CliInv, CredentialIsSafe, Presented
        <3>3. req[proc[p].slot].pc = "answer" => Ready(req[proc[p].slot].pair)
            BY <2>5 DEF CliInv, CredentialIsSafe
        <3>4. req[proc[p].slot].pc = "answer" => Ready(req[proc[p].slot].pair)'
            BY <1>4, <3>1, <3>3 DEF Ready
        <3> QED BY <2>2, <2>5, <3>1, <3>2, <3>4 DEF CliInv, CredentialIsSafe
    <2> QED BY <2>3, <2>4, <2>5
<1> QED BY <1>1, <1>2, <1>8, <1>9, <1>10 DEF CliInv

LEMMA BesideStepsInv ==
    ASSUME CliInv, CliNext,
           (\E r \in Reqs : ServerFault(r)) \/ (\E c \in Clients : OwnerStep(c)) \/ CliPassing
    PROVE  CliInv'
<1>0. TypeOK /\ ChainInv /\ fault \in BOOLEAN
    BY DEF CliInv, CliTypeOK
<1>1. ASSUME NEW r \in Reqs, ServerFault(r) PROVE CliInv'
    <2>1. /\ UNCHANGED <<disk, lock, proc, code, refresh>> /\ fault' \in BOOLEAN /\ (fault => fault')
          /\ End(r) /\ \A p \in Procs : proc[p].slot = r /\ In(p, "posted") => fault'
        BY <1>0, <1>1 DEF ServerFault, Finish
    <2>2. Others(r) /\ req'[r].pc = "idle"
        BY <1>0, <2>1, EndIs
    <2> QED BY <2>1, <2>2, BesideInv DEF Others
<1>2. ASSUME NEW c \in Clients, register(c), UNCHANGED cliVars PROVE CliInv'
    <2>1. UNCHANGED <<disk, lock, proc, code, refresh, fault, req>>
        BY <1>2 DEF register, cliVars
    <2> QED BY <1>0, <2>1, BesideInv
<1>3. ASSUME NEW c \in Clients, NEW r \in Reqs, FreeSlot(r), consent(r, c, TRUE), UNCHANGED cliVars PROVE CliInv'
    <2>1. UNCHANGED <<disk, lock, proc, code, refresh, fault>> /\ \A p \in Procs : proc[p].slot # r
        BY <1>3 DEF consent, cliVars, FreeSlot
    <2>2. Others(r) /\ req'[r].pc = "grant"
        BY <1>0, <1>3 DEF consent, TypeOK, Requests, Others
    <2> QED BY <1>0, <2>1, <2>2, BesideInv DEF Others
<1>4. ASSUME CliPassing PROVE CliInv'
    <2>1. UNCHANGED <<disk, lock, proc, code, refresh, fault, req>>
        BY <1>4 DEF CliPassing, ExpireAccess, cliVars
    <2> QED BY <1>0, <2>1, BesideInv
<1> QED BY <1>1, <1>2, <1>3, <1>4 DEF OwnerStep

-----------------------------------------------------------------------------
(* Steps of a process.                                                     *)

Work == [pc : {"idle", "locked", "posted", "save", "login", "keep"},
         tok : Pairs \cup {None}, slot : Reqs \cup {None}, got : Pairs \cup {None}]

OtherProcs(p) == \A q \in Procs : q # p => proc'[q] = proc[q]

LEMMA ReturnIs ==
    ASSUME CliInv, NEW p \in Procs, NEW t \in Pairs \cup {None}, Return(p, t)
    PROVE  /\ proc' \in [Procs -> Work] /\ OtherProcs(p)
           /\ proc'[p].pc = "idle" /\ proc'[p].tok = t /\ proc'[p].slot = None
<1> DEFINE x == [NoWork EXCEPT !.tok = t]
<1>1. x \in Work /\ x.pc = "idle" /\ x.tok = t /\ x.slot = None
    BY DEF NoWork, Work
<1>2. proc \in [Procs -> Work] /\ proc' = [proc EXCEPT ![p] = x]
    BY DEF CliInv, CliTypeOK, Work, Return
<1> QED BY <1>1, <1>2 DEF OtherProcs

\* A process that stops, wherever it was, leaves the file as it found it; the
\* lock is free again, and without a fault the token on disk is ready.
LEMMA ReturnInv ==
    ASSUME CliInv, CliNext, NEW p \in Procs, NEW t \in Pairs \cup {None}, Return(p, t),
           disk = None => t = None,
           UNCHANGED <<vars, disk>>, lock' = IF lock = p THEN None ELSE lock,
           fault' \in BOOLEAN, fault => fault', lock = p /\ ~fault' => Ready(disk)
    PROVE  CliInv'
<1>1. ChainInv' /\ TypeOK' /\ ClientsApproved'
    BY EndpointInv, ApprovedStays
<1>2. /\ proc' \in [Procs -> Work] /\ \A q \in Procs : q # p => proc'[q] = proc[q]
      /\ proc'[p].pc = "idle" /\ proc'[p].tok = t /\ proc'[p].slot = None
    BY ReturnIs DEF OtherProcs
<1>3. CliTypeOK'
    BY <1>1, <1>2 DEF CliInv, CliTypeOK, Work
<1>4. WorkIsWired'
    BY <1>2 DEF CliInv, CliTypeOK, WorkIsWired
<1>5. UNCHANGED <<code, refresh, req, disk>>
    BY DEF vars
<1>6. \A q \in Procs, f \in Codes : Pending(q, f)' => Pending(q, f) /\ q # p
    BY <1>2, <1>5 DEF Pending
<1>7. LoginsArePrivate'
    BY <1>2, <1>5, <1>6 DEF CliInv, LoginsArePrivate, Ready, Presented
<1>8. RefreshIsOfDisk'
    BY <1>2, <1>5 DEF CliInv, RefreshIsOfDisk
<1>9. CredentialIsSafe'
    <2> SUFFICES ASSUME disk # None, ~fault, ~fault' PROVE CredentialIsSafe'
        BY <1>5 DEF CredentialIsSafe
    <2>1. lock' = None => Ready(disk)
        BY DEF CliInv, CliTypeOK, CredentialIsSafe
    <2> QED BY <1>2, <1>5, <2>1 DEF CliInv, CredentialIsSafe, Ready, Presented
<1> QED BY <1>1, <1>3, <1>4, <1>7, <1>8, <1>9 DEF CliInv

LEMMA StopsInv ==
    ASSUME CliInv, CliNext, NEW p \in Procs,
           \/ new(p) \/ refresh_gives_up(p) \/ refresh_timeout(p) \/ die(p)
           \/ lock_config(p) /\ fresh_token_on_disk(p)
           \/ refresh_answer(p) /\ ~At(proc[p].slot, "answer")
           \/ login_answer(p) /\ ~At(proc[p].slot, "answer")
           \/ save_locked(p) /\ Return(p, proc[p].tok) /\ UNCHANGED disk /\ fault'
           \/ save(p) /\ lock # None
    PROVE  CliInv'
<1>1. /\ disk \in Pairs \cup {None} /\ proc[p].tok \in Pairs \cup {None} /\ fault \in BOOLEAN
      /\ disk = None => proc[p].tok = None
      /\ lock = p <=> proc[p].pc \in {"locked", "posted", "save"}
      /\ disk = None => lock = None
      /\ lock = p /\ In(p, "locked") /\ ~fault => Ready(disk)
      /\ lock = p /\ In(p, "posted") /\ At(proc[p].slot, "idle") /\ ~fault => Ready(disk)
    BY DEF CliInv, CliTypeOK, WorkIsWired, CredentialIsSafe
<1>2. CASE new(p)
    BY <1>1, <1>2, ReturnInv DEF new
<1>3. CASE refresh_gives_up(p)
    BY <1>1, <1>3, ReturnInv DEF refresh_gives_up
<1>4. CASE refresh_timeout(p)
    BY <1>1, <1>4, ReturnInv DEF refresh_timeout
<1>5. CASE die(p)
    <2>1. fault' \in BOOLEAN /\ (fault => fault') /\ (proc[p].pc \in {"posted", "save"} => fault')
        BY <1>1, <1>5 DEF die
    <2> QED BY <1>1, <1>5, <2>1, ReturnInv DEF die
<1>6. CASE lock_config(p) /\ fresh_token_on_disk(p)
    BY <1>1, <1>6, ReturnInv DEF lock_config, refresh_is_due
<1>7. CASE refresh_answer(p) /\ ~At(proc[p].slot, "answer")
    BY <1>1, <1>7, ReturnInv DEF refresh_answer
<1>8. CASE login_answer(p) /\ ~At(proc[p].slot, "answer")
    BY <1>1, <1>8, ReturnInv DEF login_answer
<1>9. CASE save_locked(p) /\ Return(p, proc[p].tok) /\ UNCHANGED disk /\ fault'
    BY <1>1, <1>9, ReturnInv DEF save_locked
<1>10. CASE save(p) /\ lock # None
    BY <1>1, <1>10, ReturnInv DEF save
<1> QED BY <1>2, <1>3, <1>4, <1>5, <1>6, <1>7, <1>8, <1>9, <1>10

\* The holder of the lock puts the successor in the place of the token it spent.
LEMMA SaveLockedInv ==
    ASSUME CliInv, CliNext, NEW p \in Procs, save_locked(p), disk' = proc[p].got, Return(p, proc[p].got), UNCHANGED fault
    PROVE  CliInv'
<1>1. ChainInv' /\ TypeOK' /\ ClientsApproved'
    BY EndpointInv, ApprovedStays
<1>2. /\ In(p, "save") /\ lock = p /\ lock' = None /\ disk # None
      /\ proc[p].got \in Pairs /\ proc[p].got[1] = disk[1] /\ UNCHANGED <<code, refresh, req>>
      /\ ~fault => Ready(proc[p].got)
    BY DEF save_locked, CliInv, WorkIsWired, RefreshIsOfDisk, CredentialIsSafe, vars
<1>3. /\ proc' \in [Procs -> Work] /\ \A q \in Procs : q # p => proc'[q] = proc[q]
      /\ proc'[p].pc = "idle" /\ proc'[p].slot = None
    BY <1>2, ReturnIs DEF OtherProcs
<1>4. CliTypeOK'
    BY <1>1, <1>2, <1>3 DEF CliInv, CliTypeOK, Work
<1>5. \A q \in Procs : proc'[q].pc \notin {"locked", "posted", "save"}
    BY <1>2, <1>3 DEF CliInv, WorkIsWired
<1>6. WorkIsWired'
    BY <1>2, <1>3, <1>5 DEF CliInv, WorkIsWired
<1>7. \A q \in Procs, f \in Codes : Pending(q, f)' => Pending(q, f) /\ q # p
    BY <1>2, <1>3 DEF Pending
<1>8. LoginsArePrivate'
    BY <1>2, <1>3, <1>7 DEF CliInv, LoginsArePrivate, Ready, Presented
<1>9. RefreshIsOfDisk'
    BY <1>2, <1>5 DEF CliInv, RefreshIsOfDisk
<1>10. CredentialIsSafe'
    BY <1>2, <1>5 DEF CredentialIsSafe, Ready, Presented
<1> QED BY <1>1, <1>4, <1>6, <1>8, <1>9, <1>10 DEF CliInv

\* A login saves a family that no process and no request has used.
LEMMA SaveInv == ASSUME CliInv, CliNext, NEW p \in Procs, save(p), lock = None PROVE CliInv'
<1>1. ChainInv' /\ TypeOK' /\ ClientsApproved'
    BY EndpointInv, ApprovedStays
<1>2. /\ In(p, "keep") /\ lock' = None /\ disk' = proc[p].got /\ fault' = FALSE
      /\ Ready(proc[p].got) /\ proc[p].got \in Pairs /\ UNCHANGED <<code, refresh, req>>
      /\ Return(p, proc[p].tok) /\ proc[p].tok \in Pairs \cup {None}
    BY DEF save, CliInv, CliTypeOK, LoginsArePrivate, Ready, vars
<1>3. /\ proc' \in [Procs -> Work] /\ \A q \in Procs : q # p => proc'[q] = proc[q]
      /\ proc'[p].pc = "idle" /\ proc'[p].slot = None
    BY <1>2, ReturnIs DEF OtherProcs
<1>4. CliTypeOK'
    BY <1>1, <1>2, <1>3 DEF CliInv, CliTypeOK, Work
<1>5. \A q \in Procs : proc'[q].pc \notin {"locked", "posted", "save"}
    BY <1>2, <1>3 DEF CliInv, WorkIsWired
<1>6. WorkIsWired'
    BY <1>2, <1>3, <1>5 DEF CliInv, WorkIsWired
<1>7. \A q \in Procs, f \in Codes : Pending(q, f)' => Pending(q, f) /\ q # p
    BY <1>2, <1>3 DEF Pending
<1>8. PICK g \in Codes : g = proc[p].got[1] /\ Pending(p, g)
    BY <1>2, PairParts DEF Pending
<1>9. \A q \in Procs, f \in Codes : Pending(q, f)' => f # g
    BY <1>7, <1>8 DEF CliInv, LoginsArePrivate
<1>10. LoginsArePrivate'
    BY <1>2, <1>3, <1>7, <1>8, <1>9 DEF CliInv, LoginsArePrivate, Ready, Presented
<1>11. RefreshIsOfDisk'
    BY <1>2, <1>5, <1>8 DEF CliInv, LoginsArePrivate, RefreshIsOfDisk
<1>12. CredentialIsSafe'
    BY <1>2, <1>5 DEF CredentialIsSafe, Ready, Presented
<1> QED BY <1>1, <1>4, <1>6, <1>10, <1>11, <1>12 DEF CliInv

\* The lock is taken where no exchange is under way.
LEMMA LockInv == ASSUME CliInv, CliNext, NEW p \in Procs, lock_config(p), ~fresh_token_on_disk(p) PROVE CliInv'
<1>1. ChainInv' /\ TypeOK' /\ ClientsApproved'
    BY EndpointInv, ApprovedStays
<1>2. /\ In(p, "idle") /\ lock = None /\ lock' = p /\ disk # None
      /\ proc' = [proc EXCEPT ![p].pc = "locked"] /\ proc \in [Procs -> Work]
      /\ UNCHANGED <<code, refresh, req, disk, fault>>
    BY DEF lock_config, refresh_is_due, CliInv, CliTypeOK, WorkIsWired, Work, vars
<1>3. /\ proc' \in [Procs -> Work] /\ \A q \in Procs : q # p => proc'[q] = proc[q]
      /\ proc'[p].pc = "locked" /\ proc'[p].slot = proc[p].slot
    <2>1. [proc[p] EXCEPT !.pc = "locked"] \in Work
        BY <1>2 DEF Work
    <2> QED BY <1>2, <2>1 DEF Work
<1>4. CliTypeOK'
    BY <1>1, <1>2, <1>3 DEF CliInv, CliTypeOK, Work
<1>5. \A q \in Procs : proc[q].pc \notin {"locked", "posted", "save"}
    BY <1>2 DEF CliInv, WorkIsWired
<1>6. WorkIsWired'
    BY <1>2, <1>3, <1>5 DEF CliInv, WorkIsWired
<1>7. \A q \in Procs, f \in Codes : Pending(q, f)' => Pending(q, f) /\ q # p
    BY <1>2, <1>3 DEF Pending
<1>8. LoginsArePrivate'
    BY <1>2, <1>3, <1>7 DEF CliInv, LoginsArePrivate, Ready, Presented
<1>9. RefreshIsOfDisk'
    BY <1>2, <1>3, <1>5 DEF CliInv, RefreshIsOfDisk
<1>10. CredentialIsSafe'
    BY <1>2, <1>3, <1>5 DEF CliInv, CredentialIsSafe, Ready, Presented
<1> QED BY <1>1, <1>4, <1>6, <1>8, <1>9, <1>10 DEF CliInv

\* The token on disk is presented by the one process that holds the lock.
LEMMA PostInv ==
    ASSUME CliInv, CliNext, NEW p \in Procs, NEW r \in Reqs, refresh_post(p, r)
    PROVE  CliInv'
<1> DEFINE pc == IF Usable(disk) THEN "caller" ELSE "spend"
           x == [req[r] EXCEPT !.pc = pc, !.code = disk[1], !.pair = disk, !.proved = TRUE]
<1>1. ChainInv' /\ TypeOK' /\ ClientsApproved'
    BY EndpointInv, ApprovedStays
<1>2. /\ In(p, "locked") /\ lock = p /\ disk \in Pairs /\ disk[1] \in Codes /\ disk # None
      /\ \A q \in Procs : proc[q].slot # r
      /\ UNCHANGED <<code, refresh, disk, lock, fault>>
      /\ req' = [req EXCEPT ![r] = x] /\ req \in [Reqs -> Requests]
      /\ proc' = [proc EXCEPT ![p].pc = "posted", ![p].slot = r] /\ proc \in [Procs -> Work]
    BY PairParts DEF refresh_post, rotate, Written, FreeSlot, CliInv, CliTypeOK, TypeOK, WorkIsWired, Work
<1>3. /\ \A q \in Reqs : q # r => req'[q] = req[q]
      /\ req'[r].pc = pc /\ req'[r].code = disk[1] /\ req'[r].pair = disk /\ req'[r].proved = TRUE
    BY <1>2 DEF Requests
<1>4. /\ proc' \in [Procs -> Work] /\ \A q \in Procs : q # p => proc'[q] = proc[q]
      /\ proc'[p].pc = "posted" /\ proc'[p].slot = r
    <2>1. [proc[p] EXCEPT !.pc = "posted", !.slot = r] \in Work
        BY <1>2 DEF Work
    <2> QED BY <1>2, <2>1 DEF Work
<1>5. CliTypeOK'
    BY <1>1, <1>2, <1>4 DEF CliInv, CliTypeOK, Work
<1>6. \A q \in Procs : q # p => proc[q].pc \notin {"locked", "posted", "save"}
    BY <1>2 DEF CliInv, WorkIsWired
<1>7. WorkIsWired'
    BY <1>2, <1>4, <1>6 DEF CliInv, WorkIsWired
<1>8. \A q \in Procs : proc[q].pc = "login" => proc[q].slot \in Reqs /\ req'[proc[q].slot] = req[proc[q].slot]
    BY <1>2, <1>3 DEF CliInv, WorkIsWired
<1>9. \A q \in Procs, f \in Codes : Pending(q, f)' => Pending(q, f) /\ q # p
    BY <1>4, <1>8 DEF Pending
<1>10. \A q \in Reqs, f \in Codes : Presented(q, f)' => Presented(q, f) \/ f = disk[1]
    BY <1>3 DEF Presented
<1>11. \A g \in Pairs : Ready(g) /\ g[1] # disk[1] => Ready(g)'
    BY <1>2, <1>10, PairParts DEF Ready
<1>12. LoginsArePrivate'
    <2>1. ASSUME NEW q \in Procs, NEW f \in Codes, Pending(q, f)'
          PROVE /\ code'[f] \notin {"none", "fresh"}
                /\ disk' # None => disk'[1] # f
                /\ \A o \in Procs : Pending(o, f)' => o = q
                /\ \A o \in Reqs : ~Presented(o, f)'
        BY <1>2, <1>9, <1>10, <2>1 DEF CliInv, LoginsArePrivate
    <2>2. ASSUME NEW q \in Procs, proc'[q].pc = "keep" PROVE Ready(proc[q].got)'
        <3>1. PICK g \in Pairs : g = proc[q].got /\ g = proc'[q].got /\ Ready(g)
            BY <1>4, <2>2 DEF CliInv, LoginsArePrivate, Ready
        <3>2. g[1] \in Codes /\ Pending(q, g[1])
            BY <1>4, <2>2, <3>1, PairParts DEF Pending
        <3>3. g[1] # disk[1]
            BY <1>2, <3>2 DEF CliInv, LoginsArePrivate
        <3> QED BY <1>11, <3>1, <3>3 DEF Ready
    <2>3. ASSUME NEW q \in Procs, proc'[q].pc = "login"
          PROVE  /\ req'[proc'[q].slot].pc \in {"client", "token", "refresh", "answer", "idle"}
                 /\ req'[proc'[q].slot].pc = "answer" =>
                       Ready(req[proc[q].slot].pair)'
                       /\ req'[proc'[q].slot].pair[1] = req'[proc'[q].slot].code
        <3>1. PICK o \in Reqs : o = proc[q].slot /\ o = proc'[q].slot /\ req'[o] = req[o] /\ proc[q].pc = "login"
            BY <1>4, <1>8, <2>3
        <3>2. /\ req[o].pc \in {"client", "token", "refresh", "answer", "idle"}
              /\ req[o].pc = "answer" => Ready(req[o].pair) /\ req[o].pair[1] = req[o].code
            <4>1. LoginsArePrivate
                BY DEF CliInv
            <4> QED BY <3>1, <4>1 DEF LoginsArePrivate
        <3>3. ASSUME req[o].pc = "answer" PROVE Ready(req[proc[q].slot].pair)'
            <4>1. PICK g \in Pairs : g = req[o].pair /\ Ready(g) /\ g[1] = req[o].code
                BY <3>2, <3>3 DEF Ready
            <4>2. g[1] \in Codes /\ Pending(q, g[1])
                BY <3>1, <3>3, <4>1, PairParts DEF Pending
            <4>3. g[1] # disk[1]
                BY <1>2, <4>2 DEF CliInv, LoginsArePrivate
            <4> QED BY <1>11, <3>1, <4>1, <4>3 DEF Ready
        <3> QED BY <3>1, <3>2, <3>3
    <2> QED BY <2>1, <2>2, <2>3 DEF LoginsArePrivate
<1>13. RefreshIsOfDisk'
    <2>1. disk' # None => code'[disk'[1]] \notin {"none", "fresh"}
        BY <1>2 DEF CliInv, RefreshIsOfDisk
    <2>2. \A q \in Procs : proc'[q].pc \in {"posted", "save"} => q = p
        BY <1>4, <1>6
    <2>3. disk' = disk /\ pc \in {"caller", "spend"}
        BY <1>2
    <2> QED BY <1>3, <1>4, <2>1, <2>2, <2>3 DEF RefreshIsOfDisk
<1>14. CredentialIsSafe'
    <2>1. ~fault => Ready(disk)
        BY <1>2 DEF CliInv, CredentialIsSafe
    <2>2. \A q \in Reqs, f \in Codes : ~fault /\ f = disk[1] /\ Presented(q, f)' => q = r
        BY <1>3, <2>1 DEF Ready, Presented
    <2>3. ~fault => /\ req'[r].pc = "caller" /\ refresh'[disk] = "live"
                    /\ \A q \in Reqs : Presented(q, disk[1])' => q = r
        BY <1>2, <1>3, <2>1, <2>2 DEF Ready, Presented
    <2>4. \A q \in Procs : proc'[q].pc \in {"locked", "posted", "save"} => q = p
        BY <1>4, <1>6
    <2>5. lock' = p /\ p # None /\ disk' = disk /\ fault' = fault
        BY <1>2 DEF CliInv, WorkIsWired
    <2> QED BY <1>3, <1>4, <2>3, <2>4, <2>5 DEF CredentialIsSafe
<1> QED BY <1>1, <1>5, <1>7, <1>12, <1>13, <1>14 DEF CliInv

\* The answer came: the process has the next token and the request is over.
LEMMA AnswerInv ==
    ASSUME CliInv, CliNext, NEW p \in Procs, At(proc[p].slot, "answer"), refresh_answer(p) \/ login_answer(p)
    PROVE  CliInv'
<1>1. ChainInv' /\ TypeOK' /\ ClientsApproved'
    BY EndpointInv, ApprovedStays
<1>2. PICK r \in Reqs : r = proc[p].slot
    BY DEF refresh_answer, login_answer, CliInv, WorkIsWired
<1>3. PICK pc \in {"save", "keep"} :
        /\ proc' = [proc EXCEPT ![p].pc = pc, ![p].slot = None, ![p].got = req[r].pair]
        /\ pc = "save" <=> In(p, "posted")
        /\ pc = "keep" <=> In(p, "login")
    BY <1>2 DEF refresh_answer, login_answer
<1>4. End(r) /\ UNCHANGED <<code, refresh, disk, lock, fault>> /\ proc \in [Procs -> Work]
    BY <1>2 DEF refresh_answer, login_answer, Finish, CliInv, CliTypeOK, Work
<1>5. req[r].pc = "answer" /\ req[r].pair \in Pairs /\ (In(p, "login") => req[r].pair[1] = req[r].code)
    BY <1>2, <1>3 DEF CliInv, LoginsArePrivate, RefreshIsOfDisk, Ready
<1>6. req'[r].pc = "idle" /\ \A q \in Reqs : q # r => req'[q] = req[q]
    BY <1>4, EndIs DEF CliInv, CliTypeOK, Others
<1>7. /\ proc' \in [Procs -> Work] /\ \A q \in Procs : q # p => proc'[q] = proc[q]
      /\ proc'[p].pc = pc /\ proc'[p].slot = None /\ proc'[p].got = req[r].pair /\ proc'[p].tok = proc[p].tok
    <2>1. proc[p] \in Work
        BY <1>4
    <2>2. [proc[p] EXCEPT !.pc = pc, !.slot = None, !.got = req[r].pair] \in Work
        BY <1>5, <2>1 DEF Work
    <2> QED BY <1>3, <1>4, <2>2 DEF Work
<1>8. CliTypeOK'
    BY <1>1, <1>4, <1>7 DEF CliInv, CliTypeOK, Work
<1>9. WorkIsWired'
    BY <1>3, <1>4, <1>7 DEF CliInv, WorkIsWired
<1>10. \A q \in Procs : q # p => proc[q].slot # r
    BY <1>2 DEF CliInv, WorkIsWired
<1>11. \A q \in Procs : q # p /\ proc[q].pc \in {"posted", "login"}
            => proc[q].slot \in Reqs /\ req'[proc[q].slot] = req[proc[q].slot]
    BY <1>6, <1>10 DEF CliInv, WorkIsWired
<1>12. \A q \in Reqs, f \in Codes : Presented(q, f)' => Presented(q, f)
    BY <1>6 DEF Presented
<1>13. \A g \in Pairs : Ready(g) => Ready(g)'
    BY <1>4, <1>12, PairParts DEF Ready
<1>14. \A q \in Procs, f \in Codes : Pending(q, f)' => Pending(q, f)
    <2>1. \A f \in Codes : Pending(p, f)' => Pending(p, f)
        BY <1>2, <1>3, <1>5, <1>7 DEF Pending
    <2> QED BY <1>7, <1>11, <2>1 DEF Pending
<1>15. LoginsArePrivate'
    <2>1. ASSUME NEW q \in Procs, NEW f \in Codes, Pending(q, f)'
          PROVE /\ code'[f] \notin {"none", "fresh"}
                /\ disk' # None => disk'[1] # f
                /\ \A o \in Procs : Pending(o, f)' => o = q
                /\ \A o \in Reqs : ~Presented(o, f)'
        BY <1>4, <1>12, <1>14, <2>1 DEF CliInv, LoginsArePrivate
    <2>2. ASSUME NEW q \in Procs, proc'[q].pc = "keep" PROVE Ready(proc[q].got)'
        <3>1. PICK g \in Pairs : g = proc'[q].got /\ Ready(g)
            <4>1. CASE q = p
                BY <1>2, <1>3, <1>5, <1>7, <2>2, <4>1 DEF CliInv, LoginsArePrivate
            <4>2. CASE q # p
                BY <1>7, <2>2, <4>2 DEF CliInv, LoginsArePrivate, Ready
            <4> QED BY <4>1, <4>2
        <3> QED BY <1>13, <3>1 DEF Ready
    <2>3. ASSUME NEW q \in Procs, proc'[q].pc = "login"
          PROVE  /\ req'[proc'[q].slot].pc \in {"client", "token", "refresh", "answer", "idle"}
                 /\ req'[proc'[q].slot].pc = "answer" =>
                       Ready(req[proc[q].slot].pair)'
                       /\ req'[proc'[q].slot].pair[1] = req'[proc'[q].slot].code
        <3>1. PICK o \in Reqs : o = proc[q].slot /\ o = proc'[q].slot /\ req'[o] = req[o] /\ proc[q].pc = "login"
            BY <1>7, <1>11, <2>3
        <3>2. /\ req[o].pc \in {"client", "token", "refresh", "answer", "idle"}
              /\ req[o].pc = "answer" => Ready(req[o].pair) /\ req[o].pair[1] = req[o].code
            <4>1. LoginsArePrivate
                BY DEF CliInv
            <4> QED BY <3>1, <4>1 DEF LoginsArePrivate
        <3>3. ASSUME req'[o].pc = "answer" PROVE Ready(req[o].pair)' /\ req'[o].pair[1] = req'[o].code
            <4>1. Ready(req[o].pair) /\ req[o].pair \in Pairs
                BY <3>1, <3>2, <3>3 DEF Ready
            <4>2. PICK g \in Pairs : g = req[o].pair /\ g = req'[o].pair /\ Ready(g) /\ Ready(g)'
                BY <1>13, <3>1, <4>1 DEF Ready
            <4> QED BY <3>1, <3>2, <3>3, <4>2
        <3> QED BY <3>1, <3>2, <3>3
    <2> QED BY <2>1, <2>2, <2>3 DEF LoginsArePrivate
<1>16. RefreshIsOfDisk'
    <2>1. In(p, "posted") => req[r].pair[1] = disk[1]
        BY <1>2, <1>5 DEF CliInv, RefreshIsOfDisk
    <2>2. disk' # None => code'[disk'[1]] \notin {"none", "fresh"}
        BY <1>4 DEF CliInv, RefreshIsOfDisk
    <2>3. ASSUME NEW q \in Procs, proc'[q].pc = "posted"
          PROVE  /\ req'[proc'[q].slot].pc \in {"caller", "spend", "recheck", "token", "refresh", "answer",
                                                "kill", "killing", "idle"}
                 /\ req'[proc'[q].slot].pc # "idle" => req'[proc'[q].slot].code = disk'[1]
                 /\ req'[proc'[q].slot].pc = "answer" => req'[proc'[q].slot].pair \in Pairs
                                                        /\ req'[proc'[q].slot].pair[1] = disk'[1]
        <3>1. q # p
            BY <1>7, <2>3
        <3>2. PICK o \in Reqs : o = proc[q].slot /\ o = proc'[q].slot /\ req'[o] = req[o] /\ proc[q].pc = "posted"
            BY <1>7, <1>11, <2>3, <3>1
        <3>3. /\ req[o].pc \in {"caller", "spend", "recheck", "token", "refresh", "answer",
                               "kill", "killing", "idle"}
              /\ req[o].pc # "idle" => req[o].code = disk[1]
              /\ req[o].pc = "answer" => req[o].pair \in Pairs /\ req[o].pair[1] = disk[1]
            BY <3>2 DEF CliInv, RefreshIsOfDisk
        <3>4. disk' = disk
            BY <1>4
        <3> QED BY <3>2, <3>3, <3>4
    <2>4. ASSUME NEW q \in Procs, proc'[q].pc = "save" PROVE proc'[q].got \in Pairs /\ proc'[q].got[1] = disk'[1]
        BY <1>3, <1>4, <1>5, <1>7, <2>1, <2>4 DEF CliInv, RefreshIsOfDisk
    <2> QED BY <2>2, <2>3, <2>4 DEF RefreshIsOfDisk
<1>17. CredentialIsSafe'
    <2> SUFFICES ASSUME disk # None, ~fault PROVE CredentialIsSafe'
        BY <1>4 DEF CredentialIsSafe
    <2>1. disk \in Pairs /\ disk[1] \in Codes
        BY PairParts DEF CliInv, CliTypeOK
    <2>2. Ready(disk) => Ready(disk)'
        BY <1>4, <1>13, <2>1 DEF Ready
    <2>3. CASE In(p, "login")
        <3>1. \A q \in Procs : proc'[q].pc \in {"locked", "posted", "save"} => q # p /\ proc'[q] = proc[q]
            BY <1>3, <1>7, <2>3
        <3>2. \A q \in Procs : proc'[q].pc = "save" => Ready(proc[q].got)'
            BY <1>13, <3>1 DEF CliInv, CredentialIsSafe, Ready
        <3>3. \A q \in Procs, o \in Reqs : proc'[q].pc = "posted" /\ Presented(o, disk[1])' => o = proc'[q].slot
            <4>1. PICK f \in Codes : f = disk[1] /\ f = disk'[1]
                BY <1>4, <2>1
            <4>2. \A o \in Reqs : Presented(o, f)' => Presented(o, f)
                BY <1>12
            <4> QED BY <3>1, <4>1, <4>2 DEF CliInv, CredentialIsSafe, Presented
        <3>4. \A q \in Procs : proc'[q].pc = "posted" /\ req[proc[q].slot].pc = "answer" => Ready(req[proc[q].slot].pair)'
            BY <1>11, <1>13, <3>1 DEF CliInv, CredentialIsSafe, Ready
        <3> QED BY <1>4, <1>11, <2>2, <3>1, <3>2, <3>3, <3>4 DEF CliInv, CredentialIsSafe
    <2>4. CASE In(p, "posted")
        <3>1. lock = p /\ \A q \in Procs : q # p => proc'[q].pc \notin {"locked", "posted", "save"}
            BY <1>7, <2>4 DEF CliInv, WorkIsWired
        <3>2. Ready(req[r].pair)
            BY <1>2, <1>5, <2>4 DEF CliInv, CredentialIsSafe
        <3>3. Ready(proc[p].got)'
            BY <1>5, <1>7, <1>13, <3>2 DEF Ready
        <3> QED BY <1>3, <1>4, <1>7, <2>4, <3>1, <3>3 DEF CredentialIsSafe
    <2> QED BY <1>3, <2>3, <2>4
<1> QED BY <1>1, <1>8, <1>9, <1>15, <1>16, <1>17 DEF CliInv

\* A login takes a fresh code, which no other family is of.
LEMMA LoginInv ==
    ASSUME CliInv, CliNext, NEW p \in Procs, NEW r \in Reqs, NEW f \in Codes, login(p, r, f)
    PROVE  CliInv'
<1>1. ChainInv' /\ TypeOK' /\ ClientsApproved'
    BY EndpointInv, ApprovedStays
<1>2. /\ In(p, "idle") /\ req[r].pc = "idle" /\ code[f] = "fresh" /\ \A q \in Procs : proc[q].slot # r
      /\ UNCHANGED <<refresh, disk, lock, fault>>
      /\ code' = [code EXCEPT ![f] = "consumed"] /\ req \in [Reqs -> Requests]
      /\ req' = [req EXCEPT ![r] = [req[r] EXCEPT !.pc = "client", !.code = f]]
      /\ proc' = [proc EXCEPT ![p].pc = "login", ![p].slot = r] /\ proc \in [Procs -> Work]
    BY DEF login, consume_code, FreeSlot, CliInv, CliTypeOK, TypeOK, Work
<1>3. req'[r].pc = "client" /\ req'[r].code = f /\ \A q \in Reqs : q # r => req'[q] = req[q]
    BY <1>2 DEF Requests
<1>4. /\ proc' \in [Procs -> Work] /\ \A q \in Procs : q # p => proc'[q] = proc[q]
      /\ proc'[p].pc = "login" /\ proc'[p].slot = r /\ proc'[p].tok = proc[p].tok
    <2>1. proc[p] \in Work
        BY <1>2
    <2>2. [proc[p] EXCEPT !.pc = "login", !.slot = r] \in Work
        BY <2>1 DEF Work
    <2> QED BY <1>2, <2>2 DEF Work
<1>5. CliTypeOK'
    BY <1>1, <1>2, <1>4 DEF CliInv, CliTypeOK, Work
<1>6. WorkIsWired'
    BY <1>2, <1>4 DEF CliInv, WorkIsWired
<1>7. \A q \in Procs : q # p /\ proc[q].pc \in {"posted", "login"}
            => proc[q].slot \in Reqs /\ req'[proc[q].slot] = req[proc[q].slot]
    BY <1>2, <1>3 DEF CliInv, WorkIsWired
<1>8. \A q \in Reqs, g \in Codes : Presented(q, g)' => Presented(q, g)
    BY <1>3 DEF Presented
<1>9. \A g \in Pairs : Ready(g) => Ready(g)'
    BY <1>2, <1>8, PairParts DEF Ready
<1>10. \A g \in Codes : /\ code[g] \notin {"none", "fresh"} => code'[g] \notin {"none", "fresh"}
                        /\ code'[f] \notin {"none", "fresh"}
    BY <1>2 DEF CliInv, CliTypeOK, TypeOK
<1>11. \A q \in Procs, g \in Codes : Pending(q, g)' => (q # p /\ Pending(q, g)) \/ (q = p /\ g = f)
    BY <1>3, <1>4, <1>7 DEF Pending
<1>12. \A q \in Procs : ~Pending(q, f)
    BY <1>2 DEF CliInv, LoginsArePrivate
<1>13. \A q \in Reqs : ~Presented(q, f)
    <2>1. \A q \in Reqs : Bound(q)
        BY RequestIs DEF CliInv
    <2> QED BY <1>2, <2>1 DEF Bound, Presented
<1>14. LoginsArePrivate'
    <2>1. ASSUME NEW q \in Procs, NEW g \in Codes, Pending(q, g)'
          PROVE /\ code'[g] \notin {"none", "fresh"}
                /\ disk' # None => disk'[1] # g
                /\ \A o \in Procs : Pending(o, g)' => o = q
                /\ \A o \in Reqs : ~Presented(o, g)'
        <3>1. CASE g = f
            BY <1>2, <1>8, <1>10, <1>11, <1>12, <1>13, <2>1, <3>1 DEF CliInv, RefreshIsOfDisk
        <3>2. CASE g # f
            BY <1>2, <1>8, <1>10, <1>11, <2>1, <3>2 DEF CliInv, LoginsArePrivate
        <3> QED BY <3>1, <3>2
    <2>2. ASSUME NEW q \in Procs, proc'[q].pc = "keep" PROVE Ready(proc[q].got)'
        BY <1>4, <1>9, <2>2 DEF CliInv, LoginsArePrivate, Ready
    <2>3. ASSUME NEW q \in Procs, proc'[q].pc = "login"
          PROVE  /\ req'[proc'[q].slot].pc \in {"client", "token", "refresh", "answer", "idle"}
                 /\ req'[proc'[q].slot].pc = "answer" =>
                       Ready(req[proc[q].slot].pair)'
                       /\ req'[proc'[q].slot].pair[1] = req'[proc'[q].slot].code
        <3>1. CASE q = p
            BY <1>3, <1>4, <3>1
        <3>2. CASE q # p
            <4>1. PICK o \in Reqs : o = proc[q].slot /\ o = proc'[q].slot /\ req'[o] = req[o] /\ proc[q].pc = "login"
                BY <1>4, <1>7, <2>3, <3>2
            <4>2. /\ req[o].pc \in {"client", "token", "refresh", "answer", "idle"}
                  /\ req[o].pc = "answer" => Ready(req[o].pair) /\ req[o].pair[1] = req[o].code
                BY <4>1 DEF CliInv, LoginsArePrivate
            <4> QED BY <1>9, <4>1, <4>2 DEF Ready
        <3> QED BY <3>1, <3>2
    <2> QED BY <2>1, <2>2, <2>3 DEF LoginsArePrivate
<1>15. RefreshIsOfDisk'
    <2>1. disk # None => disk[1] \in Codes
        BY PairParts DEF CliInv, CliTypeOK
    <2> QED BY <1>2, <1>4, <1>7, <1>10, <2>1 DEF CliInv, RefreshIsOfDisk
<1>16. CredentialIsSafe'
    <2> SUFFICES ASSUME disk # None, ~fault PROVE CredentialIsSafe'
        BY <1>2 DEF CredentialIsSafe
    <2>1. disk \in Pairs /\ disk[1] \in Codes
        BY PairParts DEF CliInv, CliTypeOK
    <2>2. Ready(disk) => Ready(disk)'
        BY <1>2, <1>9, <2>1 DEF Ready
    <2>3. \A q \in Procs : proc'[q].pc \in {"locked", "posted", "save"} => q # p /\ proc'[q] = proc[q]
        BY <1>4
    <2>4. \A q \in Procs : proc'[q].pc = "save" => Ready(proc[q].got)'
        BY <1>9, <2>3 DEF CliInv, CredentialIsSafe, Ready
    <2>5. \A q \in Procs, o \in Reqs : proc'[q].pc = "posted" /\ Presented(o, disk[1])' => o = proc'[q].slot
        <3>1. PICK g \in Codes : g = disk[1] /\ g = disk'[1]
            BY <1>2, <2>1
        <3>2. \A o \in Reqs : Presented(o, g)' => Presented(o, g)
            BY <1>8
        <3> QED BY <2>3, <3>1, <3>2 DEF CliInv, CredentialIsSafe, Presented
    <2>6. \A q \in Procs : proc'[q].pc = "posted" /\ req[proc[q].slot].pc = "answer" => Ready(req[proc[q].slot].pair)'
        BY <1>7, <1>9, <2>3 DEF CliInv, CredentialIsSafe, Ready
    <2> QED BY <1>2, <1>7, <2>2, <2>3, <2>4, <2>5, <2>6 DEF CliInv, CredentialIsSafe
<1> QED BY <1>1, <1>5, <1>6, <1>14, <1>15, <1>16 DEF CliInv

-----------------------------------------------------------------------------

LEMMA CliNextInv == ASSUME CliInv, [CliNext]_allVars PROVE CliInv'
<1>1. CASE UNCHANGED allVars
    <2>1. ChainInv'
        BY <1>1, NextInv DEF allVars, CliInv
    <2>2. CliTypeOK' /\ WorkIsWired'
        BY <1>1 DEF allVars, cliVars, vars, CliInv, CliTypeOK, TypeOK, WorkIsWired
    <2>3. ClientsApproved'
        BY <1>1 DEF allVars, cliVars, vars, CliInv, ClientsApproved, Registered, is_live, live_consented_client
    <2>4. LoginsArePrivate'
        BY <1>1 DEF allVars, cliVars, vars, CliInv, LoginsArePrivate, Ready, Presented, Pending
    <2>5. RefreshIsOfDisk' /\ CredentialIsSafe'
        BY <1>1 DEF allVars, cliVars, vars, CliInv, RefreshIsOfDisk, CredentialIsSafe, Ready, Presented
    <2> QED BY <2>1, <2>2, <2>3, <2>4, <2>5 DEF CliInv
<1>2. ASSUME CliNext, NEW p \in Procs, CliStep(p) PROVE CliInv'
    <2>1. CASE save_locked(p)
        <3>1. \/ disk' = proc[p].got /\ Return(p, proc[p].got) /\ UNCHANGED fault
              \/ fault' = TRUE /\ Return(p, proc[p].tok) /\ UNCHANGED disk
            BY <2>1 DEF save_locked
        <3> QED BY <1>2, <2>1, <3>1, SaveLockedInv, StopsInv
    <2> QED BY <1>2, <2>1, StopsInv, LockInv, PostInv, AnswerInv, SaveInv DEF CliStep
<1>3. CASE CliNext
    BY <1>2, <1>3, StopsInv, LoginInv, ServeInv, BesideStepsInv DEF CliNext
<1> QED BY <1>1, <1>3

\* The invariant of the processes, their file and the token endpoint.
THEOREM CliInvariant == CliSpec => []CliInv
    BY CliInitInv, CliNextInv, PTL DEF CliSpec

\* While no exchange is under way and no fault has hit one since the last
\* login, the refresh token on disk is live and none of its family is being
\* revoked: no two processes spend one token (refresh, save_locked, save).
THEOREM DiskStaysUnspent == CliSpec => []DiskIsUnspent
<1>1. CliInv => DiskIsUnspent
    BY DEF CliInv, CredentialIsSafe, DiskIsUnspent, Ready, Presented
<1> QED BY <1>1, CliInvariant, PTL
===============================================================================
