----------------------------- MODULE CliRefresh -----------------------------
(***************************************************************************)
(* Command-line processes that share one config file and one credential,   *)
(* in front of the authorization server of OAuthTokens.                    *)
(*                                                                         *)
(* A process holds the access token it read at its start.  When that token *)
(* is near its end or is refused, refresh takes the lock on the file,      *)
(* reads the file again, and adopts a newer token from it or spends the    *)
(* refresh token it finds there and saves the successor.  login runs the   *)
(* browser flow and takes the lock for its save alone.                     *)
(*                                                                         *)
(* Faults: a process dies, an answer does not come back in time (its       *)
(* request runs on or not), the server fails between two statements, the   *)
(* file cannot be written.                                                 *)
(***************************************************************************)
EXTENDS OAuthTokens

CONSTANT Procs   \* command-line processes on one machine

\* A login registers its client for both grants.
ASSUME CliAssumption ==
    /\ Refreshing = Clients
    /\ None \notin Procs \cup Reqs \cup Pairs

VARIABLES
    disk,   \* the pair in the config file, None before the first login
    lock,   \* the holder of the lock on the file
    proc,   \* per process: what it is at, its token, its request, its answer
    fault   \* a fault hit an exchange since the credential on disk was saved by login

cliVars == <<disk, lock, proc, fault>>
allVars == <<vars, cliVars>>

NoWork == [pc |-> "idle", tok |-> None, slot |-> None, got |-> None]

CliTypeOK ==
    /\ TypeOK
    /\ disk \in Pairs \cup {None}
    /\ lock \in Procs \cup {None}
    /\ proc \in [Procs -> [pc : {"idle", "locked", "posted", "save", "login", "keep"},
                           tok : Pairs \cup {None}, slot : Reqs \cup {None},
                           got : Pairs \cup {None}]]
    /\ fault \in BOOLEAN

\* The client is registered by the first login and reused by the next ones.
CliInit ==
    /\ Init
    /\ disk = None
    /\ lock = None
    /\ proc = [p \in Procs |-> NoWork]
    /\ fault = FALSE

In(p, pc) == proc[p].pc = pc
Return(p, tok) == proc' = [proc EXCEPT ![p] = [NoWork EXCEPT !.tok = tok]]
FreeSlot(r) == req[r].pc = "idle" /\ \A p \in Procs : proc[p].slot # r

-----------------------------------------------------------------------------
(* refresh.                                                                *)

\* A process reads the file when it starts.
new(p) ==
    /\ In(p, "idle")
    /\ Return(p, disk)
    /\ UNCHANGED <<vars, disk, lock, fault>>

\* Under the lock the file is read again.  A token other than the one this
\* process holds, and with life ahead of it, is adopted.
fresh_token_on_disk(p) ==
    /\ disk # proc[p].tok
    /\ access[disk] \notin {"expired", "purged"}

\* send: the token is near its end, or the server answered 401.
refresh_is_due(p) == In(p, "idle") /\ proc[p].tok # None

\* Nothing is read before the lock is had, and a wait that outlasts its bound
\* gives up: only the moment the lock is taken counts.
lock_config(p) ==
    /\ refresh_is_due(p)
    /\ lock = None
    /\ IF fresh_token_on_disk(p)
       THEN /\ Return(p, disk)
            /\ UNCHANGED lock
       ELSE /\ lock' = p
            /\ proc' = [proc EXCEPT ![p].pc = "locked"]
    /\ UNCHANGED <<vars, disk, fault>>

\* Mutant: the refresh token read at the start goes out.
refresh_post_stale(p, r) ==
    /\ In(p, "locked")
    /\ FreeSlot(r)
    /\ rotate(r, proc[p].tok, TRUE)
    /\ proc' = [proc EXCEPT ![p].pc = "posted", ![p].slot = r]
    /\ UNCHANGED <<disk, lock, fault>>

\* The refresh token on disk goes out.
refresh_post(p, r) ==
    /\ In(p, "locked")
    /\ FreeSlot(r)
    /\ rotate(r, disk, TRUE)
    /\ proc' = [proc EXCEPT ![p].pc = "posted", ![p].slot = r]
    /\ UNCHANGED <<disk, lock, fault>>

\* Discovery fails, or the endpoint is not one to send a credential to: nothing was sent.
refresh_gives_up(p) ==
    /\ In(p, "locked")
    /\ Return(p, proc[p].tok)
    /\ lock' = None
    /\ UNCHANGED <<vars, disk, fault>>

refresh_answer(p) ==
    LET r == proc[p].slot
    IN  /\ In(p, "posted")
        /\ \/ /\ At(r, "answer")
              /\ proc' = [proc EXCEPT ![p].pc = "save", ![p].slot = None, ![p].got = req[r].pair]
              /\ Finish(r)
              /\ UNCHANGED lock
           \/ /\ At(r, "idle")
              /\ Return(p, proc[p].tok)
              /\ lock' = None
              /\ UNCHANGED vars
        /\ UNCHANGED <<disk, fault>>

\* The request timed out; what became of it the process never learns.
refresh_timeout(p) ==
    /\ In(p, "posted")
    /\ ~At(proc[p].slot, "idle")
    /\ Return(p, proc[p].tok)
    /\ lock' = None
    /\ fault' = TRUE
    /\ UNCHANGED <<vars, disk>>

save_locked(p) ==
    /\ In(p, "save")
    /\ lock' = None
    /\ \/ /\ disk' = proc[p].got
          /\ Return(p, proc[p].got)
          /\ UNCHANGED fault
       \/ /\ fault' = TRUE
          /\ Return(p, proc[p].tok)
          /\ UNCHANGED disk
    /\ UNCHANGED vars

-----------------------------------------------------------------------------
(* login.                                                                  *)

\* The owner consented and the code came back on the loopback listener.
login(p, r, f) ==
    /\ In(p, "idle")
    /\ FreeSlot(r)
    /\ code[f] = "fresh"
    /\ consume_code(r, f, TRUE)
    /\ proc' = [proc EXCEPT ![p].pc = "login", ![p].slot = r]
    /\ UNCHANGED <<disk, lock, fault>>

login_answer(p) ==
    LET r == proc[p].slot
    IN  /\ In(p, "login")
        /\ \/ /\ At(r, "answer")
              /\ proc' = [proc EXCEPT ![p].pc = "keep", ![p].slot = None, ![p].got = req[r].pair]
              /\ Finish(r)
           \/ /\ ~At(r, "answer")
              /\ Return(p, proc[p].tok)
              /\ UNCHANGED vars
        /\ UNCHANGED <<disk, lock, fault>>

\* save takes the lock for the write; a wait that is too long fails the login.
save(p) ==
    /\ In(p, "keep")
    /\ IF lock = None
       THEN disk' = proc[p].got /\ fault' = FALSE
       ELSE UNCHANGED <<disk, fault>>
    /\ Return(p, proc[p].tok)
    /\ UNCHANGED <<vars, lock>>

\* The process dies, its lock with it, and the next command starts from the file.
die(p) ==
    /\ proc[p].pc # "idle"
    /\ Return(p, disk)
    /\ lock' = IF lock = p THEN None ELSE lock
    /\ fault' = (fault \/ proc[p].pc \in {"posted", "save"})
    /\ UNCHANGED <<vars, disk>>

-----------------------------------------------------------------------------

\* A step of the server on a request of a process, an orphan, or the owner.
Serve(r) ==
    /\ \/ set_client_grant(r) \/ exchange_code(r) \/ insert_token(r) \/ insert_refresh(r)
       \/ \E f \in Codes : insert_code(r, f)
       \/ refresh_caller(r) \/ Spend(r) \/ Recheck(r) \/ revoke_family(r)
    /\ UNCHANGED cliVars

\* The server fails the request, or its handler is dropped.
ServerFault(r) ==
    /\ \A p \in Procs : proc[p].slot = r => ~At(r, "answer")
    /\ Finish(r)
    /\ fault' = (fault \/ \E p \in Procs : In(p, "posted") /\ proc[p].slot = r)
    /\ UNCHANGED <<disk, lock, proc>>

OwnerStep(c) ==
    /\ \/ register(c)
       \/ \E r \in Reqs : FreeSlot(r) /\ consent(r, c, TRUE)
    /\ UNCHANGED cliVars

\* Of the lifetimes, the one of the token on disk is all a process looks at.
CliPassing == disk # None /\ ExpireAccess(disk) /\ UNCHANGED cliVars

CliStep(p) ==
    \/ lock_config(p)
    \/ \E r \in Reqs : refresh_post(p, r)
    \/ refresh_gives_up(p) \/ refresh_answer(p) \/ refresh_timeout(p) \/ save_locked(p)
    \/ login_answer(p) \/ save(p)

CliNext ==
    \/ \E p \in Procs : \/ new(p) \/ CliStep(p) \/ die(p)
                        \/ \E r \in Reqs, f \in Codes : login(p, r, f)
    \/ \E r \in Reqs : Serve(r) \/ ServerFault(r)
    \/ \E c \in Clients : OwnerStep(c)
    \/ CliPassing

CliSpec == CliInit /\ [][CliNext]_allVars

-----------------------------------------------------------------------------
(* Properties.                                                             *)

\* While no exchange is under way, the refresh token on disk is one the server
\* has not seen yet, and no replay of its family is being punished: two
\* processes never spend one token, and login and refresh never overwrite each
\* other's credential.  Only a fault between the spend and the save ends a
\* credential, and the next login mends it (refresh, save_locked).
DiskIsUnspent ==
    disk # None /\ lock = None /\ ~fault
        => /\ refresh[disk] = "live"
           /\ \A r \in Reqs : req[r].pc \in {"kill", "killing"} => req[r].code # disk[1]
-----------------------------------------------------------------------------
(* What makes it inductive.                                                *)

\* A token of family f was presented and is not spent yet, or was spent before.
Presented(r, f) == req[r].code = f /\ req[r].pc \in {"caller", "spend", "kill", "killing"}

\* A refresh token that the server has not seen.
Ready(g) ==
    /\ g \in Pairs /\ refresh[g] = "live"
    /\ \A r \in Reqs : ~Presented(r, g[1])

\* Process p logs in with family f, which is not on disk yet.
Pending(p, f) ==
    \/ In(p, "login") /\ ~At(proc[p].slot, "idle") /\ req[proc[p].slot].code = f
    \/ In(p, "keep") /\ proc[p].got[1] = f

\* The lock has one holder, a request one process, and no process has a token
\* before there is one on disk.
WorkIsWired ==
    /\ \A p \in Procs : lock = p <=> proc[p].pc \in {"locked", "posted", "save"}
    /\ \A p \in Procs : IF proc[p].pc \in {"posted", "login"} THEN proc[p].slot \in Reqs
                                                             ELSE proc[p].slot = None
    /\ \A p, q \in Procs : proc[p].slot = proc[q].slot /\ proc[p].slot # None => p = q
    /\ disk = None => lock = None /\ \A p \in Procs : proc[p].tok = None

\* Nobody revokes or purges the client of a command line, so every code is of
\* a client that the second lookup accepts.
ClientsApproved ==
    /\ \A c \in Clients : ~client[c].revoked /\ client[c].row # "purged"
    /\ \A r \in Reqs : At(r, "grant") => Registered(req[r].client)
    /\ \A r \in Reqs : At(r, "code") => live_consented_client(req[r].client)
    /\ \A f \in Codes : code[f] # "none" => live_consented_client(owner[f])

\* A login's family is its own until it is saved: not the one on disk, not
\* another login's, and no token of it has been presented.
LoginsArePrivate ==
    \A p \in Procs :
        /\ In(p, "login") =>
              /\ req[proc[p].slot].pc \in {"client", "token", "refresh", "answer", "idle"}
              /\ At(proc[p].slot, "answer") => Ready(req[proc[p].slot].pair)
                                               /\ req[proc[p].slot].pair[1] = req[proc[p].slot].code
        /\ In(p, "keep") => Ready(proc[p].got)
        /\ \A f \in Codes : Pending(p, f) =>
              /\ code[f] \notin {"none", "fresh"}
              /\ disk # None => disk[1] # f
              /\ \A q \in Procs : Pending(q, f) => q = p
              /\ \A r \in Reqs : ~Presented(r, f)

\* A refresh works on the family that is on disk for as long as it has the lock.
RefreshIsOfDisk ==
    /\ disk # None => code[disk[1]] \notin {"none", "fresh"}
    /\ \A p \in Procs :
        /\ In(p, "posted") =>
              /\ req[proc[p].slot].pc \in {"caller", "spend", "recheck", "token", "refresh", "answer",
                                           "kill", "killing", "idle"}
              /\ ~At(proc[p].slot, "idle") => req[proc[p].slot].code = disk[1]
              /\ At(proc[p].slot, "answer") => req[proc[p].slot].pair \in Pairs
                                               /\ req[proc[p].slot].pair[1] = disk[1]
        /\ In(p, "save") => proc[p].got \in Pairs /\ proc[p].got[1] = disk[1]

\* Without a fault, the token on disk waits to be presented, the one request
\* of the lock's holder is turning it into the next, or the next is about to
\* be saved.
CredentialIsSafe ==
    disk # None /\ ~fault =>
        /\ lock = None => Ready(disk)
        /\ \A p \in Procs :
            /\ In(p, "locked") => Ready(disk)
            /\ In(p, "save") => Ready(proc[p].got)
            /\ In(p, "posted") =>
                  /\ req[proc[p].slot].pc \notin {"kill", "killing"}
                  /\ req[proc[p].slot].pc \in {"caller", "spend"}
                        => req[proc[p].slot].pair = disk /\ refresh[disk] = "live"
                  /\ req[proc[p].slot].pc \in {"caller", "spend", "recheck"} => req[proc[p].slot].proved
                  /\ At(proc[p].slot, "answer") => Ready(req[proc[p].slot].pair)
                  /\ At(proc[p].slot, "idle") => Ready(disk)
                  /\ \A r \in Reqs : Presented(r, disk[1]) => r = proc[p].slot

CliInv ==
    /\ CliTypeOK /\ ChainInv /\ WorkIsWired /\ ClientsApproved
    /\ LoginsArePrivate /\ RefreshIsOfDisk /\ CredentialIsSafe
=============================================================================
