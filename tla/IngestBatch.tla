----------------------------- MODULE IngestBatch -----------------------------
(***************************************************************************)
(* Mode C of `ingest extract`: the chunks of a run go to the provider as   *)
(* one batch, and later commands poll it, split its results into out/ and  *)
(* may send what failed as another one.  state.json names the batch, and   *)
(* is all that knows of it.                                                *)
(*                                                                         *)
(* No command takes the run lock.  Each reads the whole of state.json,     *)
(* works on its copy and writes the whole of it back, in place, while      *)
(* other commands on the run, the synchronous extract of Mode B among      *)
(* them, do the same.  Faults: a command dies, an answer is lost, a file   *)
(* cannot be written, a write of state.json stops half way.                *)
(*                                                                         *)
(* A command reads state.json twice at its head, for the state and for the *)
(* batch; here that is one step, and a write that falls between the two is *)
(* left out.  Token counts are the number of times a batch's are in usage. *)
(***************************************************************************)
EXTENDS Naturals, FiniteSets

CONSTANTS
    Chunks,      \* the run's worklist
    MaxBatches,  \* bound on the batches created
    Cmds,        \* commands under way at once
    MaxFaults    \* bound on the faults

ASSUME BatchAssumption == MaxBatches \in Nat /\ MaxFaults \in Nat

VARIABLES
    file,     \* state.json
    out,      \* chunks with an out/ file
    remote,   \* the provider's batches
    cmd,      \* the commands
    faults,
    kept      \* history: <<b, c, ok>>, c's out/ file was written from b's results, or could not be

bvars == <<file, out, remote, cmd, faults, kept>>

Batches == 1 .. MaxBatches
NoBatch == [id |-> 0, collected |-> FALSE]

\* RunState::new, also what read_state makes of a file that does not parse.
\* `past` is no field of the file: the batches this version of it descends from.
NewState == [failed |-> {}, usage |-> [b \in Batches |-> 0], batch |-> NoBatch, past |-> {}]
NoCmd == [pc |-> "idle", flag |-> "status", state |-> NewState, todo |-> {}]
Unmade == [state |-> "none", chunks |-> {}, ok |-> {}]

BatchInit ==
    /\ file = NewState
    /\ out = {}
    /\ remote = [b \in Batches |-> Unmade]
    /\ cmd = [p \in Cmds |-> NoCmd]
    /\ faults = 0
    /\ kept = {}

Is(p, pc) == cmd[p].pc = pc
Stop(p) == cmd' = [cmd EXCEPT ![p] = NoCmd]
FaultStep == faults < MaxFaults /\ faults' = faults + 1

-----------------------------------------------------------------------------
(* The batch command.                                                      *)

\* --batch-status, --batch-fetch, --batch, and --batch with --retry-failed.
Flags == {"status", "fetch", "batch", "retry"}

\* The state and the batch are read.  With none on record only --batch goes
\* on; with one, --batch-fetch does what --batch does.
run(p, flag) ==
    /\ Is(p, "idle")
    /\ cmd' = [cmd EXCEPT ![p] =
         IF file.batch # NoBatch
         THEN [NoCmd EXCEPT !.pc = "poll", !.state = file,
                            !.flag = IF flag = "fetch" THEN "batch" ELSE flag]
         ELSE IF flag \in {"batch", "retry"}
              THEN [NoCmd EXCEPT !.pc = "create", !.state = file, !.flag = flag]
         ELSE NoCmd]
    /\ UNCHANGED <<file, out, remote, faults, kept>>

\* A finished batch is left behind only for --batch --retry-failed, which goes
\* on to a new one once the copy is written.
Finished(p) == IF cmd[p].flag = "retry" THEN [cmd[p] EXCEPT !.pc = "renew"]
               ELSE [NoCmd EXCEPT !.pc = "write", !.state = cmd[p].state]

\* The provider answers with the batch's status and, once it ended, its
\* results; or it answers with an error and the command stops.
poll(p) ==
    LET b == cmd[p].state.batch
        ended == remote[b.id].state = "ended" /\ cmd[p].flag # "status"
    IN  /\ Is(p, "poll")
        /\ \/ /\ ended
              /\ cmd' = [cmd EXCEPT ![p] = IF b.collected THEN Finished(p)
                                           ELSE [@ EXCEPT !.pc = "collect"]]
           \/ /\ ~ended
              /\ cmd' = [cmd EXCEPT ![p] = [NoCmd EXCEPT !.pc = "write", !.state = cmd[p].state]]
           \/ Stop(p)
        /\ UNCHANGED <<file, out, remote, faults, kept>>

\* Mutant: a batch that ended without results fails no chunk.
route_results_only(b) == IF remote[b].ok = {} THEN {} ELSE remote[b].chunks \ remote[b].ok

\* Every chunk of the batch without a good answer: an error, a status other
\* than 200, a body that does not parse, or no item at all.
route_results(b) == remote[b].chunks \ remote[b].ok

\* Mutant: a chunk that came back stays on the list of failed ones.
Settled_keeps(failed, good, bad) == failed \cup bad

Settled(failed, good, bad) == (failed \ good) \cup bad

\* The outputs are written one by one; one that cannot be is a failed chunk.
\* collected_at and the batch's token counts go into the copy.
collect(p) ==
    LET s == cmd[p].state
        b == s.batch.id
    IN  /\ Is(p, "collect")
        /\ \E bad \in SUBSET remote[b].ok :
              LET good == remote[b].ok \ bad
              IN  /\ IF bad = {} THEN UNCHANGED faults ELSE FaultStep
                  /\ out' = out \cup good
                  /\ kept' = kept \cup ({b} \X good \X {TRUE}) \cup ({b} \X bad \X {FALSE})
                  /\ cmd' = [cmd EXCEPT ![p] = [Finished(p) EXCEPT
                               !.state = [s EXCEPT !.batch.collected = TRUE, !.usage[b] = s.usage[b] + 1,
                                            !.failed = Settled(s.failed, good, bad \cup route_results(b))]]]
        /\ UNCHANGED <<file, remote>>

\* The whole copy, with the batch record as it is now.
write_run_state(p) ==
    /\ Is(p, "write") \/ Is(p, "renew")
    /\ file' = cmd[p].state
    /\ cmd' = [cmd EXCEPT ![p] = IF Is(p, "renew") THEN [@ EXCEPT !.pc = "create"] ELSE NoCmd]
    /\ UNCHANGED <<out, remote, faults, kept>>

pending_chunks(p) == IF cmd[p].flag = "retry" THEN cmd[p].state.failed ELSE Chunks \ out

\* The owner confirmed.  The batch is made, and its id comes back or is lost
\* on the way; or nothing was sent.
create(p) ==
    LET todo == pending_chunks(p)
    IN  /\ Is(p, "create")
        /\ \/ /\ todo # {}
              /\ \E b \in Batches :
                    /\ remote[b] = Unmade /\ \A a \in 1 .. b - 1 : remote[a] # Unmade
                    /\ remote' = [remote EXCEPT ![b] = [Unmade EXCEPT !.state = "running",
                                                                      !.chunks = todo]]
                    /\ \/ /\ cmd' = [cmd EXCEPT ![p] =
                                [NoCmd EXCEPT !.pc = "write",
                                    !.state = [cmd[p].state EXCEPT !.past = @ \cup {b},
                                                 !.batch = [NoBatch EXCEPT !.id = b]]]]
                          /\ UNCHANGED faults
                       \/ FaultStep /\ Stop(p)
           \/ Stop(p) /\ UNCHANGED <<remote, faults>>
        /\ UNCHANGED <<file, out, kept>>

-----------------------------------------------------------------------------
(* Mode B: chunks go out one by one, and the copy is written after each,   *)
(* with the batch it held when it was read.                                *)

extract(p, retry) ==
    LET todo == IF retry THEN file.failed ELSE Chunks \ out
    IN  /\ Is(p, "idle")
        /\ todo # {}
        /\ cmd' = [cmd EXCEPT ![p] = [NoCmd EXCEPT !.pc = "extract", !.state = file, !.todo = todo]]
        /\ UNCHANGED <<file, out, remote, faults, kept>>

\* The next chunk of the worklist, whose order is left open.
run_chunk(p) ==
    LET failed == cmd[p].state.failed
    IN  /\ Is(p, "extract")
        /\ \E c \in cmd[p].todo, ok \in BOOLEAN :
              LET s == [cmd[p].state EXCEPT !.failed = IF ok THEN failed \ {c} ELSE failed \cup {c}]
              IN  /\ out' = IF ok THEN out \cup {c} ELSE out
                  /\ IF ok THEN UNCHANGED faults ELSE FaultStep
                  /\ file' = s
                  /\ cmd' = [cmd EXCEPT ![p] = IF cmd[p].todo = {c} THEN NoCmd
                                               ELSE [cmd[p] EXCEPT !.state = s, !.todo = @ \ {c}]]
        /\ UNCHANGED <<remote, kept>>

-----------------------------------------------------------------------------
(* The provider, and deaths.                                               *)

\* Completed, failed, expired or cancelled, with the chunks it answered.
Provider(b) ==
    /\ remote[b].state = "running"
    /\ \E ok \in SUBSET remote[b].chunks :
          remote' = [remote EXCEPT ![b].state = "ended", ![b].ok = ok]
    /\ UNCHANGED <<file, out, cmd, faults, kept>>

\* A death with some of the outputs written, or in the middle of a write of
\* state.json, which leaves what does not parse.
Die(p) ==
    LET b == cmd[p].state.batch.id
    IN  /\ cmd[p] # NoCmd /\ FaultStep
        /\ Stop(p)
        /\ \/ UNCHANGED <<file, out, kept>>
           \/ /\ Is(p, "collect")
              /\ \E good \in SUBSET remote[b].ok : out' = out \cup good /\ kept' = kept \cup ({b} \X good \X {TRUE})
              /\ UNCHANGED file
           \/ /\ cmd[p].pc \in {"write", "renew", "extract"}
              /\ file' = NewState
              /\ UNCHANGED <<out, kept>>
        /\ UNCHANGED remote

BatchNext ==
    \/ \E p \in Cmds, flag \in Flags : run(p, flag)
    \/ \E p \in Cmds : \/ poll(p) \/ collect(p) \/ write_run_state(p) \/ create(p)
                       \/ run_chunk(p) \/ Die(p)
                       \/ \E retry \in BOOLEAN : extract(p, retry)
    \/ \E b \in Batches : Provider(b)

BatchSpec == BatchInit /\ [][BatchNext]_bvars

-----------------------------------------------------------------------------
(* Properties.                                                             *)

(***************************************************************************)
(* A batch that state.json calls collected lost nothing: every chunk of it *)
(* has its output or is listed as failed, and its tokens were counted      *)
(* once, whatever copies other commands wrote back and wherever one died.  *)
(* [batch.rs route_results: "nothing here drops a chunk on the floor";     *)
(* run: collected_at.]                                                     *)
(***************************************************************************)
CollectedIsWhole ==
    file.batch.collected =>
        /\ remote[file.batch.id].chunks \subseteq out \cup file.failed
        /\ file.usage[file.batch.id] = 1

(***************************************************************************)
(* A chunk that a batch still holds, or whose answer was written to out/,  *)
(* goes into no second batch, unless the copy of state.json the sender     *)
(* works on does not descend from one that named the first: two commands   *)
(* submitted at once, an id was lost before it was written, or a copy read *)
(* earlier was written over it.  [batch.rs run: "a repeated --batch can    *)
(* never submit the corpus twice".]                                        *)
(***************************************************************************)
SentOnce ==
    [][\A p \in Cmds, a, b \in Batches :
         /\ Is(p, "create") /\ cmd'[p] # cmd[p]
         /\ remote[b] = Unmade /\ remote'[b] # Unmade
         /\ a \in cmd[p].state.past
         => \A c \in remote[a].chunks \cap remote'[b].chunks :
               /\ remote[a].state = "ended"
               /\ <<a, c, TRUE>> \in kept => <<a, c, FALSE>> \in kept]_bvars

-----------------------------------------------------------------------------
(* What makes them inductive, said of every copy of state.json there is.   *)

Commands == {cmd[p] : p \in Cmds}
Copies == {file} \cup {k.state : k \in Commands}

BatchTypeOK ==
    LET States == [failed : SUBSET Chunks, usage : [Batches -> Nat],
                   batch : [id : {0} \cup Batches, collected : BOOLEAN], past : SUBSET Batches]
    IN  /\ file \in States
        /\ out \subseteq Chunks
        /\ remote \in [Batches -> [state : {"none", "running", "ended"}, chunks : SUBSET Chunks,
                                   ok : SUBSET Chunks]]
        /\ cmd \in [Cmds -> [pc : {"idle", "poll", "collect", "write", "renew", "create", "extract"},
                             flag : Flags, state : States, todo : SUBSET Chunks]]
        /\ faults \in 0 .. MaxFaults
        /\ kept \subseteq Batches \X Chunks \X BOOLEAN

\* Answers are of the batch's chunks, and outputs of good answers.
KeptIsAnswered ==
    \A b \in Batches :
        /\ remote[b].ok \subseteq remote[b].chunks
        /\ remote[b].state # "ended" => remote[b].ok = {}
        /\ \A c \in Chunks : <<b, c, TRUE>> \in kept => c \in remote[b].ok

\* The batches a copy is done with.
Behind(s) == IF s.batch.collected THEN s.past ELSE s.past \ {s.batch.id}

\* A copy names its batch among those it descends from, and counted the tokens
\* of exactly the batches behind it, which ended.
Told(s) ==
    /\ IF s.batch = NoBatch THEN s.past = {} ELSE s.batch.id \in s.past
    /\ \A b \in s.past : remote[b] # Unmade
    /\ \A b \in Behind(s) : remote[b].state = "ended"
    /\ \A b \in Batches : s.usage[b] = IF b \in Behind(s) THEN 1 ELSE 0

\* Chunk c had no good answer in a, or one whose output could not be written.
Spoilt(a, c) == c \in remote[a].ok => <<a, c, FALSE>> \in kept

\* Of the batches behind a copy, a chunk without an output, one on the list of
\* failed chunks and one in the batch that came next were all spoilt.
Clean(s) ==
    \A a \in Behind(s) : \A c \in remote[a].chunks :
        c \notin out \/ c \in s.failed \/ (a # s.batch.id /\ c \in remote[s.batch.id].chunks) => Spoilt(a, c)

\* CollectedIsWhole, of any copy.
Whole(s) == s.batch.collected => remote[s.batch.id].chunks \subseteq out \cup s.failed

\* What a command has established about its copy, and a synchronous extract
\* about the chunks it has yet to send.
Placed(k) ==
    LET b == k.state.batch IN
    /\ k.pc = "poll" => b # NoBatch
    /\ k.pc = "collect" => b # NoBatch /\ ~b.collected /\ remote[b.id].state = "ended"
    /\ k.pc \in {"renew", "create"} => \/ k.flag = "retry" /\ b.collected
                                       \/ k.pc = "create" /\ b = NoBatch
    /\ k.pc # "extract" => k.todo = {}
    /\ \A a \in Behind(k.state) : \A c \in remote[a].chunks \cap k.todo : Spoilt(a, c)

BatchInv ==
    /\ BatchTypeOK /\ KeptIsAnswered
    /\ \A s \in Copies : Told(s) /\ Clean(s) /\ Whole(s)
    /\ \A k \in Commands : Placed(k)
=============================================================================
