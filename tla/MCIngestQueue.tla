---------------------------- MODULE MCIngestQueue ----------------------------
(* The two ends of ingestion that share nothing but the run between them:   *)
(* the server's queue of proposed facts, and the batch commands on a run    *)
(* directory. A behaviour is of one or of the other; one of the queue has   *)
(* either requests that overlap, or one request after another and more      *)
(* rows for them to write, replace and forget.                              *)
EXTENDS IngestQueue, IngestBatch, TLC

CONSTANTS open, private

VARIABLE part

MCFacts == {open, private}
MCPrivate == {private}
MCOlder == [f \in MCFacts |-> IF f = private THEN {open} ELSE {}]

allvars == <<part, vars, bvars>>

MCInit == part \in {"overlap", "chain", "batch"} /\ Init /\ BatchInit

\* The rows of a behaviour whose requests overlap.
MCOverlapRows == 2

MCNext ==
    \/ /\ part = "overlap" /\ Next /\ UNCHANGED <<part, bvars>>
       /\ rows' <= MCOverlapRows
    \/ /\ part = "chain" /\ Next /\ UNCHANGED <<part, bvars>>
       /\ Cardinality({r \in Reqs : req'[r] # Idle}) <= 1
    \/ part = "batch" /\ BatchNext /\ UNCHANGED <<part, vars>>

\* Cmds has the values of Reqs, so one permutation serves both.
Sym == Permutations(Reqs) \cup Permutations(Chunks)

MCSpec == MCInit /\ [][MCNext]_allvars
=============================================================================
