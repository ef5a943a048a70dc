------------------------------- MODULE MCOAuth -------------------------------
(* The authorization server under every request it serves, and the command  *)
(* lines in front of it, which send it some of them. A behaviour is of the  *)
(* one, with a single authorization, or of the other.                       *)
EXTENDS CliRefresh, FiniteSets, TLC

VARIABLE part

MCInit == part \in {"server", "command line"} /\ CliInit

MCNext ==
    \/ /\ part = "server" /\ Next /\ UNCHANGED <<part, cliVars>>
       /\ Cardinality({f \in Codes : code'[f] # "none"}) <= 1
    \/ part = "command line" /\ CliNext /\ UNCHANGED part

Symmetry == Permutations(Reqs) \cup Permutations(Procs) \cup Permutations(Codes)

MCSpec == MCInit /\ [][MCNext]_<<part, allVars>>
=============================================================================
