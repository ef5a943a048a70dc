---------------------------- MODULE MCIngestRun ----------------------------
(* A small instance of IngestRun.                                          *)
EXTENDS IngestRun, TLC

CONSTANT f1

MCFileOrder == <<f1>>

Symmetric == Permutations(Runs) \cup Permutations(Extractors)

===========================================================================
