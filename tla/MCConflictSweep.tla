--------------------------- MODULE MCConflictSweep ---------------------------
EXTENDS ConflictSweep
CONSTANTS x, y
MCSim == [v \in {x, y} |-> [w \in {x, y} |-> IF v = w THEN 2 ELSE 1]]
MCFloor == [s \in {"a", "b"} |-> IF s = "a" THEN 2 ELSE 1]
=============================================================================
