--------------------------- MODULE MCSupersession ---------------------------
(* Small instances of Supersession.                                        *)
EXTENDS Supersession, TLC

\* One session may reach every row, the others all but the first.
CONSTANTS r1, owner

MCReach == [s \in Sessions |-> IF s = owner THEN Rows ELSE Rows \ {r1}]

Symmetric == Permutations(Rows \ {r1}) \cup Permutations(Sessions \ {owner})

AllSymmetric == Permutations(Rows) \cup Permutations(Sessions)

MCReachAll == [s \in Sessions |-> Rows]

=============================================================================
