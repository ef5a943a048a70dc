--------------------------- MODULE MCBootstrapCache ---------------------------
(* Instances of the digest cache: a private row in the user's own namespace *)
(* and a rename, or a sealed item in a namespace that a private row may     *)
(* come to share.                                                           *)
EXTENDS BootstrapCache, TLC

MCTouches == [o \in Changes |->
    IF o = "rename" THEN "labels" ELSE IF o = "note" THEN "user" ELSE "vault"]
MCLevel == [o \in Changes |-> IF o = "key" THEN 3 ELSE IF o = "rename" THEN 1 ELSE 2]

\* The grants that differ in the ceiling of one namespace.
MCReach(n, ceilings) == {[m \in Namespaces |-> IF m = n THEN v ELSE 2] : v \in ceilings}
MCUserGrants == MCReach("user", {1, 2})
MCVaultGrants == MCReach("vault", {2, 3})

CallerSymmetry == Permutations(Callers)
=============================================================================
