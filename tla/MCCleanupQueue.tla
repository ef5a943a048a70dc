---------------------------- MODULE MCCleanupQueue ----------------------------
EXTENDS CleanupQueue
In(t, D) == {[text |-> t, at |-> d] : d \in D}
MCInputs == <<In(1, {1}), In(1, {2}), In(2, {Null})>>
MCSim == [t \in 1 .. 2 |-> [u \in 1 .. 2 |-> 2]]
MCPosts == {[kind |-> "contradiction", members |-> {1, 2, 3}, keep |-> 0]}
=============================================================================
