------------------------ MODULE MCEmbeddingMigration -----------------------
(***************************************************************************)
(* Model checking of EmbeddingMigration on small instances. The cfg files *)
(* choose the mode, the rows and which .env files an operator may use.     *)
(***************************************************************************)
EXTENDS EmbeddingMigration

\* Rows are spread over the units, the first to the default unit.
MCUnitOf == [r \in Rows |-> IF r = 1 \/ Units = {DefaultUnit} THEN DefaultUnit
                            ELSE CHOOSE u \in Units : u # DefaultUnit]

Blocks(b) == [blocks |-> b, retire |-> None, flip |-> Units]

\* The .env with both blocks, beside which commands are typed, and the one the
\* server may start on after m1 was taken out of it.
MCBoth == {Blocks(<<"m2", "m1">>)}
MCPair == MCBoth \cup {Blocks(<<"m2">>)}

\* The .env files of a move steered by configuration alone: m1 to m2, back
\* again, m1 retired, and m2 to m3.
MCEnvs == {Blocks(<<"m2", "m1">>), Blocks(<<"m1", "m2">>), Blocks(<<"m3", "m2">>),
           [blocks |-> <<"m2">>, retire |-> "m1", flip |-> Units]}

===========================================================================
