---------------------------- MODULE MC_IRNodes ----------------------------
(* Model-checking instance of IRNodes: two sessions, one BigQuery table    *)
(* with an Int and an array column, a one-column local batch.              *)
EXTENDS IRNodes

CONSTANTS s1, s2, noSession, sessionError, countId, labelsId, col0, col1, col2, col3, col4, noFrame

MCSessions == {s1, s2}
MCConcatNames == <<col0, col1, col2, col3, col4>>
MCTables == [t1 |-> (1 :> "Int" @@ 2 :> "IntArr")]
MCScanRequests == {{1, 2}, {1, 3}}
MCTableColumns == {{}, {1}}
MCLocalSchema == <<"Str">>
MCSourceOrderings == {"none", "total"}

SessionSymmetry == Permutations(MCSessions)
=============================================================================
