------------------------------ MODULE JoinKeys ------------------------------
(***************************************************************************)
(* The join predicate of single_column.py: value_to_join_key on both key   *)
(* columns, compared with SQL equality by the engine.  The rows the        *)
(* engine returns are compared with the rows pandas' merge returns, where  *)
(* a null key matches a null key.                                          *)
(***************************************************************************)
EXTENDS Integers, FiniteSets, TLC

CONSTANTS
    Null,         \* SQL NULL / pandas NA
    KeyValues,    \* dtype -> the non-null values a key column may hold
    MaxRows       \* bound on the distinct key values of a side

ASSUME \A d \in DOMAIN KeyValues : Null \notin KeyValues[d]

JoinTypes == {"inner", "outer", "left", "right", "cross"}

\* the literal value_to_join_key fills nulls with
NULL_SENTINEL == "$NULL_SENTINEL$"

\* value.cast(ibis_dtypes.str) for a non-string key
CastToString(v) == IF v = Null THEN Null ELSE ToString(v)

\* Fault model for NullSafeJoinMatchesPandas: the fillna step is left out.
ValueToJoinKeyWithoutFill(v, dtype) == IF dtype = "Str" THEN v ELSE CastToString(v)

\* value_to_join_key: cast to string unless already a string, then fillna
ValueToJoinKey(v, dtype) ==
    LET s == IF dtype = "Str" THEN v ELSE CastToString(v)
    IN IF s = Null THEN NULL_SENTINEL ELSE s

\* SQL equality: NULL compares unknown, which a join predicate rejects
SqlEquals(a, b) == a # Null /\ b # Null /\ a = b

KeyPredicate(l, r, dtype) == SqlEquals(ValueToJoinKey(l, dtype), ValueToJoinKey(r, dtype))

\* rows of the join of two key columns given the pairs the predicate
\* matches, with Null padding the unmatched side of outer joins
JoinRows(L, R, matched, type) ==
    LET lOnly == {<<l, Null>> : l \in {x \in L : \A r \in R : <<x, r>> \notin matched}}
        rOnly == {<<Null, r>> : r \in {y \in R : \A l \in L : <<l, y>> \notin matched}}
    IN CASE type = "cross" -> L \X R
         [] type = "inner" -> matched
         [] type = "left" -> matched \cup lOnly
         [] type = "right" -> matched \cup rOnly
         [] type = "outer" -> matched \cup lOnly \cup rOnly

\* the pairs of keys the compiled predicate matches
Matched(L, R, dtype) == {p \in L \X R : KeyPredicate(p[1], p[2], dtype)}

\* pandas merge: keys match when equal, and a missing key matches a missing key
PandasMatched(L, R) == {p \in L \X R : p[1] = p[2]}

VARIABLES
    keyDtype,   \* dtype of the compared key columns
    jtype,      \* join type
    leftKeys,   \* key values of the left rows
    rightKeys,  \* key values of the right rows
    rows        \* rows the engine returned, or Null before the join ran
vars == <<keyDtype, jtype, leftKeys, rightKeys, rows>>

Columns(d) == {S \in SUBSET (KeyValues[d] \cup {Null}) : Cardinality(S) <= MaxRows}

Init ==
    /\ keyDtype \in DOMAIN KeyValues
    /\ jtype \in JoinTypes
    /\ leftKeys \in Columns(keyDtype)
    /\ rightKeys \in Columns(keyDtype)
    /\ rows = Null

\* Fault model for TypeOK: the two sides are passed to ibis.join swapped.
JoinSwapped ==
    /\ rows = Null
    /\ rows' = JoinRows(rightKeys, leftKeys, Matched(rightKeys, leftKeys, keyDtype), jtype)
    /\ UNCHANGED <<keyDtype, jtype, leftKeys, rightKeys>>

\* join_by_column_(un)ordered: build the key predicate and run ibis.join
Join ==
    /\ rows = Null
    /\ rows' = JoinRows(leftKeys, rightKeys, Matched(leftKeys, rightKeys, keyDtype), jtype)
    /\ UNCHANGED <<keyDtype, jtype, leftKeys, rightKeys>>

Next == Join

Spec == Init /\ [][Next]_vars

TypeOK ==
    /\ keyDtype \in DOMAIN KeyValues
    /\ jtype \in JoinTypes
    /\ leftKeys \cup rightKeys \subseteq KeyValues[keyDtype] \cup {Null}
    /\ rows = Null \/ rows \subseteq (leftKeys \cup {Null}) \X (rightKeys \cup {Null})

\* Spec 8, "null-safe join keys": the compiled join returns exactly the rows
\* pandas' merge would, for every join type; in particular two null keys
\* match and a null key matches nothing else.
NullSafeJoinMatchesPandas ==
    rows # Null => rows = JoinRows(leftKeys, rightKeys, PandasMatched(leftKeys, rightKeys), jtype)

=============================================================================
