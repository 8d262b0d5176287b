---------------------------- MODULE JoinCompile ----------------------------
(***************************************************************************)
(* bigframes/core/compile/single_column.py: lowering a JoinNode into one   *)
(* ibis join of two independently compiled sides.                          *)
(*                                                                         *)
(* A compiled side (OrderedIR / UnorderedIR) is abstracted to its visible  *)
(* column ids, its hidden ordering column ids and the ids its ordering     *)
(* sorts by.  Compiling renames every column of both sides, joins the two  *)
(* renamed tables (the key predicate is the subject of JoinKeys), and      *)
(* lists the output columns, hidden columns and the merged ordering.       *)
(***************************************************************************)
EXTENDS Integers, Sequences, SequencesExt, FiniteSets, TLC

CONSTANTS
    ColIds,       \* column ids a compiled side may carry
    HiddenIds,    \* hidden ordering column ids a side may carry
    MaxCols,      \* bound on the visible columns of a side
    NoResult      \* no compiled join yet

JoinTypes == {"inner", "outer", "left", "right", "cross"}

(***************************************************************************)
(* Renaming                                                                *)
(***************************************************************************)
\* bigframes.core.identifiers.standard_identifiers: col_0, col_1, ...
StandardId(i) == <<"col", i>>
\* bigframes.core.guid.generate_guid("hidden_")
HiddenGuid(i) == <<"hidden", i>>

IndexOf(s, x) == CHOOSE i \in DOMAIN s : s[i] = x

\* mutant: a generator restarted for every side
ValueMappingRestarted(side, drawn) ==
    [c \in ToSet(side.columns) |-> StandardId(IndexOf(side.columns, c) - 1)]

\* dict(zip(side.column_ids, id_generator)) where the generator has already
\* produced `drawn` identifiers
ValueMapping(side, drawn) ==
    [c \in ToSet(side.columns) |-> StandardId(drawn + IndexOf(side.columns, c) - 1)]

\* mutant: hidden columns keep their own ids
HiddenMappingKept(side, guid) == [h \in ToSet(side.hidden) |-> h]

\* {id: generate_guid("hidden_") for id in side._hidden_column_ids}
HiddenMapping(side, guid) ==
    [h \in ToSet(side.hidden) |-> HiddenGuid(guid + IndexOf(side.hidden, h) - 1)]

\* {**value_mapping, **hidden_mapping}: hidden entries win
MergeMappings(value, hidden) == hidden @@ value

\* _to_ibis_expr(col_id_overrides=m): an id without an override keeps its name
Rename(m, c) == IF c \in DOMAIN m THEN m[c] ELSE c

\* orderings.join_orderings (ordering.py, not in this repository): the
\* dominating side's ordering keys first, then the other side's, each
\* renamed into the joined table
JoinOrderings(lOrd, rOrd, lMap, rMap, leftDominates) ==
    LET l == [i \in DOMAIN lOrd |-> Rename(lMap, lOrd[i])]
        r == [i \in DOMAIN rOrd |-> Rename(rMap, rOrd[i])]
    IN IF leftDominates THEN l \o r ELSE r \o l

\* mutant: only a left join keeps the left ordering first
LeftOrderDominatesOnlyLeft(type) == type = "left"

\* left_order_dominates=(type != "right")
LeftOrderDominates(type) == type # "right"

(***************************************************************************)
(* Compiling                                                               *)
(***************************************************************************)
VARIABLES
    left,      \* the compiled left side
    right,     \* the compiled right side
    jtype,     \* join type
    guid,      \* the process-wide guid counter
    result     \* the compiled join, or NoResult
vars == <<left, right, jtype, guid, result>>

\* the columns of side._to_ibis_expr(expose_hidden_cols=True, ...): the
\* renamed visible columns, then the renamed hidden ones
TableColumns(side, m) ==
    [i \in 1..Len(side.columns \o side.hidden) |-> Rename(m, (side.columns \o side.hidden)[i])]

\* where each column of the joined table comes from
TableOrigins(side, tag) ==
    [i \in 1..Len(side.columns \o side.hidden) |-> <<tag, (side.columns \o side.hidden)[i]>>]

Tagged(s, tag) == [i \in DOMAIN s |-> <<tag, s[i]>>]

\* the ordered path: hidden columns get fresh guids, orderings are merged
\* Fault model for JoinSpecRefinement: the ordered path guarded like the
\* unordered one, so sides with hidden ordering columns are never joined.
JoinByColumnOrderedHiddenless ==
    LET lValue == ValueMapping(left, 0)
        rValue == ValueMapping(right, Len(left.columns))
        lHidden == HiddenMapping(left, guid)
        rHidden == HiddenMapping(right, guid + Len(left.hidden))
        lMap == MergeMappings(lValue, lHidden)
        rMap == MergeMappings(rValue, rHidden)
    IN /\ result = NoResult
       /\ left.hidden = <<>> /\ right.hidden = <<>>
       /\ result' = [names |-> TableColumns(left, lMap) \o TableColumns(right, rMap),
                     origins |-> TableOrigins(left, "L") \o TableOrigins(right, "R"),
                     columns |-> [i \in DOMAIN left.columns |-> lMap[left.columns[i]]]
                                 \o [i \in DOMAIN right.columns |-> rMap[right.columns[i]]],
                     hidden |-> [i \in DOMAIN left.hidden |-> lHidden[left.hidden[i]]]
                                \o [i \in DOMAIN right.hidden |-> rHidden[right.hidden[i]]],
                     ordering |-> JoinOrderings(left.ordering, right.ordering, lMap, rMap,
                                                LeftOrderDominates(jtype))]
       /\ guid' = guid + Len(left.hidden) + Len(right.hidden)
       /\ UNCHANGED <<left, right, jtype>>

JoinByColumnOrdered ==
    LET lValue == ValueMapping(left, 0)
        rValue == ValueMapping(right, Len(left.columns))
        lHidden == HiddenMapping(left, guid)
        rHidden == HiddenMapping(right, guid + Len(left.hidden))
        lMap == MergeMappings(lValue, lHidden)
        rMap == MergeMappings(rValue, rHidden)
    IN /\ result = NoResult
       /\ result' = [names |-> TableColumns(left, lMap) \o TableColumns(right, rMap),
                     origins |-> TableOrigins(left, "L") \o TableOrigins(right, "R"),
                     columns |-> [i \in DOMAIN left.columns |-> lMap[left.columns[i]]]
                                 \o [i \in DOMAIN right.columns |-> rMap[right.columns[i]]],
                     hidden |-> [i \in DOMAIN left.hidden |-> lHidden[left.hidden[i]]]
                                \o [i \in DOMAIN right.hidden |-> rHidden[right.hidden[i]]],
                     ordering |-> JoinOrderings(left.ordering, right.ordering, lMap, rMap,
                                                LeftOrderDominates(jtype))]
       /\ guid' = guid + Len(left.hidden) + Len(right.hidden)
       /\ UNCHANGED <<left, right, jtype>>

\* the unordered path: visible columns only, no ordering
JoinByColumnUnordered ==
    LET lMap == ValueMapping(left, 0)
        rMap == ValueMapping(right, Len(left.columns))
    IN /\ result = NoResult
       /\ left.hidden = <<>> /\ right.hidden = <<>>
       /\ result' = [names |-> TableColumns(left, lMap) \o TableColumns(right, rMap),
                     origins |-> TableOrigins(left, "L") \o TableOrigins(right, "R"),
                     columns |-> [i \in DOMAIN left.columns |-> lMap[left.columns[i]]]
                                 \o [i \in DOMAIN right.columns |-> rMap[right.columns[i]]],
                     hidden |-> <<>>,
                     ordering |-> <<>>]
       /\ UNCHANGED <<left, right, jtype, guid>>

\* The compiled sides a JoinNode's children can lower to: distinct visible
\* ids, hidden ordering ids distinct from them, and an ordering over the
\* side's visible and hidden columns.  The two sides may reuse ids: each
\* was compiled in its own namespace.
DistinctSeqs(S, n) == {s \in BoundedSeq(S, n) : IsInjective(s)}
Sides ==
    {side \in [columns : DistinctSeqs(ColIds, MaxCols) \ {<<>>},
               hidden : DistinctSeqs(HiddenIds, 1),
               ordering : DistinctSeqs(ColIds \cup HiddenIds, 1)] :
        ToSet(side.ordering) \subseteq ToSet(side.columns \o side.hidden)}

Init ==
    /\ left \in Sides
    /\ right \in Sides
    /\ jtype \in JoinTypes
    /\ guid = 0
    /\ result = NoResult

Next == JoinByColumnOrdered \/ JoinByColumnUnordered

\* join_by_column_ordered and join_by_column_unordered loop only over the
\* sides' columns and return: a compilation that can run does run
Spec == Init /\ [][Next]_vars /\ WF_vars(Next)

(***************************************************************************)
(* Refinement mapping: a name of the joined table denotes the column it    *)
(* was renamed from; the abstract joined expression is read through it.    *)
(***************************************************************************)
\* the origins of the joined-table columns a name can denote
OriginsOf(name) == {result.origins[j] : j \in {i \in DOMAIN result.names : result.names[i] = name}}

\* the origin a name resolves to in the joined table (a name that denotes
\* no column resolves to NoOrigin)
NoOrigin == <<"none", "none">>
Resolve(name) == IF OriginsOf(name) = {} THEN NoOrigin ELSE CHOOSE o \in OriginsOf(name) : TRUE
ResolveAll(s) == [i \in DOMAIN s |-> Resolve(s[i])]

Abstract == INSTANCE JoinSpec WITH
    SideSet <- Sides,
    joined <- IF result = NoResult THEN NoResult
              ELSE [columns |-> ResolveAll(result.columns),
                    hidden |-> ResolveAll(result.hidden),
                    ordering |-> ResolveAll(result.ordering)]

(***************************************************************************)
(* Properties                                                              *)
(***************************************************************************)
Names == UNION {{<<"col", i>>, <<"hidden", i>>} : i \in 0..(2 * MaxCols + 2)}

\* The compiled join's column lists use generated names and each column of
\* the joined table has a known origin.
TypeOK ==
    /\ left \in Sides /\ right \in Sides /\ jtype \in JoinTypes
    /\ guid \in Nat
    /\ result # NoResult =>
          /\ Len(result.names) = Len(result.origins)
          /\ ToSet(result.columns \o result.hidden \o result.ordering) \subseteq Names

\* The output columns are the left side's columns in order, then the right
\* side's, and each output column names exactly one column of the joined
\* table, the one it comes from: renaming the two sides never makes two
\* columns of the joined table share a name.
OutputColumnsResolve ==
    result # NoResult =>
        LET expected == Tagged(left.columns, "L") \o Tagged(right.columns, "R")
        IN /\ Len(result.columns) = Len(expected)
           /\ \A i \in DOMAIN expected : OriginsOf(result.columns[i]) = {expected[i]}

\* JoinCompile implements JoinSpec: read through the names of the joined
\* table, the output columns, the hidden ordering columns and the ordering
\* the compiler returns are the columns JoinSpec promises, for every join
\* kind, in ordered and unordered mode; and, as JoinSpec's fairness asks,
\* every pair of compiled sides does get joined (no input leaves both
\* join_by_column functions unable to return).
JoinSpecRefinement == Abstract!Spec

=============================================================================
