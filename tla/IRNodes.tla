------------------------------ MODULE IRNodes ------------------------------
(***************************************************************************)
(* The BigFrameNode IR of bigframes/core/nodes.py.                         *)
(*                                                                         *)
(* A node is an immutable TLA+ record whose "kind" names the Python        *)
(* dataclass; children are nested records, so structural sharing and       *)
(* structural equality are those of TLA+ values.  The derived properties   *)
(* of a node (fields, order flags, session, cost metrics) and the column   *)
(* pruning rewrite are RECURSIVE operators, one per node kind and method.  *)
(*                                                                         *)
(* The state is the set of frames a client holds: every action is one     *)
(* node constructor, guarded by its __post_init__ checks, that wraps the   *)
(* frames it is applied to (the client rebinds its variable to the new     *)
(* frame, as DataFrame methods do).  Expressions are abstracted to the columns     *)
(* they reference and the operation that fixes their output type.          *)
(***************************************************************************)
EXTENDS Integers, Sequences, SequencesExt, FiniteSets

CONSTANTS
    Sessions,       \* the session objects leaves may carry
    NoSession,      \* Python None for a session
    SessionError,   \* the ValueError raised when sessions are combined
    CountName,      \* ColumnId("count") of RowCountNode
    LabelsName,     \* ColumnId("labels") of FromRangeNode
    ConcatNames,    \* <<ColumnId("column_0"), ColumnId("column_1"), ...>>
    Tables,         \* BigQuery tables: name -> physical schema (source id -> dtype)
    ScanRequests,   \* sets of source column ids a scan list may request
    TableColumns,   \* the columns arguments GbqTable.from_table may be given
    SourceOrderings,\* the RowOrderings a BigQuery source may declare
    LocalSchema,    \* dtypes of the local (feather) batch of ReadLocalNode
    WindowKeys,     \* whether window specs may reference grouping columns
    OverwriteIds,   \* whether a client may assign a projection to an existing id
    MaxIds,         \* bound on the guid counter
    MaxNodes,       \* bound on the number of nodes constructed
    MaxFrames,      \* bound on the number of frames held at once
    NoFrame         \* no frame built yet

ASSUME NoSession \notin Sessions /\ SessionError \notin Sessions \cup {NoSession}
ASSUME WindowKeys \in BOOLEAN /\ OverwriteIds \in BOOLEAN

OVERHEAD_VARIABLES == 5

Dtypes == {"Int", "Str", "IntArr"}
\* value type of an array dtype, used by ExplodeNode
ElementType(d) == IF d = "IntArr" THEN "Int" ELSE d

LeafKinds == {"ReadLocal", "ReadTable", "CachedTable"}
UnaryKinds == {"PromoteOffsets", "Filter", "OrderBy", "Reversed", "Selection",
               "Projection", "RowCount", "Aggregate", "WindowOp",
               "ReprojectOp", "RandomSample", "Explode"}
\* RowOrdering of a BigQuery source: None, partial, or total.  (A
\* sequential ordering only adds supports_fast_head, not modelled.)
Orderings == {"none", "partial", "total"}
ASSUME SourceOrderings \subseteq Orderings
JoinTypes == {"inner", "outer", "left", "right", "cross"}

\* BigFrameNode.child_nodes, with the overrides of each family
ChildNodes(n) ==
    CASE n.kind \in LeafKinds -> <<>>
      [] n.kind \in UnaryKinds -> <<n.child>>
      [] n.kind = "Join" -> <<n.left, n.right>>
      [] n.kind = "Concat" -> n.children
      [] n.kind = "FromRange" -> <<n.start, n.end>>

Field(id, dtype) == [id |-> id, dtype |-> dtype]

(***************************************************************************)
(* fields: the output schema of a node                                     *)
(***************************************************************************)
RECURSIVE Fields(_)

Ids(n) == {f.id : f \in ToSet(Fields(n))}

\* BigFrameNode.get_type via _dtype_lookup (a dict: the last field wins)
TypeOf(n, id) ==
    LET fs == Fields(n)
    IN fs[Max({i \in DOMAIN fs : fs[i].id = id})].dtype

\* Expression.output_type: a deref passes its column's type through; "add1"
\* is the numeric operator, defined on Int only (TypeError otherwise)
ExprTypeChecks(e, n) ==
    /\ e.refs \subseteq Ids(n)
    /\ e.op = "add1" => \A c \in e.refs : TypeOf(n, c) = "Int"
ExprType(e, n) ==
    IF e.op = "deref" THEN TypeOf(n, CHOOSE c \in e.refs : TRUE) ELSE "Int"

ScanFields(n) == [i \in DOMAIN n.scan |-> Field(n.scan[i].id, n.scan[i].dtype)]

JoinFields(n) == Fields(n.left) \o Fields(n.right)

ConcatFields(n) ==
    LET first == Fields(n.children[1])
    IN [i \in DOMAIN first |-> Field(ConcatNames[i], first[i].dtype)]

FromRangeFields(n) == <<Field(LabelsName, Fields(n.start)[1].dtype)>>

PromoteOffsetsFields(n) == Append(Fields(n.child), Field(n.col, "Int"))

SelectionFields(n) ==
    [i \in DOMAIN n.pairs |-> Field(n.pairs[i].out, TypeOf(n.child, n.pairs[i].in))]

ProjectionFields(n) ==
    Fields(n.child) \o [i \in DOMAIN n.assigns |->
                          Field(n.assigns[i].out, ExprType(n.assigns[i].expr, n.child))]

RowCountFields(n) == <<Field(CountName, "Int")>>

\* group keys keep their type; every aggregation is a count (Int)
AggregateFields(n) ==
    [i \in DOMAIN n.by |-> Field(n.by[i], TypeOf(n.child, n.by[i]))]
      \o [i \in DOMAIN n.aggs |-> Field(n.aggs[i].out, "Int")]

\* the window op (a cumulative op) keeps its input column's type
WindowOpFields(n) == Append(Fields(n.child), Field(n.out, TypeOf(n.child, n.col)))

ExplodeFields(n) ==
    LET fs == Fields(n.child)
    IN [i \in DOMAIN fs |->
          IF fs[i].id \in n.cols THEN Field(fs[i].id, ElementType(fs[i].dtype)) ELSE fs[i]]

Fields(n) ==
    CASE n.kind \in LeafKinds -> ScanFields(n)
      [] n.kind = "Join" -> JoinFields(n)
      [] n.kind = "Concat" -> ConcatFields(n)
      [] n.kind = "FromRange" -> FromRangeFields(n)
      [] n.kind = "PromoteOffsets" -> PromoteOffsetsFields(n)
      [] n.kind = "Selection" -> SelectionFields(n)
      [] n.kind = "Projection" -> ProjectionFields(n)
      [] n.kind = "RowCount" -> RowCountFields(n)
      [] n.kind = "Aggregate" -> AggregateFields(n)
      [] n.kind = "WindowOp" -> WindowOpFields(n)
      [] n.kind = "Explode" -> ExplodeFields(n)
      [] OTHER -> Fields(n.child)

DtypeSeq(n) == [i \in DOMAIN Fields(n) |-> Fields(n)[i].dtype]

(***************************************************************************)
(* Ordering flags, session and cost metrics                                *)
(***************************************************************************)
RECURSIVE OrderAmbiguous(_), ExplicitlyOrdered(_), Session(_)

\* ReadTableNode.order_ambiguous: no source ordering, or a partial one
TableOrderAmbiguous(n) == n.source.ordering \in {"none", "partial"}

OrderAmbiguous(n) ==
    CASE n.kind = "ReadLocal" -> FALSE
      [] n.kind \in {"ReadTable", "CachedTable"} -> TableOrderAmbiguous(n)
      [] n.kind = "Join" -> TRUE
      [] n.kind = "Concat" -> \E i \in DOMAIN n.children : OrderAmbiguous(n.children[i])
      [] n.kind \in {"FromRange", "Aggregate"} -> FALSE
      [] OTHER -> OrderAmbiguous(n.child)

ExplicitlyOrdered(n) ==
    CASE n.kind \in {"ReadTable", "CachedTable"} -> n.source.ordering # "none"
      [] n.kind = "Join" -> FALSE
      [] n.kind \in {"ReadLocal", "Concat", "FromRange", "OrderBy", "Aggregate"} -> TRUE
      [] OTHER -> ExplicitlyOrdered(n.child)

\* BigFrameNode.session: the unique session of the children, None if none
\* has one, and the ValueError if two differ (raised lazily, on access)
ChildSessions(n) ==
    LET kids == ChildNodes(n)
    IN {Session(kids[i]) : i \in DOMAIN kids} \ {NoSession}

\* Fault model for TypeOK: the list of child sessions is returned instead
\* of its single element.
SessionReturningList(n) ==
    IF n.kind \in LeafKinds THEN n.session
    ELSE LET s == ChildSessions(n)
         IN CASE SessionError \in s -> SessionError
              [] Cardinality(s) > 1 -> SessionError
              [] Cardinality(s) = 1 -> s
              [] OTHER -> NoSession

Session(n) ==
    IF n.kind \in LeafKinds THEN n.session
    ELSE LET s == ChildSessions(n)
         IN CASE SessionError \in s -> SessionError
              [] Cardinality(s) > 1 -> SessionError
              [] Cardinality(s) = 1 -> CHOOSE x \in s : TRUE
              [] OTHER -> NoSession

VariablesIntroduced(n) ==
    CASE n.kind \in LeafKinds -> Len(n.scan) + 1
      [] n.kind = "Join" -> OVERHEAD_VARIABLES
      [] n.kind \in {"Concat", "FromRange"} -> Len(Fields(n)) + OVERHEAD_VARIABLES
      [] n.kind \in {"PromoteOffsets", "Filter", "RowCount", "WindowOp",
                     "RandomSample"} -> 1
      [] n.kind \in {"OrderBy", "Reversed", "Selection", "ReprojectOp"} -> 0
      [] n.kind = "Projection" ->
            Cardinality({i \in DOMAIN n.assigns : n.assigns[i].expr.op # "deref"})
      [] n.kind = "Aggregate" -> Len(n.aggs) + Len(n.by)
      [] n.kind = "Explode" -> Cardinality(n.cols) + 1

RelationOpsCreated(n) ==
    CASE n.kind \in {"ReadTable", "CachedTable", "Explode"} -> 3
      [] n.kind = "PromoteOffsets" -> 2
      [] n.kind \in {"OrderBy", "Reversed", "ReprojectOp"} -> 0
      [] n.kind = "WindowOp" -> IF n.skipReproject THEN 0 ELSE 4
      [] OTHER -> 1

\* joins: only JoinNode overrides the default False
Joins(n) == n.kind = "Join"

RECURSIVE TotalVariables(_), TotalRelationalOps(_), TotalJoins(_)
TotalVariables(n) ==
    VariablesIntroduced(n) + FoldSeq(LAMBDA c, acc : TotalVariables(c) + acc, 0, ChildNodes(n))
TotalRelationalOps(n) ==
    RelationOpsCreated(n) + FoldSeq(LAMBDA c, acc : TotalRelationalOps(c) + acc, 0, ChildNodes(n))
TotalJoins(n) ==
    (IF Joins(n) THEN 1 ELSE 0)
      + FoldSeq(LAMBDA c, acc : TotalJoins(c) + acc, 0, ChildNodes(n))

PlanningComplexity(n) == TotalVariables(n) * TotalRelationalOps(n) * (1 + TotalJoins(n))

(***************************************************************************)
(* Construction checks (__post_init__) and reference resolution            *)
(***************************************************************************)
\* JoinNode.__post_init__: "Join ids collide"
JoinIdsDisjoint(l, r) == Ids(l) \cap Ids(r) = {}

\* ConcatNode.__post_init__: at least one input, identical dtypes
ConcatInputsValid(ts) ==
    /\ Len(ts) > 0
    /\ \A i, j \in DOMAIN ts : DtypeSeq(ts[i]) = DtypeSeq(ts[j])

\* ReadTableNode.__post_init__: the scan list is a subset of the physical schema
ScanInSchema(source, scan) ==
    \A i \in DOMAIN scan : scan[i].src \in DOMAIN source.schema

\* A Python value tagged with its class, for comparisons across classes:
\* a dataclass ColumnId never equals a str
AsColumnId(id) == <<"ColumnId", id>>

\* BigFrameNode.schema: the SchemaItem names, i.id.name, are str
SchemaNames(n) == {<<"str", Fields(n)[i].id>> : i \in DOMAIN Fields(n)}

\* ProjectionNode.__post_init__: each expression types against the child;
\* the append-only assertion tests the assigned ColumnId against the child's
\* schema names
ProjectionValid(child, assigns) ==
    \A i \in DOMAIN assigns :
        /\ ExprTypeChecks(assigns[i].expr, child)
        /\ AsColumnId(assigns[i].out) \notin SchemaNames(child)

\* The columns a node reads from its child (or children), by kind.  A node
\* whose references are not all among its children's ids cannot be compiled.
RefsResolve(n) ==
    CASE n.kind = "Join" ->
            \A i \in DOMAIN n.conds : n.conds[i][1] \in Ids(n.left)
                                      /\ n.conds[i][2] \in Ids(n.right)
      [] n.kind = "Filter" -> n.pred \subseteq Ids(n.child)
      [] n.kind = "OrderBy" -> n.by \subseteq Ids(n.child)
      [] n.kind = "Selection" -> \A i \in DOMAIN n.pairs : n.pairs[i].in \in Ids(n.child)
      [] n.kind = "Projection" -> ProjectionValid(n.child, n.assigns)
      [] n.kind = "Aggregate" ->
            ToSet(n.by) \cup {n.aggs[i].col : i \in DOMAIN n.aggs} \subseteq Ids(n.child)
      [] n.kind = "WindowOp" -> ({n.col} \cup n.keys) \subseteq Ids(n.child)
      [] n.kind = "Explode" -> n.cols \subseteq Ids(n.child)
      [] n.kind = "FromRange" -> Len(Fields(n.start)) > 0
      [] n.kind = "Concat" -> ConcatInputsValid(n.children)
      [] n.kind \in {"ReadTable", "CachedTable"} -> ScanInSchema(n.source, n.scan)
      [] OTHER -> TRUE

RECURSIVE WellFormed(_)
WellFormed(n) ==
    /\ RefsResolve(n)
    /\ n.kind = "Join" => JoinIdsDisjoint(n.left, n.right)
    /\ \A i \in DOMAIN ChildNodes(n) : WellFormed(ChildNodes(n)[i])

(***************************************************************************)
(* prune(used_cols): one operator per override                             *)
(***************************************************************************)
RECURSIVE Prune(_, _)

\* ReadLocalNode.prune / ReadTableNode.prune / CachedTableNode.prune: keep
\* the scan items whose id is used, rebuild the node with its other fields
PruneLeaf(n, used) == [n EXCEPT !.scan = SelectSeq(n.scan, LAMBDA it : it.id \in used)]

\* BigFrameNode.prune: prune every child against the same set
PruneDefault(n, used) == [n EXCEPT !.child = Prune(n.child, used)]

\* JoinNode.prune: add the condition columns of both sides
PruneJoin(n, used) ==
    LET newUsed == used \cup {n.conds[i][1] : i \in DOMAIN n.conds}
                        \cup {n.conds[i][2] : i \in DOMAIN n.conds}
    IN [n EXCEPT !.left = Prune(n.left, newUsed), !.right = Prune(n.right, newUsed)]

\* PromoteOffsetsNode.prune: drop the node if its offsets column is unused
PrunePromoteOffsets(n, used) ==
    IF n.col \notin used THEN Prune(n.child, used)
    ELSE [n EXCEPT !.child = Prune(n.child, used \ {n.col})]

\* Fault model for PrunedWellFormed: the predicate's columns are not added.
PruneFilterDroppingPredicate(n, used) == [n EXCEPT !.child = Prune(n.child, used)]

\* FilterNode.prune: the predicate's columns are consumed
PruneFilter(n, used) == [n EXCEPT !.child = Prune(n.child, used \cup n.pred)]

\* OrderByNode.prune: the sort keys' columns are consumed
PruneOrderBy(n, used) == [n EXCEPT !.child = Prune(n.child, used \cup n.by)]

\* Fault model for PruneKeepsUsedColumns: pairs kept by input, not output.
PruneSelectionByInput(n, used) ==
    LET kept == SelectSeq(n.pairs, LAMBDA p : p.in \in used)
    IN [n EXCEPT !.pairs = kept,
                 !.child = Prune(n.child, {kept[i].in : i \in DOMAIN kept})]

\* SelectionNode.prune: keep the pairs whose output is used; the child only
\* has to supply their inputs
PruneSelection(n, used) ==
    LET kept == SelectSeq(n.pairs, LAMBDA p : p.out \in used)
    IN [n EXCEPT !.pairs = kept,
                 !.child = Prune(n.child, {kept[i].in : i \in DOMAIN kept})]

\* ProjectionNode.prune: drop unused assignments, collapse when none is left
PruneProjection(n, used) ==
    LET kept == SelectSeq(n.assigns, LAMBDA a : a.out \in used)
        consumed == UNION {kept[i].expr.refs : i \in DOMAIN kept}
    IN IF kept = <<>> THEN Prune(n.child, used)
       ELSE [n EXCEPT !.assigns = kept, !.child = Prune(n.child, used \cup consumed)]

\* Fault model for PrunePreservesRows: an aggregate with no used aggregation
\* collapses like a projection does.
PruneAggregateCollapsing(n, used) ==
    LET kept == SelectSeq(n.aggs, LAMBDA a : a.out \in used)
        consumed == ToSet(n.by) \cup {kept[i].col : i \in DOMAIN kept}
    IN IF kept = <<>> THEN Prune(n.child, used)
       ELSE [n EXCEPT !.aggs = kept, !.child = Prune(n.child, consumed)]

\* AggregateNode.prune: keep all group keys, drop unused aggregations
PruneAggregate(n, used) ==
    LET kept == SelectSeq(n.aggs, LAMBDA a : a.out \in used)
        consumed == ToSet(n.by) \cup {kept[i].col : i \in DOMAIN kept}
    IN [n EXCEPT !.aggs = kept, !.child = Prune(n.child, consumed)]

\* Fault model for PruneNeverRaisesComplexity: the node is rebuilt with its
\* constructor and skip_reproject_unsafe falls back to its default.
PruneWindowOpRebuilt(n, used) ==
    IF n.out \notin used THEN n.child
    ELSE [n EXCEPT !.child = Prune(n.child, (used \ {n.out}) \cup {n.col}),
                   !.skipReproject = FALSE]

\* WindowOpNode.prune: an unused output collapses the node to its child
\* (returned as it is); otherwise the input column is consumed
PruneWindowOp(n, used) ==
    IF n.out \notin used THEN n.child
    ELSE [n EXCEPT !.child = Prune(n.child, (used \ {n.out}) \cup {n.col})]

\* ExplodeNode.prune: the exploded columns are always kept
PruneExplode(n, used) == [n EXCEPT !.child = Prune(n.child, used \cup n.cols)]

Prune(n, used) ==
    CASE n.kind \in LeafKinds -> PruneLeaf(n, used)
      [] n.kind \in {"Concat", "FromRange"} -> n
      [] n.kind = "Join" -> PruneJoin(n, used)
      [] n.kind = "PromoteOffsets" -> PrunePromoteOffsets(n, used)
      [] n.kind = "Filter" -> PruneFilter(n, used)
      [] n.kind = "OrderBy" -> PruneOrderBy(n, used)
      [] n.kind = "Selection" -> PruneSelection(n, used)
      [] n.kind = "Projection" -> PruneProjection(n, used)
      [] n.kind = "Aggregate" -> PruneAggregate(n, used)
      [] n.kind = "WindowOp" -> PruneWindowOp(n, used)
      [] n.kind = "Explode" -> PruneExplode(n, used)
      [] OTHER -> PruneDefault(n, used)

(***************************************************************************)
(* Frames built by a client: one action per node constructor               *)
(***************************************************************************)
VARIABLES
    frames,   \* the frames the client holds
    last,     \* the frame built by the latest step
    nextId,   \* the guid counter
    built     \* number of nodes constructed
vars == <<frames, last, nextId, built>>

\* bigframes.core.guid.generate_guid: k fresh ids from the process counter
FreshIds(k) == [i \in 1..k |-> nextId + i - 1]
CanAllocate(k) == nextId + k - 1 <= MaxIds

\* a constructed node replaces the frames in replaced; k ids were drawn for it
Replace(replaced, n, k) ==
    /\ CanAllocate(k)
    /\ frames' = (frames \ replaced) \cup {n}
    /\ last' = n
    /\ nextId' = nextId + k
    /\ built' = built + 1

\* a node wraps the frames that are its children
Build(n, k) == Replace(ToSet(ChildNodes(n)), n, k)

\* the positions of a subset, in schema order
Positions(S) == SetToSortSeq(S, <)

\* the column subsets a selection keeps: all columns, or all but one
SelectionChoices(n) ==
    {cols \in SUBSET DOMAIN Fields(n) :
        cols # {} /\ Cardinality(cols) >= Len(Fields(n)) - 1}

ReadLocal(cols, s) ==
    LET pos == Positions(cols)
        ids == FreshIds(Len(pos))
    IN Build([kind |-> "ReadLocal", session |-> s,
              scan |-> [i \in DOMAIN pos |->
                          [id |-> ids[i], dtype |-> LocalSchema[pos[i]], src |-> pos[i]]]],
             Len(pos))

\* GbqTable.from_table: the physical schema keeps the table's columns named
\* in columns, or all of them when columns is empty
FromTable(t, columns) ==
    IF columns # {} THEN [c \in DOMAIN Tables[t] \cap columns |-> Tables[t][c]]
    ELSE Tables[t]

\* GbqTable.from_table + BigqueryDataSource + ReadTableNode, rejected by
\* __post_init__ when a scanned source column is not in the physical schema
ReadTable(t, columns, cols, o, s) ==
    LET pos == Positions(cols)
        ids == FreshIds(Len(pos))
        scan == [i \in DOMAIN pos |->
                   [id |-> ids[i], src |-> pos[i],
                    dtype |-> IF pos[i] \in DOMAIN Tables[t] THEN Tables[t][pos[i]] ELSE "Str"]]
        source == [table |-> t, ordering |-> o, schema |-> FromTable(t, columns)]
    IN /\ ScanInSchema(source, scan)
       /\ Build([kind |-> "ReadTable", session |-> s, scan |-> scan, source |-> source],
                Len(pos))

\* CachedTableNode: a table holding the results of frame n, scanned back
\* into n's own ids, with n kept as a non-child back reference
CacheFrame(n, o) ==
    LET fs == Fields(n)
        schema == [i \in DOMAIN fs |-> fs[i].dtype]
    IN /\ Session(n) \in Sessions
       /\ Replace({n}, [kind |-> "CachedTable", session |-> Session(n), original |-> n,
                 source |-> [table |-> "cached", ordering |-> o, schema |-> schema],
                 scan |-> [i \in DOMAIN fs |-> [id |-> fs[i].id, dtype |-> fs[i].dtype, src |-> i]]],
                0)

Unary(kind, n, extra, k) == Build([kind |-> kind, child |-> n] @@ extra, k)

PromoteOffsets(n) == Unary("PromoteOffsets", n, [col |-> nextId], 1)
Filter(n, c) == Unary("Filter", n, [pred |-> {c}], 0)
OrderBy(n, c) == Unary("OrderBy", n, [by |-> {c}], 0)
Reversed(n) == Unary("Reversed", n, [reversed |-> TRUE], 0)
RowCount(n) == Unary("RowCount", n, <<>>, 0)
ReprojectOp(n) == Unary("ReprojectOp", n, <<>>, 0)
RandomSample(n) == Unary("RandomSample", n, [fraction |-> "f"], 0)

\* SelectionNode over the columns at positions pos, renamed to fresh ids
\* or keeping their ids
Selection(n, cols, rename) ==
    LET pos == Positions(cols)
        fs == Fields(n)
        ids == FreshIds(Len(pos))
    IN Unary("Selection", n,
             [pairs |-> [i \in DOMAIN pos |->
                           [in |-> fs[pos[i]].id,
                            out |-> IF rename THEN ids[i] ELSE fs[pos[i]].id]]],
             IF rename THEN Len(pos) ELSE 0)

\* ProjectionNode with one assignment; out is a fresh id or (when clients
\* may do so) an existing one, which the append-only assertion is meant to
\* reject
Projection(n, c, op, out) ==
    LET assigns == <<[expr |-> [refs |-> {c}, op |-> op], out |-> out]>>
    IN /\ ProjectionValid(n, assigns)
       /\ Unary("Projection", n, [assigns |-> assigns], IF out = nextId THEN 1 ELSE 0)

\* AggregateNode: a count of column c grouped by the keys in by
Aggregate(n, c, by) ==
    Unary("Aggregate", n, [aggs |-> <<[col |-> c, out |-> nextId]>>, by |-> by,
                           dropna |-> TRUE], 1)

WindowOp(n, c, keys, skip) ==
    Unary("WindowOp", n, [col |-> c, keys |-> keys, out |-> nextId, skipReproject |-> skip], 1)

Explode(n, c) == Unary("Explode", n, [cols |-> {c}], 0)

\* JoinNode, rejected when the two sides share an id
Join(l, r, conds, type) ==
    /\ JoinIdsDisjoint(l, r)
    /\ Build([kind |-> "Join", left |-> l, right |-> r, conds |-> conds, type |-> type], 0)

\* ConcatNode, rejected unless every input has the same dtypes
Concat(ts) ==
    /\ ConcatInputsValid(ts)
    /\ Build([kind |-> "Concat", children |-> ts], 0)

FromRange(s, e) == Build([kind |-> "FromRange", start |-> s, end |-> e, step |-> 1], 0)

Init ==
    /\ frames = {}
    /\ last = NoFrame
    /\ nextId = 1
    /\ built = 0

Next ==
    /\ built < MaxNodes
    /\ \/ /\ Cardinality(frames) < MaxFrames
          /\ \E s \in Sessions \cup {NoSession} : ReadLocal(DOMAIN LocalSchema, s)
       \/ /\ Cardinality(frames) < MaxFrames
          /\ \E t \in DOMAIN Tables, columns \in TableColumns, cols \in ScanRequests,
                o \in SourceOrderings, s \in Sessions :
                ReadTable(t, columns, cols, o, s)
       \/ \E n \in frames, o \in {"none", "total"} : CacheFrame(n, o)
       \/ \E n \in frames :
             \/ PromoteOffsets(n) \/ Reversed(n) \/ RowCount(n)
             \/ ReprojectOp(n) \/ RandomSample(n)
             \/ \E cols \in SelectionChoices(n), rename \in BOOLEAN :
                   Selection(n, cols, rename)
             \/ \E c \in Ids(n) :
                   \/ Filter(n, c) \/ OrderBy(n, c)
                   \/ \E op \in {"deref", "add1"}, out \in (IF OverwriteIds THEN Ids(n) ELSE {}) \cup {nextId} :
                         Projection(n, c, op, out)
                   \/ \E by \in {<<>>} \cup {<<k>> : k \in Ids(n) \ {c}} : Aggregate(n, c, by)
                   \/ \E keys \in IF WindowKeys THEN {{}} \cup {{k} : k \in Ids(n)} ELSE {{}},
                         skip \in BOOLEAN : WindowOp(n, c, keys, skip)
                   \/ TypeOf(n, c) = "IntArr" /\ Explode(n, c)
       \/ \E l, r \in frames :
             \/ Join(l, r, <<>>, "cross")
             \/ \E cl \in Ids(l), cr \in Ids(r), type \in JoinTypes \ {"cross"} :
                   Join(l, r, <<<<cl, cr>>>>, type)
             \/ Concat(<<l, r>>)
             \/ FromRange(l, r)

Spec == Init /\ [][Next]_vars

(***************************************************************************)
(* Properties                                                              *)
(***************************************************************************)
AllKinds == LeafKinds \cup UnaryKinds \cup {"Join", "Concat", "FromRange"}

\* Every frame is a node of a known kind whose fields are typed columns and
\* whose session resolves to a session, None, or the combination error.
TypeOK ==
    /\ nextId \in 1..(MaxIds + 1)
    /\ \A n \in frames :
          /\ n.kind \in AllKinds
          /\ \A i \in DOMAIN Fields(n) : Fields(n)[i].dtype \in Dtypes
          /\ Session(n) \in Sessions \cup {NoSession, SessionError}

RECURSIVE Subtrees(_)
Subtrees(n) ==
    {n} \cup UNION {Subtrees(ChildNodes(n)[i]) : i \in DOMAIN ChildNodes(n)}

\* row_preserving: False for JoinNode, FilterNode, RowCountNode,
\* AggregateNode, RandomSampleNode and ExplodeNode; True by default
RowPreserving(n) ==
    n.kind \notin {"Join", "Filter", "RowCount", "Aggregate", "RandomSample", "Explode"}

\* deterministic: False only for RandomSampleNode
Deterministic(n) == n.kind # "RandomSample"

\* The nodes that decide which rows a tree produces (row_preserving is
\* False, or deterministic is False), in pre-order, with what they decide on.
RECURSIVE RowNodes(_)
RowNodes(n) ==
    LET on == CASE n.kind = "Filter" -> n.pred
                [] n.kind = "Aggregate" -> ToSet(n.by)
                [] n.kind = "Join" -> n.type
                [] OTHER -> {}
        here == IF RowPreserving(n) /\ Deterministic(n) THEN <<>>
                ELSE <<[kind |-> n.kind, on |-> on]>>
    IN FoldLeft(LAMBDA acc, c : acc \o RowNodes(c), here, ChildNodes(n))

\* Each column set a root can ask the pruner for, on the frame just built
\* (every frame is checked in the state that adds it)
PruneInputs == IF last = NoFrame THEN {} ELSE {<<last, used>> : used \in SUBSET Ids(last)}

\* prune(used) keeps every requested column, with its type, and adds none:
\* the pruned frame's fields are a subset of the original's fields.  This
\* is the per-node bookkeeping of which ids each override passes down.
PruneKeepsUsedColumns ==
    \A in \in PruneInputs :
        LET p == Prune(in[1], in[2])
        IN /\ in[2] \subseteq Ids(p)
           /\ ToSet(Fields(p)) \subseteq ToSet(Fields(in[1]))

\* The pruned tree still compiles: every column a node reads (predicate,
\* sort keys, selection inputs, assignments, group keys, window input and
\* window keys, exploded columns, join conditions) is produced by its child,
\* and every construction check still holds.
PrunedWellFormed ==
    \A in \in PruneInputs : WellFormed(Prune(in[1], in[2]))

\* Pruning does not change which rows come out or how they are ordered:
\* the row-deciding nodes, the order flags and the session of the root are
\* those of the unpruned tree.
PrunePreservesRows ==
    \A in \in PruneInputs :
        LET t == in[1]
            p == Prune(t, in[2])
        IN /\ RowNodes(p) = RowNodes(t)
           /\ OrderAmbiguous(p) = OrderAmbiguous(t)
           /\ ExplicitlyOrdered(p) = ExplicitlyOrdered(t)
           /\ Session(p) = Session(t)

\* Pruning is an optimisation of the planning_complexity heuristic the
\* session uses to decide when to cache: it never raises it.
PruneNeverRaisesComplexity ==
    \A in \in PruneInputs :
        PlanningComplexity(Prune(in[1], in[2])) <= PlanningComplexity(in[1])

\* Spec 8: prune(prune(T, U), U) = prune(T, U).
PruneIdempotent ==
    \A in \in PruneInputs :
        LET p == Prune(in[1], in[2]) IN Prune(p, in[2]) = p

\* JoinNode.prune's comment: a cross join keeps at least one column on each
\* side after pruning.
CrossJoinKeepsBothSides ==
    \A in \in PruneInputs :
        \A j \in Subtrees(Prune(in[1], in[2])) :
            j.kind = "Join" /\ j.type = "cross" =>
                Len(Fields(j.left)) > 0 /\ Len(Fields(j.right)) > 0

\* ProjectionNode's contract ("Assigns new variables (without modifying
\* existing ones)", and its append-only assertion): no frame the client
\* builds has two fields with the same ColumnId, so every reference resolves
\* to one column.
FieldIdsUnique ==
    last # NoFrame => IsInjective([i \in DOMAIN Fields(last) |-> Fields(last)[i].id])

=============================================================================
