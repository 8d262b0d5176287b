# TLA+ models of the bigframes IR core

These modules model the deferred-execution core of BigQuery DataFrames:

- the immutable `BigFrameNode` tree, in `src/bigframes/core/nodes.py`;
- column pruning;
- the join compiler, in `src/bigframes/core/compile/single_column.py`;
- the row-hash default ordering, in `src/bigframes/core/compile/default_ordering.py`.

Every run is listed in `PROJECT.json` with its module, its cfg and the properties it checks. Running `tlc -workers 2 -config X.cfg M` inside this directory reproduces it.

## The system and its parts

| Part | Source | State it keeps | Operations |
|---|---|---|---|
| IR node model | nodes.py | Immutable dataclass nodes. Children are fields. Derived properties are memoised. | One constructor per node kind, each guarded by its `__post_init__`. Derived properties: `fields`, `order_ambiguous`, `explicitly_ordered`, `session`, `variables_introduced`, `relation_ops_created`, `total_*`, `planning_complexity`. |
| Column pruning | nodes.py | None. It is a pure rewrite. | `prune(used_cols)`: a default on `BigFrameNode` and overrides on 12 node kinds. |
| Join key predicate | single_column.py | None | `value_to_join_key` on both key columns, then SQL equality. |
| Join compiler | single_column.py | The process-wide guid counter (`generate_guid`). | `join_by_column_ordered` and `join_by_column_unordered`. |
| Default ordering | default_ordering.py | The guid counter. | `_convert_to_nonnull_string` and `gen_default_ordering`. |

How the parts interact:

1. DataFrame operations construct nodes over the frames the client already holds.
2. Before compiling, the session prunes the tree to the columns the root needs.
3. The compiler lowers each `JoinNode` through `join_by_column_*`. Each join key goes through `value_to_join_key`.
4. A table without a total ordering gets `gen_default_ordering`.

The code is single-threaded and purely functional. The hard behaviours are not interleavings. They are the following:

- Long sequences of constructor calls that build trees no unit test builds. Pruning such a tree must keep every column any node below reads, the rows, the order flags and the session.
- The lazily raised session error.
- Renaming of both join sides into one namespace.
- Three-valued null semantics against pandas semantics.
- Whether the row fingerprint is injective.

## Modules

### `IRNodes.tla`: node model and pruning (nodes.py)

A node is a record. Its `kind` names the dataclass. Children are nested records, so TLA+ equality is the structural equality that `_as_tuple` gives, and it covers every field.

Every derived property is an operator named after the Python property:

- `Fields` (with one operator per `fields` override), `OrderAmbiguous`, `ExplicitlyOrdered` and `Session` are RECURSIVE.
- The metric operators are `VariablesIntroduced`, `RelationOpsCreated`, `TotalVariables`, `TotalRelationalOps`, `TotalJoins` and `PlanningComplexity`.

Each `prune` override is its own operator, from `PruneLeaf` to `PruneExplode`. `Prune` dispatches on the kind, as Python's method resolution does. Expressions are abstracted to the set of columns they reference and an output-type rule:

- `deref` passes the column's type through.
- `add1` needs an Int column.

This is what `ProjectionNode.__post_init__` checks and what `fields` computes.

The state is the set of frames the client holds (`frames`), the frame just built (`last`), the guid counter (`nextId`) and the number of constructor calls made (`built`). Each action is one node constructor applied to held frames:

- Leaves: `ReadLocal`, `ReadTable` and `CacheFrame`.
- Unary nodes: `PromoteOffsets`, `Filter`, `OrderBy`, `Reversed`, `RowCount`, `ReprojectOp`, `RandomSample`, `Selection`, `Projection`, `Aggregate`, `WindowOp` and `Explode`.
- Other nodes: `Join`, `Concat` and `FromRange`.

A constructor's guard is its `__post_init__` check:

- `ScanInSchema` for `ReadTableNode`.
- `JoinIdsDisjoint` ("Join ids collide") for `JoinNode`.
- `ConcatInputsValid` for `ConcatNode`.
- `ProjectionValid` (type checks and append-only) for `ProjectionNode`.

The append-only assertion at nodes.py:774 tests the assigned `ColumnId` against `child.schema.names`. Those names are the strings `i.id.name` (line 198). A `ColumnId` never equals a `str`, so the model tags both with their Python class (`AsColumnId`, `SchemaNames`), and the test never rejects anything, just as in the code. The constant `OverwriteIds` decides whether the client may assign a projection to an existing id. It is FALSE in the passing runs, where clients draw fresh ids as the DataFrame layer does. It is TRUE in `ir_projection_overwrite`.

The node flags `row_preserving`, `deterministic` and `joins` are the operators `RowPreserving`, `Deterministic` and `Joins`. `TotalJoins` counts `Joins`. `RowNodes` collects the nodes that are not row-preserving or not deterministic.

The new node replaces the frames it wraps, as a DataFrame method rebinds its result. `CacheFrame` replaces a frame with a `CachedTableNode` that scans the frame's own ids back. The frame is kept as `original`, a non-child field.

### `JoinKeys.tla`: the null-safe join predicate (single_column.py:79-90, 178-183)

`ValueToJoinKey` models `value_to_join_key`: a cast to string for non-string keys, then `fillna("$NULL_SENTINEL$")`. `SqlEquals` rejects NULL. `JoinRows` is the engine's join for every join type, given the key pairs `Matched` accepts, with NULL padding the unmatched side. The single action, `Join`, runs the compiled predicate on two key columns. `PandasMatched` is the reference: a null key matches a null key.

### `JoinCompile.tla`: renaming and ordering merge (single_column.py:31-175)

A compiled side is abstracted to three things:

- its visible column ids;
- its hidden ordering column ids;
- the ids its ordering sorts by.

`ValueMapping` is `dict(zip(ids, id_generator))`. It takes the number of names the shared generator has already produced. `HiddenMapping` draws fresh `hidden_` guids. `MergeMappings` is `{**value, **hidden}`. `JoinByColumnOrdered` and `JoinByColumnUnordered` are the two functions. Each produces the joined table's column names together with each column's origin, plus the output columns, hidden columns and ordering.

### `JoinSpec.tla`: what a join promises

`JoinSpec` is the abstract join. It has no names: a column is its origin `<<side, id>>`. `JoinOrdered` returns the left columns then the right columns, the hidden columns in the same way, and the preserved side's ordering first (the right side's for a right join, the left side's otherwise). `JoinUnordered` returns the columns and no ordering. Its `Spec` is weakly fair: a join that is asked for is produced.

`JoinCompile` instantiates it as `Abstract == INSTANCE JoinSpec WITH SideSet <- Sides, joined <- ...`. The refinement mapping reads each name the compiler returns through the joined table (`Resolve`), giving the origin of the column that name denotes. A name that denotes no column maps to `NoOrigin`, and one that denotes two maps to one of them, so a renaming clash shows as a mismatch. `JoinSpecRefinement == Abstract!Spec` is checked as a PROPERTY.

The following are outside `src/` and are modelled from their contract (marked `spec_modelled` in the map):

- `standard_identifiers`;
- `generate_guid`;
- `_to_ibis_expr(col_id_overrides)`;
- `ordering.join_orderings`.

### `DefaultOrdering.tla`: row fingerprint (default_ordering.py)

Strings are sequences of characters. `ConvertToNonnullString` models the following steps, in order:

1. the cast;
2. `fill_null("")`;
3. the backslash escaping;
4. the backslash prefix.

`FullRowStr` is the concatenation in column order. `GenDefaultOrdering(useDoubleHash)` gives each row the inputs of its hashes (`HashInputs`): `full_row_hash`, then, when `use_double_hash` is set, `full_row_hash_p2`. Both settings are explored. FARM_FINGERPRINT is left uninterpreted: rows can only get different hashes if their hash inputs differ, so the property is stated on the inputs.

## Build order and composition

The modules are built in this order: `IRNodes`, then `JoinKeys`, then `JoinCompile`, then `DefaultOrdering`. The three compiler modules are independent of each other. Each models one function of the lowering of a `JoinNode` or leaf that `IRNodes` builds.

Planned next steps:

- Compose `JoinCompile` with `JoinKeys`, so that a condition's column index resolves through the renamed table. This waits on a model of `_to_ibis_expr`'s column order, which is outside `src/`.
- An abstract "pruning preserves the query result" specification. `IRNodes` would implement it under the refinement mapping `Prune(t, used)` ↦ `t`, observed through the used columns.

## Runs

| Run | Expect | What it shows |
|---|---|---|
| `ir_prune_columns` | pass | Over every frame buildable in 4 constructor calls and every used set of its columns, prune keeps the used columns with their types and adds none (`PruneKeepsUsedColumns`). The pruned tree resolves every reference and passes every construction check (`PrunedWellFormed`). |
| `ir_prune_rows` | pass | Over the same frames and used sets, the row-deciding nodes, order flags and session are unchanged (`PrunePreservesRows`), and `planning_complexity` never rises (`PruneNeverRaisesComplexity`). |
| `ir_window_keys` | violation | With window specs over a grouping column, the pruned tree holds a window whose key column was dropped. |
| `ir_prune_idempotent` | violation | `prune(prune(T,U),U) ≠ prune(T,U)`: an unused window returns its child unpruned. |
| `ir_cross_join` | violation | A pruned cross join keeps no column of one side. |
| `ir_projection_overwrite` | violation | A projection assigned to an id the child already has is not rejected by the append-only assertion, and the frame holds two fields with one id (`FieldIdsUnique`). |
| `join_keys` | pass | For Int and Str keys with NULLs, every join type returns pandas' rows. |
| `join_keys_sentinel` | violation | A Str key `"$NULL_SENTINEL$"` matches a NULL key. |
| `join_compile` | pass | The output columns are the left side's columns followed by the right side's, and each denotes in the joined table exactly the column it came from (`OutputColumnsResolve`). The docstrings at single_column.py:48-51 and 141-144 promise the coalesced join keys first; the code, like spec 4.3 step 5, emits no coalesced keys, and that divergence is recorded as a finding on this run. Read through the joined table's names, the compiler implements `JoinSpec` (`JoinSpecRefinement`): columns, hidden columns, and the preserved side's ordering first. Under the fairness of a returning call, every pair of sides is joined. |
| `default_ordering` | pass | For values without backslashes or NULLs, different rows get different hash inputs. |
| `default_ordering_backslash` | violation | Two rows that differ in where a backslash sits collide. |
| `default_ordering_null` | violation | NULL and `""` collide. |

Every property of a passing run has a mutant in `PROJECT.json`: a plausible bug in the mapped code, such as a dropped predicate column, a restarted generator, or a missing fill. The run's own cfg finds each mutant.

## Bounds and why they are enough

**`MC_IRNodes`.**

- Two sessions, under symmetry.
- One BigQuery table with an Int column and an IntArr column. `ReadTable` first builds the table's physical schema with `FromTable` (`GbqTable.from_table`), given `columns` ∈ {{}, {1}}. An empty `columns` keeps every column; {1} keeps only column 1. The scan requests are {1,2} and {1,3}, so the `__post_init__` rejection is exercised both for a column missing from the table and for a column outside the subset. A scan that fits the subset would give a new kind of leaf, and would multiply the state space by 3.4 (544,971 states); this is left out to keep both prune runs within their time budget.
- A one-column local batch.
- Source orderings none and total.
- At most 4 ids, 4 constructor calls and 2 frames held at once.

With these bounds every pair of node kinds is stacked, and every binary node gets leaves of two sessions. A cache, a join, and a projection over an earlier frame all fit in one behaviour. Each of the two passing runs reaches 158,199 distinct states, in about 45 s and 100 s respectively. Every disjunct of `Next` fires.

Two choices keep the state space in reach:

- Selection choices are limited to all columns or all but one.
- Projections to an existing id are off in the passing runs. They are on in `ir_projection_overwrite`.
- Window keys are off in the passing run. They are on in `ir_window_keys`, which shows the window-key prune problem.

**`MC_JoinKeys`.** Keys are {0, 1} or {"0", ""}, plus NULL. Each side holds any subset of the two values and NULL (up to three keys), with all five join types. This covers null/null, null/value and value/value pairs on each side of an outer join.

**`MC_JoinCompile`.** Each side has up to 2 visible columns, drawn from three ids, and 1 hidden column (83,475 states, about 50 s with the temporal check). Sides of 3 columns reach 313,155 states, and the temporal check then takes over 2 minutes, too close to the time budget. The sides draw on the same ids, so a renaming mistake shows as a clash. Orderings have one key, with all join types.

**`MC_DefaultOrdering`.** Three columns (Str, Str, Int), strings of up to 2 characters, and Int values {0, 1}. Two columns are needed for a boundary collision, and the third covers the cast.

## Fairness

One fairness condition is assumed. `JoinCompile`'s `Spec` has `WF_vars(Next)`, and `JoinSpec`'s `Spec` has `WF_specVars(SpecNext)`. `join_by_column_ordered` and `join_by_column_unordered` are plain function calls that loop only over the two sides' columns, with no waits and no retries, so a call that can run returns. `JoinSpecRefinement` therefore checks liveness as well as safety: every pair of compiled sides is joined. The mutant `JoinByColumnOrderedHiddenless` guards the ordered path like the unordered one. It breaks only this liveness part, since sides with hidden columns then stutter forever.

The other modules assume no fairness. Their properties are invariants over bounded, terminating constructions. The client's constructor calls in `IRNodes` are not obliged to happen, so nothing there must eventually occur. The code has no scheduler, waits or retries, so there is no other liveness claim to make. `CHECK_DEADLOCK FALSE` is set because each model stops once its bound or its single compile step is reached.

## Not modelled, and why

- **Hash caching and races on `cached_property`.** The spec requires that recomputation be idempotent under a race. Every memoised property is a pure function of immutable fields, which the model's operators are by construction.
- **`CachedTableNode.original_node` taking part in `__eq__`/`__hash__`.** `_as_tuple` (nodes.py:98-100) covers every dataclass field, so the back-reference to the original subtree takes part in equality and hashing. Spec sections 3 and 9 say it must be excluded from equality, hashing and traversal. This is a divergence between spec and code. It is listed as a hazard at nodes.py:100 with no property, because nothing in `src/` builds a `CachedTableNode` and the model has no such node kind.
- **The random tiebreaker and FARM_FINGERPRINT collisions.** Spec section 4.4 documents the tiebreaker's instability across executions as an accepted limitation. Within one execution, the model leaves the hash uninterpreted and states its property on the hash inputs.
- **The expression subsystem.** The spec treats it as opaque: it supplies the referenced columns and an output type.
- **`GbqTable.from_table`'s metadata** (project, dataset, row count, clustering). `FromTable` models its schema subsetting. The vendored pandas/geopandas docstring stubs, the benchmarks and `owlbot.py`. These are I/O or documentation, with no state of the core.
- **`roots`, `transform_children`, `defines_namespace`/`defined_variables`, `row_count`, `supports_fast_head` and `non_local`.** These are derived queries or a structural map. Nothing in `src/` reads them, and no property here depends on them. `transform_children` is folded into each `prune` operator that calls it.
