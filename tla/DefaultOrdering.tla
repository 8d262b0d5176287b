--------------------------- MODULE DefaultOrdering --------------------------
(***************************************************************************)
(* bigframes/core/compile/default_ordering.py: the ordering a table        *)
(* without a total ordering gets.  Every column is converted to a non-null *)
(* string, backslashes are escaped, each string is prefixed with a         *)
(* backslash, the strings are concatenated and the result is hashed twice  *)
(* (the second time with "_" appended); a random value breaks ties.        *)
(*                                                                         *)
(* A string is a sequence of characters.  FARM_FINGERPRINT is not modelled: *)
(* two rows can only get different hashes if they get different hash      *)
(* inputs, so the properties are stated on the hash inputs.                *)
(***************************************************************************)
EXTENDS Integers, Sequences, SequencesExt, FiniteSets, TLC

CONSTANTS
    Chars,        \* the characters a string value may hold
    Backslash,    \* the character "\\"
    Null,         \* SQL NULL
    Nullable,     \* whether the columns hold NULLs
    ColumnTypes,  \* the dtype of each column of the table, "Str" or "Int"
    IntValues,    \* the values an integer column may hold, single digits
    MaxLen        \* bound on the length of a string value

ASSUME IntValues \subseteq 0..9 /\ Nullable \in BOOLEAN

\* a value of each dtype, with NULL when the column is nullable
Values(dtype) ==
    (IF dtype = "Str" THEN BoundedSeq(Chars, MaxLen) ELSE IntValues)
    \cup (IF Nullable THEN {Null} ELSE {})

\* the rows of a table whose columns have the given dtypes
RECURSIVE RowsOf(_)
RowsOf(types) ==
    IF types = <<>> THEN {<<>>}
    ELSE {<<v>> \o r : v \in Values(Head(types)), r \in RowsOf(Tail(types))}

Rows == RowsOf(ColumnTypes)

\* column.cast(String): a digit becomes its one-character string; NULL stays
CastToString(v) == IF v = Null THEN Null ELSE <<ToString(v)>>

\* .replace("\\", "\\\\"): every backslash doubled
EscapeBackslashes(s) ==
    FoldLeft(LAMBDA acc, c : acc \o (IF c = Backslash THEN <<c, c>> ELSE <<c>>), <<>>, s)

\* mutant: the column strings concatenated without a delimiter
ConvertToNonnullStringUndelimited(v, dtype) ==
    LET result == IF dtype = "Str" THEN v ELSE CastToString(v)
    IN EscapeBackslashes(IF result = Null THEN <<>> ELSE result)

\* _convert_to_nonnull_string: cast, fill_null(""), escape, prefix "\\"
ConvertToNonnullString(v, dtype) ==
    LET result == IF dtype = "Str" THEN v ELSE CastToString(v)
        escaped == EscapeBackslashes(IF result = Null THEN <<>> ELSE result)
    IN <<Backslash>> \o escaped

\* full_row_str: the converted columns concatenated in table order
FullRowStr(row) ==
    FoldLeft(LAMBDA acc, i : acc \o ConvertToNonnullString(row[i], ColumnTypes[i]),
             <<>>, [i \in 1..Len(ColumnTypes) |-> i])

(***************************************************************************)
(* Two rows of one table get their default ordering keys                   *)
(***************************************************************************)
VARIABLES
    rowA, rowB,   \* two rows of the table
    keys          \* row -> the hash inputs of its ordering keys, once generated
vars == <<rowA, rowB, keys>>

Init ==
    /\ rowA \in Rows
    /\ rowB \in Rows
    /\ keys = <<>>

\* the hash inputs of a row's order values: full_row_hash, then
\* full_row_hash_p2 when use_double_hash
HashInputs(row, useDoubleHash) ==
    IF useDoubleHash THEN <<FullRowStr(row), FullRowStr(row) \o <<"_">>>>
    ELSE <<FullRowStr(row)>>

\* gen_default_ordering(table, use_double_hash) applied to the table: every
\* row gets the hash inputs of its order values
GenDefaultOrdering(useDoubleHash) ==
    /\ keys = <<>>
    /\ keys' = [r \in {rowA, rowB} |-> HashInputs(r, useDoubleHash)]
    /\ UNCHANGED <<rowA, rowB>>

Next == \E useDoubleHash \in BOOLEAN : GenDefaultOrdering(useDoubleHash)

Spec == Init /\ [][Next]_vars

(***************************************************************************)
(* Properties                                                              *)
(***************************************************************************)
\* Rows that differ in any column get different inputs to the row hash, so
\* identical hashes are left for identical rows, which the random part
\* separates: the delimiter and escaping in _convert_to_nonnull_string make
\* the concatenation of the columns injective.
DistinctRowsDistinctHashInputs ==
    keys # <<>> /\ rowA # rowB => keys[rowA][1] # keys[rowB][1]

=============================================================================
