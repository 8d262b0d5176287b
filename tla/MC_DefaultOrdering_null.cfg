CONSTANTS
    null = null
    Null <- null
    Chars <- MCChars
    Backslash <- MCBackslash
    Nullable = TRUE
    ColumnTypes <- MCColumnTypes
    IntValues = {0, 1}
    MaxLen = 2

SPECIFICATION Spec
INVARIANT DistinctRowsDistinctHashInputs
\* the ordering is generated once; the model stops after it
CHECK_DEADLOCK FALSE
