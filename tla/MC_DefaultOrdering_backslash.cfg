CONSTANTS
    null = null
    Null <- null
    Chars <- MCCharsWithBackslash
    Backslash <- MCBackslash
    Nullable = FALSE
    ColumnTypes <- MCColumnTypes
    IntValues = {0, 1}
    MaxLen = 2

SPECIFICATION Spec
INVARIANT DistinctRowsDistinctHashInputs
\* the ordering is generated once; the model stops after it
CHECK_DEADLOCK FALSE
