CONSTANTS
    null = null
    Null <- null
    KeyValues <- MCKeyValues
    MaxRows = 3

SPECIFICATION Spec
INVARIANT TypeOK
INVARIANT NullSafeJoinMatchesPandas
\* a join is compiled and run once; the model stops after it
CHECK_DEADLOCK FALSE
