CONSTANTS
    null = null
    Null <- null
    KeyValues <- MCKeyValuesWithSentinel
    MaxRows = 3

SPECIFICATION Spec
INVARIANT NullSafeJoinMatchesPandas
\* a join is compiled and run once; the model stops after it
CHECK_DEADLOCK FALSE
