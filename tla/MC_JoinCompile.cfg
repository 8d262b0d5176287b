CONSTANTS
    a = a
    b = b
    c = c
    h = h
    g = g
    noResult = noResult
    ColIds <- MCColIds
    HiddenIds <- MCHiddenIds
    MaxCols = 2
    NoResult <- noResult

SPECIFICATION Spec
INVARIANT TypeOK
INVARIANT OutputColumnsResolve
PROPERTY JoinSpecRefinement
\* a join is compiled once; the model stops after it
CHECK_DEADLOCK FALSE
