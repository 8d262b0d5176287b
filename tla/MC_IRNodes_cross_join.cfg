CONSTANTS
    s1 = s1
    s2 = s2
    noSession = noSession
    sessionError = sessionError
    countId = countId
    labelsId = labelsId
    col0 = col0
    col1 = col1
    col2 = col2
    col3 = col3
    col4 = col4
    noFrame = noFrame
    NoFrame <- noFrame
    Sessions <- MCSessions
    NoSession <- noSession
    SessionError <- sessionError
    CountName <- countId
    LabelsName <- labelsId
    ConcatNames <- MCConcatNames
    Tables <- MCTables
    ScanRequests <- MCScanRequests
    TableColumns <- MCTableColumns
    LocalSchema <- MCLocalSchema
    SourceOrderings <- MCSourceOrderings
    WindowKeys = FALSE
    OverwriteIds = FALSE
    MaxIds = 4
    MaxNodes = 4
    MaxFrames = 2

SPECIFICATION Spec
SYMMETRY SessionSymmetry
\* the client stops after MaxNodes constructor calls (a model bound)
CHECK_DEADLOCK FALSE
INVARIANT CrossJoinKeepsBothSides
