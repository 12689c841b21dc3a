INIT RecordsInit
NEXT RecordsNext
CONSTANTS
    Session = {1, 2}
    Process = {1}
    PageLimit = 1
    StructuredAge = 0
    SummaryAge = 0
    MaxTerminal = 1
    MaxExpired = 2
    LastDay = 1
    MaxRow = 2
    MaxMetrics = 1
    Entity <- MCEntity
    KeyOrder <- MCKeyOrder
    Rows <- MCRows
    PathKeys <- MCPathKeys
    Facts <- MCFacts
    Request <- MCRequest
    Compiled <- MCCompiled
CONSTRAINT MCRecords
INVARIANTS
    OneHashPerRequest
CHECK_DEADLOCK FALSE
