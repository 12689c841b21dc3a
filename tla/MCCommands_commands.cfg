SPECIFICATION CommandsSpec
CONSTANTS
    Session = {1, 2}
    Process = {1}
    PageLimit = 1
    StructuredAge = 0
    SummaryAge = 0
    MaxTerminal = 1
    MaxExpired = 2
    LastDay = 1
    MaxRow = 2
    MaxMetrics = 1
    Entity <- MCEntity
    KeyOrder <- MCKeyOrder
    Rows <- MCRows
    PathKeys <- MCPathKeys
    Facts <- MCFacts
    Request <- MCRequest
    Compiled <- MCCompiled
    Path <- MCPath
    Symbol <- MCSymbol
    Text = {1, 2}
    FirstText = 1
    IndexRows <- TwoGenerations
    RunRequests <- SmallRequests
    MaxQueryTargets = 2
    MaxDeepTargets = 1
    Root = {"r1", "r2"}
    Name = {"n1", "n2"}
    Policy = {"a"}
    Runner = {1, 2}
    Before <- LeftBefore
    MaxCommands = 2
    MaxInterruptions = 1
CONSTRAINT MCRecords
INVARIANTS
    ContextsAreHonest
    PagesAreWhole
    SetupAgrees
    LightIsTruthful
    RefusedOnlyBelowCeiling
    EscalationIsEarned
PROPERTIES
    CompactionIsConfirmed
    SessionHasItsContext
    GovernorRunEnds
CHECK_DEADLOCK FALSE
