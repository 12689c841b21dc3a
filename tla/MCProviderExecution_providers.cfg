SPECIFICATION Spec
CONSTANTS
    scip = scip
    a = a
    Provider = {scip}
    Required = {scip}
    Doc = {a}
    Content = {1, 2}
    FirstText = 1
    Plans <- TwoScopes
    MaxEdits = 1
    MaxCycles = 2
INVARIANTS
    CoverageIsHonest
    FactsMatchTheirRevision
    RequiredIsPresent
PROPERTIES
    CycleEnds
CHECK_DEADLOCK FALSE
