SPECIFICATION Spec
CONSTANTS
    File = {"lib", "tests"}
    Entity <- MCEntity
    Seeds <- MCSeeds
    Relations <- MCRelations
    Effects <- MCEffects
    Requests <- MCRequests
    Histories <- MCHistories
    MaxSources = 2
    Kept = 2
INVARIANTS
    EveryTaskIsAnswered
CHECK_DEADLOCK FALSE
