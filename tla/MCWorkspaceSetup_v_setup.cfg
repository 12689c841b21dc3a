SPECIFICATION SetupSpec
CONSTANTS
    Root = {"r1", "r2"}
    Name = {"n1", "n2"}
    Policy = {"a", "b"}
    Runner = {1, 2}
    Before <- MCBefore
    MaxCommands = 2
    MaxInterruptions = 1
INVARIANTS
    SetupResumes
CHECK_DEADLOCK FALSE
