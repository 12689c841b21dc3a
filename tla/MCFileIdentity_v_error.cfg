SPECIFICATION Spec
CONSTANTS
    h1 = h1
    h2 = h2
    NoFile = NoFile
    Paths = 3
    Hash = {h1, h2}
    MaxRevisions = 0
SYMMETRY AnyHash
INVARIANTS
    CycleNeverErrs
