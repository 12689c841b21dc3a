SPECIFICATION Spec
CONSTANTS
    h1 = h1
    h2 = h2
    NoFile = NoFile
    Paths = 3
    Hash = {h1, h2}
    MaxRevisions = 1
SYMMETRY AnyHash
PROPERTIES
    IndexMatchesDisk
    IdentityIsStable
    AbsenceIsRecorded
    OnlyAdmittedContent
