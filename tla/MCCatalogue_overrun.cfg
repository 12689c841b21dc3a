SPECIFICATION Spec
CONSTANTS
    r1 = r1
    r2 = r2
    d1 = d1
    NoHolder = NoHolder
    NoTarget = NoTarget
    Reconciler = {r1, r2}
    Doctor = {d1}
    Compiler = {}
    Holder = {r1, r2, d1}
    Client = {}
    Task = {}
    Session <- TaskSession
    Outcome = {}
    StaleAge = 1
    LeaseDuration = 2
    MaxSource = 2
    AllowOverrun = TRUE
SYMMETRY Interchangeable
INVARIANTS
    TypeOK
    ActiveComplete
PROPERTIES
    PublicationIsAtomic
CHECK_DEADLOCK FALSE
