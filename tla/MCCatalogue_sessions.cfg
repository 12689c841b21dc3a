SPECIFICATION Spec
CONSTANTS
    r1 = r1
    r2 = r2
    r3 = r3
    c1 = c1
    c2 = c2
    t1 = t1
    accepted = accepted
    rejected = rejected
    NoHolder = NoHolder
    NoTarget = NoTarget
    Reconciler = {r1, r2, r3}
    Doctor = {}
    Compiler = {}
    Holder = {r1, r2, r3}
    Client = {c1, c2}
    Task = {t1}
    Session <- TaskSession
    Outcome = {accepted, rejected}
    StaleAge = 1
    LeaseDuration = 2
    MaxSource = 1
    AllowOverrun = FALSE
SYMMETRY Interchangeable
INVARIANTS
    SessionAnchored
PROPERTIES
    CommitReconciles
    TerminalIsFinal
CHECK_DEADLOCK FALSE
