SPECIFICATION Spec
CONSTANTS
    r1 = r1
    r2 = r2
    d1 = d1
    k1 = k1
    t1 = t1
    NoHolder = NoHolder
    NoTarget = NoTarget
    Reconciler = {r1, r2}
    Doctor = {d1}
    Compiler = {k1}
    Holder = {r1, r2, d1, k1}
    Client = {}
    Task = {t1}
    Session <- TaskSession
    Outcome = {}
    StaleAge = 1
    LeaseDuration = 2
    MaxSource = 2
    AllowOverrun = FALSE
INVARIANTS
    OneWriter
PROPERTIES
    PublicationIsOrdered
    DoctorSparesTheLiving
    WritersProgress
CHECK_DEADLOCK FALSE
