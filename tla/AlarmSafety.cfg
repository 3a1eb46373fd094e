\* One replica, every fault, beside the operators and the retention job.
SPECIFICATION Spec
CONSTANTS
    Replicas = {r1}
    Devices = {"dev1"}
    Assets = {"site"}
    Contains <- ShelfContains
    Tenants = {"acme"}
    Owner <- OwnedByAcme
    AlarmIds = {u1, u2}
    Intents <- ValidIntents
    NoAlarm = NoAlarm
    FaultKinds = {"dberror", "crash", "acklost", "keydict"}
    MaxFaults = 2
    OperatorOps = {"ack", "clear", "delete", "retention"}
    MaxStream = 2
    MaxTime = 2
INVARIANTS TypeOK OneActivePerType AckedIsMaterialized
PROPERTIES SeverityNeverDowngraded
SYMMETRY AlarmIdSymmetry
CHECK_DEADLOCK FALSE
