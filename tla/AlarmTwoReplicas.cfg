\* Two replicas, as during a rolling update or with replicas: 2.
SPECIFICATION Spec
CONSTANTS
    Replicas = {r1, r2}
    Devices = {"dev1"}
    Assets = {"site"}
    Contains <- ShelfContains
    Tenants = {"acme"}
    Owner <- OwnedByAcme
    AlarmIds = {u1, u2, u3}
    Intents <- LifecycleIntents
    NoAlarm = NoAlarm
    FaultKinds = {}
    MaxFaults = 0
    OperatorOps = {}
    MaxStream = 2
    MaxTime = 1
INVARIANTS OneActivePerType
SYMMETRY AlarmIdSymmetry
CHECK_DEADLOCK FALSE
