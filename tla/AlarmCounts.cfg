\* Two devices and two alarm types below a tree of assets, under fairness;
\* acks may be lost.
SPECIFICATION FairSpec
CONSTANTS
    Replicas = {r1}
    Devices = {"dev1", "dev2"}
    Assets = {"site", "hall"}
    Contains <- TreeContains
    Tenants = {"acme"}
    Owner <- OwnedByAcme
    AlarmIds = {u1, u2, u3}
    Intents <- TreeIntents
    NoAlarm = NoAlarm
    FaultKinds = {"acklost"}
    MaxFaults = 1
    OperatorOps = {}
    MaxStream = 3
    MaxTime = 1
INVARIANTS SettledTablesAgree
PROPERTIES EveryIntentSettled
CHECK_DEADLOCK FALSE
