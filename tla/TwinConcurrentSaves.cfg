\* Two saves of one attribute overlap, nothing fails.
SPECIFICATION MCSpec
CONSTANTS
    Savers = {s1, s2}
    Posters = {}
    Samples = {}
    AttrKeys = {a1}
    TelKeys = {t1}
    RestKeys = {t1}
    Absent = Absent
    MaxPoints = 1
    MaxAttempts = 2
    MaxClock = 2
    MaxFaults = 0
    MaxRestFaults = 0
    FaultKinds = {}
    Overlap = TRUE
INVARIANTS StoresAgreeWhenIdle
CHECK_DEADLOCK FALSE
