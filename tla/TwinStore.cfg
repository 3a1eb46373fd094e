\* Saves one after the other while telemetry requests race, with one fault; or the
\* consumer alone, redelivered to, its set failing: backfilled and equal timestamps.
SPECIFICATION MCSpec
CONSTANTS
    Savers = {s1, s2}
    Posters = {p1, p2}
    Samples = {1, 2, 3}
    AttrKeys = {a1, a2}
    TelKeys = {t1, t2}
    RestKeys = {t1}
    Absent = Absent
    MaxPoints = 2
    MaxAttempts = 3
    MaxClock = 2
    MaxFaults = 2
    MaxRestFaults = 1
    FaultKinds = {"pgAbort", "cancel", "getError", "putLost", "putUnacked", "crash", "sampleSetError", "redelivery"}
    Overlap = FALSE
INVARIANTS MergedIsKept ConflictNeedsOtherWrites StoresAgreeWhenIdle DrainedDocIsTheMerge UpdatedTsIsNewest
PROPERTIES ImplementsLww
SYMMETRY Symmetry
CHECK_DEADLOCK FALSE
