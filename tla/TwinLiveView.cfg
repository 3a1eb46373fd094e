\* A save and two samples beside a session that subscribes; every step of the
\* consumer and of the watch may fail.
SPECIFICATION MCSpec
CONSTANTS
    Savers = {s1}
    Posters = {}
    Samples = {1, 2}
    AttrKeys = {a1}
    TelKeys = {t1}
    Absent = Absent
    MaxPoints = 2
    MaxAttempts = 2
    MaxClock = 1
    MaxFaults = 1
    FaultKinds = {"getError", "sampleGetError", "sampleSetError", "redelivery"}
    Overlap = TRUE
    WatchFaults = {"watchCloses", "forget", "journalGap", "readError"}
    MaxPending = 1
INVARIANTS NothingMissed
PROPERTIES ViewConverges SavesAreShown
CHECK_DEADLOCK FALSE
