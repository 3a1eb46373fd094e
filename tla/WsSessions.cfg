\* One connection, two broadcasters, a client that stalls or leaves at any point.
SPECIFICATION FairSpec
CONSTANTS
    Sessions = {c1}
    Pushers = {telemetry}
    Alarmers = {alarms}
    Handler = Handler
    Query = Query
    ClientMoves = {"stall", "leave"}
    MaxCommands = 2
    MaxBroadcasts = 2
INVARIANTS TypeOK LockedWritersAreExclusive BroadcastsReachRegistered
PROPERTIES NobodyIsHeldUp
CHECK_DEADLOCK FALSE
