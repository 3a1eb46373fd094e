\* A client that reads all it is sent asks for its notifications.
SPECIFICATION Spec
CONSTANTS
    Sessions = {c1}
    Pushers = {telemetry}
    Alarmers = {}
    Handler = Handler
    Query = Query
    ClientMoves = {}
    MaxCommands = 2
    MaxBroadcasts = 1
INVARIANTS OneWriterPerConnection
CHECK_DEADLOCK FALSE
