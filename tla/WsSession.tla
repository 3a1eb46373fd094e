----------------------------- MODULE WsSession -----------------------------
(***************************************************************************)
(* The locks, deadlines and goroutines around one flow-core replica's      *)
(* WebSocket connections (internal/ws/ws.go).                              *)
(*                                                                         *)
(* Per connection: the handler, which registers the session, reads         *)
(* commands and unregisters it; a goroutine per query, which writes its    *)
(* answer; and the pinger.  Per replica: broadcasters, which walk over all *)
(* registered sessions.  sessionManager is a Go RWMutex (a waiting Lock    *)
(* holds new RLocks back), session.mu a plain mutex.                       *)
(*                                                                         *)
(* The connection is gorilla/websocket's, from how the code uses it: one   *)
(* data writer at a time, WriteControl beside it; SetWriteDeadline holds   *)
(* for every later data write until it is set again; once a write failed   *)
(* every later one fails.  Ten seconds pass in Expire.                     *)
(***************************************************************************)
EXTENDS Naturals, FiniteSets

CONSTANTS
  Sessions,      \* connections
  Pushers,       \* goroutines that call BroadcastTelemetry or -Attributes
  Alarmers,      \* goroutines that call BroadcastAlarmEvent
  Handler,       \* the connection's handler, as a writer of it
  Query,         \* its query goroutine, as a writer of it
  ClientMoves,   \* what clients may do besides reading
  MaxCommands,   \* bound: commands of one session
  MaxBroadcasts  \* bound: broadcasts of one broadcaster

AllClientMoves == {"stall", "leave"}

Broadcasters == Pushers \cup Alarmers
Writers == Broadcasters \cup {Handler, Query}

ASSUME WsAssumption ==
  /\ MaxCommands \in Nat /\ MaxBroadcasts \in Nat
  /\ ClientMoves \subseteq AllClientMoves
  /\ Pushers \cap Alarmers = {}
  /\ Handler # Query /\ {Handler, Query} \cap Broadcasters = {}
  /\ "nobody" \notin Writers

VARIABLES
  sessions, \* sessionManager.sessions
  handler,  \* per session: where its handler is
  query,    \* where its query goroutine is
  pinger,   \* where its pinger is
  subs,     \* sessions subscribed to the entity that is pushed
  mu,       \* per session: who holds session.mu, or "nobody"
  writing,  \* per session: who is inside WriteJSON
  deadline, \* per session: write deadline, "none", "ahead" or "passed"
  broken,   \* sessions one of whose writes failed
  open,     \* sessions whose connection is not closed
  client,   \* per session: "reading", "stalled", "left" or "silent"
  bc,       \* per broadcaster: where it is, sessions left, session at hand
  alive,    \* FALSE once two writers met and gorilla panicked
  commands, broadcasts  \* how many so far

connVars == <<writing, deadline, broken, open>>
peerVars == <<client, alive>>
sessionVars == <<handler, query, pinger, subs, commands>>
managerVars == <<sessions, bc, broadcasts>>
vars == <<connVars, peerVars, sessionVars, managerVars, mu>>

NotWalking == [pc |-> "idle", todo |-> {}, at |-> {}]

Init ==
  /\ sessions = {} /\ subs = {} /\ open = {} /\ broken = {}
  /\ handler = [s \in Sessions |-> "none"]
  /\ query = [s \in Sessions |-> "none"]
  /\ pinger = [s \in Sessions |-> "off"]
  /\ mu = [s \in Sessions |-> "nobody"]
  /\ writing = [s \in Sessions |-> {}]
  /\ deadline = [s \in Sessions |-> "none"]
  /\ client = [s \in Sessions |-> "reading"]
  /\ bc = [b \in Broadcasters |-> NotWalking]
  /\ alive = TRUE
  /\ commands = [s \in Sessions |-> 0]
  /\ broadcasts = [b \in Broadcasters |-> 0]

------------------------------------------------------------------------------
(* Locks.                                                                  *)
Readers == {b \in Broadcasters : bc[b].pc # "idle"}
Reading(s) == handler[s] \in {"reading", "command", "answer"}
WaitingForLock == {s \in Sessions : handler[s] \in {"register", "unregister"}}

Acquire(x, s) == mu[s] = "nobody" /\ mu' = [mu EXCEPT ![s] = x]
Release(s) == mu' = [mu EXCEPT ![s] = "nobody"]

(* The connection.                                                         *)
Begin(x, s) == writing' = [writing EXCEPT ![s] = @ \cup {x}]
End(x, s) == writing' = [writing EXCEPT ![s] = @ \ {x}]

(* A write comes back with an error when the connection is closed or       *)
(* broken, its deadline passed or the peer is gone; the connection stays   *)
(* broken.  It succeeds while the client reads, and on a stalled client as *)
(* long as the socket buffer has room.                                     *)
CannotWrite(s) == s \notin open \/ s \in broken \/ deadline[s] = "passed" \/ client[s] = "left"

WriteFails(s) == CannotWrite(s) /\ broken' = broken \cup {s}
WriteWorks(s) == ~CannotWrite(s) /\ client[s] = "reading" /\ UNCHANGED broken
WriteFits(s) == ~CannotWrite(s) /\ client[s] \in {"stalled", "silent"} /\ UNCHANGED broken

(* Time: a write on a client that reads does not take ten seconds.         *)
Expire(s) ==
  /\ deadline[s] = "ahead"
  /\ writing[s] = {} \/ client[s] # "reading"
  /\ deadline' = [deadline EXCEPT ![s] = "passed"]
  /\ UNCHANGED <<writing, broken, open, peerVars, sessionVars, managerVars, mu>>

(* Two goroutines inside WriteJSON: gorilla may detect it and panic.       *)
Panic ==
  /\ \E s \in Sessions : Cardinality(writing[s]) > 1
  /\ alive' = FALSE
  /\ UNCHANGED <<client, connVars, sessionVars, managerVars, mu>>

------------------------------------------------------------------------------
(* The handler.                                                            *)
Connect(s) ==
  /\ handler[s] = "none"
  /\ handler' = [handler EXCEPT ![s] = "register"]
  /\ open' = open \cup {s}
  /\ UNCHANGED <<writing, deadline, broken, peerVars, query, pinger, subs, commands, managerVars, mu>>

Register(s) ==
  /\ handler[s] = "register" /\ Readers = {}
  /\ sessions' = sessions \cup {s}
  /\ handler' = [handler EXCEPT ![s] = "reading"]
  /\ pinger' = [pinger EXCEPT ![s] = "waiting"]
  /\ UNCHANGED <<connVars, peerVars, query, subs, commands, bc, broadcasts, mu>>

(* A message is read; its handling starts under session.mu (Authenticated) *)
(* and goes on by the kind of command.                                     *)
ReadCommand(s) ==
  /\ handler[s] = "reading" /\ s \in open
  /\ client[s] \in {"reading", "stalled"}
  /\ commands[s] < MaxCommands
  /\ commands' = [commands EXCEPT ![s] = @ + 1]
  /\ handler' = [handler EXCEPT ![s] = "command"]
  /\ UNCHANGED <<connVars, peerVars, query, pinger, subs, managerVars, mu>>

Handle(s, next) ==
  /\ handler[s] = "command" /\ mu[s] = "nobody"
  /\ handler' = [handler EXCEPT ![s] = next]
  /\ UNCHANGED <<deadline, broken, open, peerVars, pinger, commands, managerVars, mu>>

(* Registered under session.mu.                                            *)
SubscribeCommand(s) ==
  /\ Handle(s, "reading")
  /\ subs' = subs \cup {s}
  /\ UNCHANGED <<writing, query>>

(* ENTITY_DATA, ALARM_DATA, ENTITY_COUNT, initial payloads: go handle...   *)
QueryCommand(s) ==
  /\ Handle(s, "reading")
  /\ query[s] = "none" /\ query' = [query EXCEPT ![s] = "lock"]
  /\ UNCHANGED <<writing, subs>>

(* NOTIFICATIONS, NOTIFICATIONS_COUNT: answered by the handler itself.     *)
NotificationsCommand(s) ==
  /\ Handle(s, "answer")
  /\ Begin(Handler, s)
  /\ UNCHANGED <<query, subs>>

Answered(s) ==
  /\ handler[s] = "answer"
  /\ handler' = [handler EXCEPT ![s] = "reading"]
  /\ End(Handler, s)
  /\ UNCHANGED <<deadline, open, peerVars, query, pinger, subs, commands, managerVars, mu>>

AnswerReturns(s) == Answered(s) /\ (WriteWorks(s) \/ WriteFails(s))
AnswerFits(s) == Answered(s) /\ WriteFits(s)

(* ReadMessage fails: the connection is closed, the client left, or it     *)
(* did not answer pings for ninety seconds.  close(done), then Lock.       *)
CannotRead(s) == s \notin open \/ client[s] # "reading"

ReadFails(s) ==
  /\ handler[s] = "reading" /\ CannotRead(s)
  /\ handler' = [handler EXCEPT ![s] = "unregister"]
  /\ UNCHANGED <<connVars, peerVars, query, pinger, subs, commands, managerVars, mu>>

UnregisterAtOnce(s) == TRUE                                       \* mutant
UnregisterWhen(s) == Readers = {}

Unregister(s) ==
  /\ handler[s] = "unregister" /\ UnregisterWhen(s)
  /\ sessions' = sessions \ {s}
  /\ open' = open \ {s}
  /\ handler' = [handler EXCEPT ![s] = "ended"]
  /\ UNCHANGED <<writing, deadline, broken, peerVars, query, pinger, subs, commands, bc, broadcasts, mu>>

------------------------------------------------------------------------------
(* A query goroutine: the answer is written under session.mu.              *)
QueryNeedsNoLock(s) == TRUE /\ UNCHANGED mu                       \* mutant
QueryLocks(s) == Acquire(Query, s)

QueryWrite(s) ==
  /\ query[s] = "lock" /\ QueryLocks(s)
  /\ query' = [query EXCEPT ![s] = "write"]
  /\ Begin(Query, s)
  /\ UNCHANGED <<deadline, broken, open, peerVars, handler, pinger, subs, commands, managerVars>>

QueryDone(s) ==
  /\ query[s] = "write"
  /\ query' = [query EXCEPT ![s] = "none"]
  /\ End(Query, s) /\ Release(s)
  /\ UNCHANGED <<deadline, open, peerVars, handler, pinger, subs, commands, managerVars>>

QueryReturns(s) == QueryDone(s) /\ (WriteWorks(s) \/ WriteFails(s))
QueryFits(s) == QueryDone(s) /\ WriteFits(s)

------------------------------------------------------------------------------
(* The pinger: WriteControl waits ten seconds for a write in progress.     *)
Ping(s, next) == pinger' = [pinger EXCEPT ![s] = next]

PingTick(s) ==
  /\ pinger[s] = "waiting" /\ Reading(s)
  /\ Ping(s, "ping")
  /\ UNCHANGED <<connVars, peerVars, handler, query, subs, commands, managerVars, mu>>

Unpingable(s) ==
  \/ s \notin open \ broken \/ client[s] = "left"
  \/ client[s] # "reading" /\ writing[s] # {}

PingWorks(s) ==
  /\ pinger[s] = "ping"
  /\ ~Unpingable(s)
  /\ Ping(s, "waiting")
  /\ UNCHANGED <<connVars, peerVars, handler, query, subs, commands, managerVars, mu>>

PingErrs(s) ==
  /\ pinger[s] = "ping"
  /\ Ping(s, "off")
  /\ open' = open \ {s}
  /\ UNCHANGED <<writing, deadline, broken, peerVars, handler, query, subs, commands, managerVars, mu>>

PingFails(s) == Unpingable(s) /\ PingErrs(s)

(* The socket buffer of a client that does not read may be full.           *)
PingBlocks(s) == client[s] \in {"stalled", "silent"} /\ PingErrs(s)

PingStops(s) ==
  /\ pinger[s] = "waiting" /\ handler[s] \in {"unregister", "ended"}
  /\ Ping(s, "off")
  /\ UNCHANGED <<connVars, peerVars, handler, query, subs, commands, managerVars, mu>>

------------------------------------------------------------------------------
(* A broadcast.                                                            *)
Walk(b, pc, todo, at) == bc' = [bc EXCEPT ![b] = [pc |-> pc, todo |-> todo, at |-> at]]

StartBroadcast(b) ==
  /\ bc[b].pc = "idle" /\ broadcasts[b] < MaxBroadcasts
  /\ WaitingForLock = {}
  /\ Walk(b, "walk", sessions, {})
  /\ broadcasts' = [broadcasts EXCEPT ![b] = @ + 1]
  /\ UNCHANGED <<connVars, peerVars, sessionVars, sessions, mu>>

NextSession(b, s) ==
  /\ bc[b].pc = "walk" /\ s \in bc[b].todo
  /\ Acquire(b, s)
  /\ Walk(b, "locked", bc[b].todo \ {s}, {s})
  /\ UNCHANGED <<connVars, peerVars, sessionVars, sessions, broadcasts>>

SkipSession(b, s) ==
  /\ bc[b].pc = "locked" /\ s \in bc[b].at \ subs
  /\ Release(s)
  /\ Walk(b, "walk", bc[b].todo, {})
  /\ UNCHANGED <<connVars, peerVars, sessionVars, sessions, broadcasts>>

(* SetWriteDeadline(now + 10 s) before every push, but not before an alarm *)
(* event.                                                                  *)
DeadlineForNone(b, s) == deadline' = deadline                     \* mutant
DeadlineFor(b, s) ==
  deadline' = IF b \in Pushers THEN [deadline EXCEPT ![s] = "ahead"] ELSE deadline

PushWrite(b, s) ==
  /\ bc[b].pc = "locked" /\ s \in bc[b].at \cap subs
  /\ DeadlineFor(b, s)
  /\ Begin(b, s)
  /\ Walk(b, "write", bc[b].todo, {s})
  /\ UNCHANGED <<broken, open, peerVars, sessionVars, sessions, broadcasts, mu>>

PushDone(b, s) ==
  /\ bc[b].pc = "write" /\ s \in bc[b].at
  /\ End(b, s) /\ Release(s)
  /\ Walk(b, "walk", bc[b].todo, {})
  /\ UNCHANGED <<deadline, open, peerVars, sessionVars, sessions, broadcasts>>

PushReturns(b, s) == PushDone(b, s) /\ (WriteWorks(s) \/ WriteFails(s))
PushFits(b, s) == PushDone(b, s) /\ WriteFits(s)

EndBroadcast(b) ==
  /\ bc[b].pc = "walk" /\ bc[b].todo = {}
  /\ Walk(b, "idle", {}, {})
  /\ UNCHANGED <<connVars, peerVars, sessionVars, sessions, broadcasts, mu>>

------------------------------------------------------------------------------
(* Clients: one that stalls keeps the connection but reads no more; one    *)
(* that leaves resets it, or, when it stalled before, only ends its side.  *)
Stall(s) ==
  /\ "stall" \in ClientMoves /\ client[s] = "reading" /\ s \in open
  /\ client' = [client EXCEPT ![s] = "stalled"]
  /\ UNCHANGED <<alive, connVars, sessionVars, managerVars, mu>>

Leave(s) ==
  /\ "leave" \in ClientMoves /\ client[s] \in {"reading", "stalled"} /\ s \in open
  /\ client' = [client EXCEPT ![s] = IF @ = "reading" THEN "left" ELSE "silent"]
  /\ UNCHANGED <<alive, connVars, sessionVars, managerVars, mu>>

Commands(s) == SubscribeCommand(s) \/ QueryCommand(s) \/ NotificationsCommand(s)

SessionStep(s) ==
  Register(s) \/ Commands(s) \/ AnswerReturns(s) \/ ReadFails(s) \/ Unregister(s)

PingStep(s) ==
  PingTick(s) \/ PingWorks(s) \/ PingFails(s) \/ PingBlocks(s) \/ PingStops(s)

QueryStep(s) == QueryWrite(s) \/ QueryReturns(s)

WalkStep(b) ==
  \/ \E s \in Sessions : NextSession(b, s) \/ SkipSession(b, s) \/ PushWrite(b, s) \/ PushReturns(b, s)
  \/ EndBroadcast(b)

Request(s) == Connect(s) \/ ReadCommand(s)

Next ==
  /\ alive
  /\ \/ \E s \in Sessions :
          \/ Request(s) \/ SessionStep(s) \/ QueryStep(s) \/ PingStep(s)
          \/ Expire(s) \/ AnswerFits(s) \/ QueryFits(s) \/ Stall(s) \/ Leave(s)
     \/ \E b \in Broadcasters :
          \/ StartBroadcast(b) \/ WalkStep(b)
          \/ \E s \in Sessions : PushFits(b, s)
     \/ Panic

Spec == Init /\ [][Next]_vars

(* Goroutines run, time passes, and Go's mutexes do not starve: one that   *)
(* is free again and again is acquired.  A stalled client never has to     *)
(* make room, and nobody has to connect, send or broadcast.                *)
Fairness ==
  /\ \A s \in Sessions :
       /\ SF_vars(alive /\ SessionStep(s)) /\ SF_vars(alive /\ QueryStep(s))
       /\ WF_vars(alive /\ Expire(s))
       /\ WF_vars(alive /\ PingTick(s)) /\ SF_vars(alive /\ PingFails(s))
  /\ \A b \in Broadcasters : SF_vars(alive /\ WalkStep(b))

FairSpec == Spec /\ Fairness

------------------------------------------------------------------------------
(* Type invariant; a query goroutine that writes owns the session's lock.  *)
TypeOK ==
  /\ sessions \subseteq Sessions /\ subs \subseteq Sessions
  /\ open \subseteq Sessions /\ broken \subseteq Sessions
  /\ handler \in [Sessions -> {"none", "register", "reading", "command", "answer",
                           "unregister", "ended"}]
  /\ query \in [Sessions -> {"none", "lock", "write"}]
  /\ pinger \in [Sessions -> {"off", "waiting", "ping"}]
  /\ mu \in [Sessions -> Broadcasters \cup {Query, "nobody"}]
  /\ \A s \in Sessions : query[s] = "write" <=> mu[s] = Query
  /\ writing \in [Sessions -> SUBSET Writers]
  /\ deadline \in [Sessions -> {"none", "ahead", "passed"}]
  /\ client \in [Sessions -> {"reading", "stalled", "left", "silent"}]
  /\ bc \in [Broadcasters -> [pc : {"idle", "walk", "locked", "write"},
                              todo : SUBSET Sessions, at : SUBSET Sessions]]
  /\ alive \in BOOLEAN
  /\ commands \in [Sessions -> 0 .. MaxCommands]
  /\ broadcasts \in [Broadcasters -> 0 .. MaxBroadcasts]

(* Among the goroutines that take session.mu, at most one is inside        *)
(* WriteJSON of a connection, also across its close and its removal.       *)
LockedWritersAreExclusive ==
  \A s \in Sessions : Cardinality(writing[s] \ {Handler}) <= 1

(* A broadcaster holds on to registered sessions only: a session is not    *)
(* removed, nor its map entry freed, under a broadcast that will reach it. *)
BroadcastsReachRegistered ==
  \A b \in Broadcasters : bc[b].todo \cup bc[b].at \subseteq sessions

(* A push to a client that stopped reading gives up after its deadline, so *)
(* no broadcast holds the read lock for ever; the one exception is another *)
(* write, of an alarm event or an answer, on a connection that never had a *)
(* deadline (ws.go "Deadline before EVERY data write").                    *)
Unbounded ==
  \E s \in Sessions :
    writing[s] \ Pushers # {} /\ deadline[s] = "none" /\ client[s] # "reading"

BroadcastsEnd ==
  \A b \in Broadcasters :
    bc[b].pc # "idle" ~> (bc[b].pc = "idle" \/ ~alive \/ Unbounded)

(* A session whose client is gone is unregistered and closed, whatever it  *)
(* was being sent ("is reaped after at most wsPongWait").                  *)
DeadSessionsAreReaped ==
  \A s \in Sessions :
    (s \in sessions /\ client[s] # "reading") ~> (s \notin sessions \/ ~alive \/ Unbounded)

(* A client that is gone or does not read holds up nothing for ever.       *)
NobodyIsHeldUp == BroadcastsEnd /\ DeadSessionsAreReaped

(* Data writes of a connection never overlap: gorilla supports one writer, *)
(* and the pinger relies on WriteControl being "the one write method" that *)
(* may run beside it.                                                      *)
OneWriterPerConnection == \A s \in Sessions : Cardinality(writing[s]) <= 1
=============================================================================
