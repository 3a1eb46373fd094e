----------------------------- MODULE WsCommands -----------------------------
(***************************************************************************)
(* What a WebSocket session may ask for and what it is sent (ws.go,        *)
(* journal.go): the token it shows, the commands that subscribe to         *)
(* telemetry, alarms, attributes and entity data, and the events that the  *)
(* broadcasters fan out by entity id alone.  "A registered subscription is *)
(* therefore a standing grant", and who may have one is decided before it  *)
(* is registered, outside the lock and, for queries, by goroutines that    *)
(* run beside the handler of later messages.                               *)
(*                                                                         *)
(* One session; its locks and its connection are those of WsSession.  An   *)
(* entity belongs to one tenant until it is deleted.                       *)
(***************************************************************************)
EXTENDS Naturals, Sequences, FiniteSets, Functions

CONSTANTS
  WsEntities,
  WsKind,         \* the type of each entity
  WsOwner,        \* the tenant of each entity
  WsEdges,        \* relations, of any tenants
  WalkLevels,     \* the maxLevel of a walk
  OwnedTables,    \* types that tenantOwnedTable knows
  WsMessages,       \* what the client sends: [auth, subs, queries, counts]
  WsEvents,         \* what the journal delivers: [type, entity, scope, keys]
  MaxWsMessages,  \* bound
  MaxTasks,       \* bound: goroutines at work when a message is read
  ShortLived,     \* entities that may be deleted
  Unset           \* no entity, tenant, token or scope

CmdIds == {q.cmd : q \in UNION {Range(m.queries) : m \in WsMessages}}
Tokens == {m.auth : m \in WsMessages} \ {Unset}

\* Messages as they are parsed; an entity belongs to a tenant, and "A TENANT
\* entity owns itself".
ASSUME WsInputAssumption ==
  /\ WalkLevels \in Nat /\ Unset \notin WsEntities
  /\ \A e \in WsEntities :
       WsOwner[e] # Unset /\ (\A a \in Tokens : e = a.tenant => WsOwner[e] = e)
  /\ \A a \in Tokens : a.valid \in BOOLEAN /\ a.admin \in BOOLEAN
  /\ \A m \in WsMessages :
       /\ m.subs \in Seq(Range(m.subs)) /\ m.queries \in Seq(Range(m.queries)) /\ m.counts \in Seq(Range(m.counts))
       /\ \A c \in Range(m.subs) :
            /\ c.op = "sub" /\ c.channel \in {"telemetry", "alarms", "attributes"} /\ c.unsubscribe \in BOOLEAN
            /\ c.entity \in WsEntities \cup {Unset}
       /\ \A q \in Range(m.queries) \cup Range(m.counts) :
            /\ q.op = "query" /\ q.query \in {"entity", "list", "relations", "usage"}
            /\ q.entity \in WsEntities \cup {Unset} /\ (q.query = "usage" => q.entity = Unset)
       /\ \A q \in Range(m.counts) : q.query \in {"list", "relations"}

VARIABLES
  socket,         \* the session and its read loop: [pc, cmds, authenticated, tenant, admin];
                  \* cmds are the subscriptions at hand by their place in the message
  attached,       \* Subs, AlarmSubs and AttrSubs: the commands that subscribed
  entityCmdMap,   \* cmdId -> [entity, keys, attrKeys], or Unset
  tasks,        \* goroutines of queries and of initial payloads
  wsRows,           \* entities whose row exists
  messagesRead,   \* messages read so far (history)
  answeredWith        \* entities in the answer written last (history)

wsVars == <<socket, attached, entityCmdMap, tasks, wsRows, messagesRead, answeredWith>>


-----------------------------------------------------------------------------
(* Who may read what.                                                      *)

sessionScope == [tenant |-> socket.tenant, admin |-> socket.admin]

entityBelongsToTenant(type, e, tenant) ==
  \/ type = "TENANT" /\ e = tenant
  \/ type \in OwnedTables /\ e \in wsRows /\ WsKind[e] = type /\ WsOwner[e] = tenant

allows(scope, type, e) ==
  scope.tenant # Unset /\ e # Unset /\ (scope.admin \/ entityBelongsToTenant(type, e, scope.tenant))

\* A read whose statement names the tenant and the table.
Visible(scope, type) == {e \in wsRows : scope.tenant # Unset /\ WsKind[e] = type /\ WsOwner[e] = scope.tenant}

-----------------------------------------------------------------------------
(* The read loop.                                                          *)

Close == socket' = [socket EXCEPT !.pc = "closed"]

\* A token is the only way in, and a message may carry one beside its commands.
\* Each query of the message starts a goroutine, which answers all of them.
Receive(m) ==
  /\ socket.pc = "read" /\ m \notin messagesRead /\ Cardinality(messagesRead) < MaxWsMessages /\ Cardinality(tasks) <= MaxTasks
  /\ messagesRead' = messagesRead \cup {m}
  /\ IF IF m.auth = Unset THEN ~socket.authenticated ELSE ~m.auth.valid
     THEN Close /\ UNCHANGED tasks
     ELSE /\ socket' = [socket EXCEPT
               !.authenticated = TRUE, !.pc = "filter", !.cmds = m.subs,
               !.tenant = IF m.auth # Unset /\ m.auth.tenant # Unset THEN m.auth.tenant ELSE @,
               !.admin = @ \/ (m.auth # Unset /\ m.auth.admin)]
          /\ tasks' = tasks
               \cup {[id |-> <<Cardinality(messagesRead), "query", i>>, pc |-> "start", scope |-> Unset, target |-> Unset,
                      todo |-> m.queries] : i \in DOMAIN m.queries}
               \cup {[id |-> <<Cardinality(messagesRead), "count", i>>, pc |-> "count", query |-> m.counts[i]] : i \in DOMAIN m.counts}
  /\ answeredWith' = {}
  /\ UNCHANGED <<attached, entityCmdMap, wsRows>>

filterOwnedSubCmds ==
  /\ socket.pc = "filter"
  /\ socket' = [socket EXCEPT !.pc = "register",
       !.cmds = Restrict(@, {i \in DOMAIN @ : @[i].unsubscribe \/ allows(sessionScope, @[i].type, @[i].entity)})]
  /\ answeredWith' = {}
  /\ UNCHANGED <<attached, entityCmdMap, tasks, wsRows, messagesRead>>

SameTarget(c, s) == s.channel = c.channel /\ s.entity = c.entity /\ s.cmd = c.cmd

\* Commands of the message after the i-th that end the subscription s.
EndedAfter(i, s) ==
  \E j \in DOMAIN socket.cmds : j > i /\ socket.cmds[j].unsubscribe /\ SameTarget(socket.cmds[j], s)

\* Under session.mu: telemetry, alarms and then attributes; each is independent of
\* the others, so the order of the message stands.
RegisterSubs ==
  LET begin == {i \in DOMAIN socket.cmds : ~socket.cmds[i].unsubscribe}
      initial(c) == c.channel # "alarms"
  IN  /\ socket.pc = "register"
      /\ attached' = {s \in attached : ~EndedAfter(0, s)}
           \cup {socket.cmds[i] : i \in {j \in begin : ~EndedAfter(j, socket.cmds[j])}}
      /\ tasks' = tasks \cup
           {[id |-> <<Cardinality(messagesRead), "initial", i>>, pc |-> "initial", cmd |-> socket.cmds[i]]
              : i \in {j \in begin : initial(socket.cmds[j])}}
      /\ socket' = [socket EXCEPT !.pc = "read", !.cmds = <<>>]
      /\ answeredWith' = {}
      /\ UNCHANGED <<entityCmdMap, wsRows, messagesRead>>

-----------------------------------------------------------------------------
(* Initial payloads: history and attributes, read for the session as it is *)
(* by then.                                                                *)

AnswerWith(entities) == answeredWith' = IF socket.pc = "closed" THEN {} ELSE entities

\* The history store keeps the tenant with each sample, also of deleted devices.
sendHistoricalSnapshot(g) ==
  /\ g.cmd.channel = "telemetry"
  /\ AnswerWith(IF socket.tenant = WsOwner[g.cmd.entity] THEN {g.cmd.entity} ELSE {})

sendInitialAttributes(g) ==
  /\ g.cmd.channel = "attributes"
  /\ AnswerWith(IF allows(sessionScope, g.cmd.type, g.cmd.entity) THEN {g.cmd.entity} ELSE {})

SendInitial(g) ==
  /\ g.pc = "initial"
  /\ sendHistoricalSnapshot(g) \/ sendInitialAttributes(g)
  /\ tasks' = tasks \ {g}
  /\ UNCHANGED <<socket, attached, entityCmdMap, wsRows, messagesRead>>

-----------------------------------------------------------------------------
(* Queries.                                                                *)

Becomes(g, h) == tasks' = (tasks \ {g}) \cup {h}
NextQuery(g) == IF Len(g.todo) = 1 THEN tasks' = tasks \ {g}
            ELSE Becomes(g, [g EXCEPT !.todo = Tail(@), !.pc = "gate"])

\* "Snapshot it once: it never changes after authCmd."
TakeScope(g) ==
  /\ g.pc = "start"
  /\ Becomes(g, [g EXCEPT !.scope = sessionScope, !.pc = "gate"])
  /\ answeredWith' = {}
  /\ UNCHANGED <<socket, attached, entityCmdMap, wsRows, messagesRead>>

\* Nodes of another tenant are neither shown nor walked through.
walkRelationsQuery(scope, root) ==
  LET leads(path, n, e) ==
        /\ path[0] = root /\ path[n] = e
        /\ \A i \in 1..n : <<path[i - 1], path[i]>> \in WsEdges /\ allows(scope, WsKind[path[i]], path[i])
  IN  {e \in wsRows \ {root} :
         /\ WsKind[e] \in {"ASSET", "DEVICE", "ENTITY_VIEW"}
         /\ \E n \in 1..WalkLevels : \E path \in [0..n -> WsEntities] : leads(path, n, e)}

QueryFinds(scope, q) ==
  CASE q.query = "list"      -> Visible(scope, q.type)
    [] q.query = "relations" -> IF allows(scope, q.type, q.entity) THEN walkRelationsQuery(scope, q.entity) ELSE {}

ListQuery(g, q) ==
  /\ q.query \in {"list", "relations"}
  /\ AnswerWith(QueryFinds(g.scope, q))
  /\ NextQuery(g)
  /\ UNCHANGED entityCmdMap

\* A count is a goroutine of its own, with the scope of its start.
handleEntityCountCmd(g) ==
  /\ g.pc = "count"
  /\ AnswerWith(QueryFinds(sessionScope, g.query))
  /\ tasks' = tasks \ {g}
  /\ UNCHANGED <<socket, attached, entityCmdMap, wsRows, messagesRead>>

\* The usage state of the tenant, looked up by it.
UsageQuery(g, q) ==
  /\ q.query = "usage"
  /\ LET states == Visible(g.scope, "API_USAGE_STATE")
     IN  IF states = {} THEN AnswerWith({}) /\ UNCHANGED entityCmdMap
         ELSE \E e \in states :
                /\ entityCmdMap' = [entityCmdMap EXCEPT ![q.cmd] = [entity |-> e, keys |-> {}, attrKeys |-> <<>>]]
                /\ AnswerWith({e})
  /\ NextQuery(g)

\* The gate of one entity; a query that names none is the second step of one that did.
Gate(g, q) ==
  /\ q.query = "entity"
  /\ IF q.entity # Unset /\ ~allows(g.scope, q.type, q.entity)
     THEN NextQuery(g)
     ELSE Becomes(g, [g EXCEPT !.pc = "bind"])
  /\ answeredWith' = {}
  /\ UNCHANGED entityCmdMap

RunQuery(g) ==
  /\ g.pc = "gate"
  /\ LET q == Head(g.todo)
     IN  ListQuery(g, q) \/ UsageQuery(g, q) \/ Gate(g, q)
  /\ UNCHANGED <<socket, attached, wsRows, messagesRead>>

SubKeys(q) == q.keys \cup DOMAIN q.attrKeys
BindingAlwaysKept(old, e) == old # Unset                          \* mutant
\* Keys of an earlier message stay while the command targets the same entity;
\* "Rebind = clean slate".
BindingKept(old, e) == old # Unset /\ old.entity = e
Bound(old, q) ==
  LET e == IF q.entity # Unset THEN q.entity ELSE old.entity
  IN  IF BindingKept(old, e)
      THEN [entity |-> e, keys |-> SubKeys(q) \cup old.keys,
            attrKeys |-> [k \in DOMAIN q.attrKeys \cup DOMAIN old.attrKeys |->
                            IF k \in DOMAIN q.attrKeys THEN q.attrKeys[k] ELSE old.attrKeys[k]]]
      ELSE [entity |-> e, keys |-> SubKeys(q), attrKeys |-> q.attrKeys]

\* Under session.mu; what the entity is read for comes after it.
Bind(g) ==
  LET q == Head(g.todo)
      old == entityCmdMap[q.cmd]
  IN  /\ g.pc = "bind"
      /\ IF q.entity = Unset /\ old = Unset
         THEN NextQuery(g) /\ UNCHANGED entityCmdMap
         ELSE /\ entityCmdMap' = [entityCmdMap EXCEPT ![q.cmd] = Bound(old, q)]
              /\ Becomes(g, [g EXCEPT !.pc = "answer", !.target = Bound(old, q).entity])
      /\ answeredWith' = {}
      /\ UNCHANGED <<socket, attached, wsRows, messagesRead>>

AnswerQuery(g) ==
  /\ g.pc = "answer"
  /\ AnswerWith({g.target})
  /\ NextQuery(g)
  /\ UNCHANGED <<socket, attached, entityCmdMap, wsRows, messagesRead>>


-----------------------------------------------------------------------------
(* Events.  Each broadcaster holds session.mu while it reads a session's   *)
(* subscriptions and writes, so what a session is pushed is a function of  *)
(* them: [cmd, entity, pairs], the pairs of keys and channels.             *)

Wanted(keys, data) == IF keys = {} THEN data ELSE keys \cap data
PushOf(cmd, e, pairs) == IF pairs = {} THEN {} ELSE {[cmd |-> cmd, entity |-> e, pairs |-> pairs]}
SubsOn(channel, e) == {s \in attached : s.channel = channel /\ s.entity = e}
BoundTo(e) == {c \in CmdIds : entityCmdMap[c] # Unset /\ entityCmdMap[c].entity = e}

BroadcastTelemetry(e, data) ==
  (UNION {PushOf(s.cmd, e, Wanted(s.keys, data) \X {"TIME_SERIES"}) : s \in SubsOn("telemetry", e)})
  \cup (UNION {PushOf(c, e, Wanted(entityCmdMap[c].keys, data) \X {"TIME_SERIES"}) : c \in BoundTo(e)})

\* A scope as the client spelt it: its name in capitals, and whether blanks surround it.
KnownScopes == {"CLIENT_SCOPE", "SHARED_SCOPE", "SERVER_SCOPE"}
subScopeMatches(s, scope) == s.name \in KnownScopes => s.name = scope /\ ~s.padded
\* The initial read trims the name first.
InitialCovers(s, scope) == s.name \in KnownScopes => s.name = scope

attrChannelAcceptsScope(channel, scope) == channel = "ATTRIBUTE" \/ channel = scope

BroadcastAttributes(e, scope, data) ==
  (UNION {PushOf(s.cmd, e, Wanted(s.keys, data) \X {scope}) :
            s \in {x \in SubsOn("attributes", e) : subScopeMatches(x.scope, scope)}})
  \cup (UNION {LET channels == entityCmdMap[c].attrKeys
               IN  PushOf(c, e, {<<k, channels[k]>> : k \in
                     {x \in data \cap DOMAIN channels : attrChannelAcceptsScope(channels[x], scope)}}) : c \in BoundTo(e)})

\* Telemetry subscribers are told too.
BroadcastAlarmEvent(e) ==
  UNION {PushOf(s.cmd, e, {<<"alarm", s.channel>>}) : s \in SubsOn("alarms", e) \cup SubsOn("telemetry", e)}

flattenFeatures(features) == UNION {{<<"feature", f, p>> : p \in features[f]} : f \in DOMAIN features}

RouteEvent(ev) ==
  IF ev.entity = Unset THEN {} ELSE
  CASE ev.type = "twin.attribute.saved"    -> IF ev.scope = Unset THEN {} ELSE BroadcastAttributes(ev.entity, ev.scope, ev.keys)
    [] ev.type = "twin.feature.saved"      -> BroadcastAttributes(ev.entity, "SERVER_SCOPE", flattenFeatures(ev.features))
    [] ev.type = "twin.device_state.saved" -> BroadcastTelemetry(ev.entity, ev.keys)
    [] ev.type = "twin.alarm.saved"        -> BroadcastAlarmEvent(ev.entity)
    [] OTHER                               -> {}

-----------------------------------------------------------------------------
\* Another request deletes the entity; nobody ends its subscriptions.
DeleteRow(e) ==
  /\ e \in wsRows /\ wsRows' = wsRows \ {e}
  /\ answeredWith' = {}
  /\ UNCHANGED <<socket, attached, entityCmdMap, tasks, messagesRead>>

WsInit ==
  /\ socket = [pc |-> "read", cmds |-> <<>>, authenticated |-> FALSE, tenant |-> Unset, admin |-> FALSE]
  /\ attached = {} /\ entityCmdMap = [c \in CmdIds |-> Unset] /\ tasks = {}
  /\ wsRows = WsEntities /\ messagesRead = {} /\ answeredWith = {}

WsNext ==
  \/ \E m \in WsMessages : Receive(m)
  \/ filterOwnedSubCmds \/ RegisterSubs
  \/ \E g \in tasks :
       TakeScope(g) \/ RunQuery(g) \/ Bind(g) \/ AnswerQuery(g) \/ SendInitial(g) \/ handleEntityCountCmd(g)
  \/ \E e \in ShortLived : DeleteRow(e)

WsSpec == WsInit /\ [][WsNext]_wsVars

-----------------------------------------------------------------------------
(* Properties.                                                             *)

Requested == UNION {Range(m.subs) \cup Range(m.queries) : m \in messagesRead}
TenantsShown == {m.auth.tenant : m \in {x \in messagesRead : x.auth # Unset /\ x.auth.valid}}

\* Every writer of a subscription has proved "entity ownership BEFORE registering":
\* what a session is answered and pushed is of a tenant whose token it has shown,
\* whatever it asks for, under whichever type, and however often it changes tokens
\* while its queries run.
GrantsAreProven ==
  ~socket.admin =>
    {s.entity : s \in attached} \cup {e \in WsEntities : BoundTo(e) # {}} \cup answeredWith
      \subseteq {e \in WsEntities : WsOwner[e] \in TenantsShown}

\* The command x asked for the key and its channel; the keys of a usage query are
\* not read.
Covers(x, pair) ==
  IF x.op = "query" THEN \/ pair[2] = "TIME_SERIES" /\ (x.query = "usage" \/ SubKeys(x) = {} \/ pair[1] \in SubKeys(x))
                         \/ pair[1] \in DOMAIN x.attrKeys /\ x.attrKeys[pair[1]] = pair[2]
  ELSE
  CASE x.channel = "attributes" -> InitialCovers(x.scope, pair[2]) /\ (x.keys = {} \/ pair[1] \in x.keys)
    [] x.channel = "telemetry" -> pair = <<"alarm", "telemetry">> \/ (pair[2] = "TIME_SERIES" /\ (x.keys = {} \/ pair[1] \in x.keys))
    [] x.channel = "alarms" -> pair = <<"alarm", "alarms">>

\* A command is pushed no key in no channel that the client did not ask for with
\* this command and this entity, or, in a second step, with the command alone: the
\* client fails on keys it has not registered.
PushesAreAsked ==
  \A ev \in WsEvents : \A push \in RouteEvent(ev) : \A pair \in push.pairs :
    \E x \in Requested : x.cmd = push.cmd /\ x.entity \in {push.entity, Unset} /\ Covers(x, pair)

\* All of it.
SubscriptionsHold == GrantsAreProven /\ PushesAreAsked
=============================================================================
