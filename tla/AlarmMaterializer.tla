------------------------- MODULE AlarmMaterializer -------------------------
(***************************************************************************)
(* The alarm materializer: replicas of cmd/alarm-materializer consume      *)
(* alarm intents from the JetStream stream TF_ALARMS (durable consumer,    *)
(* queue group, explicit acks) and apply each to the Postgres tables       *)
(* alarm, entity_alarm and attribute_kv (alarm_count), one SQL statement   *)
(* at a time and in no transaction.  Flow Core's operators acknowledge and *)
(* clear alarms and delete devices over the same tables, and a retention   *)
(* job removes old rows.                                                   *)
(*                                                                         *)
(* Every SQL statement is one action, so the statements of two replicas,   *)
(* of an operator and of a crashed and restarted handler interleave as     *)
(* Postgres lets them (READ COMMITTED).                                    *)
(***************************************************************************)
EXTENDS Naturals, Integers, Sequences, FiniteSets

CONSTANTS
    Replicas,     \* replicas of the materializer, members of the queue group
    Devices,      \* device ids that exist when the run starts
    Assets,       \* assets above the devices
    Contains,     \* the 'Contains' relation: a set of <<from, to>> pairs
    Tenants,
    Owner,        \* [Devices -> Tenants]: device.tenant_id
    AlarmIds,     \* uuids that newID can return (bounds the rows inserted)
    Intents,      \* the intents the alarm detector may publish
    NoAlarm,      \* "no row" (sql.ErrNoRows), not an alarm id
    FaultKinds,   \* which faults happen, a subset of AllFaultKinds
    MaxFaults,    \* bound on the number of faults of a behaviour
    OperatorOps,  \* what operators do, a subset of AllOperatorOps
    MaxStream,    \* bound on the intents published
    MaxTime       \* bound on the clock

AllFaultKinds == {"dberror", "crash", "acklost", "keydict"}
AllOperatorOps == {"ack", "clear", "delete", "retention"}

ASSUME MaterializerAssumption ==
    /\ IsFiniteSet(AlarmIds) /\ NoAlarm \notin AlarmIds
    /\ Devices \subseteq STRING
    /\ Intents \subseteq [action : STRING, tenant : STRING, device : STRING, type : STRING,
                          severity : STRING]
    /\ Owner \in [Devices -> Tenants]
    /\ Contains \subseteq (Assets \X (Assets \cup Devices))
    /\ MaxTime \in Nat /\ MaxFaults \in Nat /\ MaxStream \in Nat
    /\ FaultKinds \subseteq AllFaultKinds
    /\ OperatorOps \subseteq AllOperatorOps

VARIABLES
    stream,      \* intents published on tf.alarm.intent.>, in stream order
    delivered,   \* sequence number of the last message delivered a first time
    unacked,     \* delivered messages the consumer still waits an ack for
    acked,       \* messages acked or terminated
    alarm,       \* table alarm, a row (or a free id) per uuid
    entityAlarm, \* table entity_alarm: set of <<device, alarm id>>
    alarmCount,  \* attribute alarm_count of each asset (attribute_kv)
    live,        \* table device: the devices that exist
    doomed,      \* rows locked by the open transaction of a device delete
    deleting,    \* devices whose delete transaction is open
    events,      \* alarm ids named by the twin.alarm.saved events published
    clock,       \* wall clock, in ticks
    pc,          \* where each replica's message handler is
    loc,         \* its local variables
    faults       \* faults so far

dbVars == <<alarm, entityAlarm, alarmCount, live, doomed, deleting, events>>
busVars == <<stream, delivered, unacked, acked>>
vars == <<busVars, dbVars, pc, loc, clock, faults>>

-----------------------------------------------------------------------------
(* Intents (intent.go) and severities.                                     *)

ActionCreateOrUpdate == "create_or_update"
ActionClear == "clear"

\* Intent.Validate: ParseIntent and ApplyIntent reject everything else.
Validate(i) ==
    /\ i.action \in {ActionCreateOrUpdate, ActionClear}
    /\ i.tenant # "" /\ i.device # "" /\ i.type # ""
    /\ i.action = ActionCreateOrUpdate => i.severity # ""

severityRank(s) ==
    CASE s = "CRITICAL" -> 4
      [] s = "MAJOR" -> 3
      [] s = "MINOR" -> 2
      [] s = "WARNING" -> 1
      [] s = "INDETERMINATE" -> 0
      [] OTHER -> -1

\* Mutant: any other severity overwrites the row's.
EscalatesOnChange(i, row) == i.severity # row.severity

\* An active alarm takes the intent's severity only when it ranks higher.
Escalates(i, row) == severityRank(i.severity) > severityRank(row.severity)

IntentOf(r) == stream[loc[r].msg]

-----------------------------------------------------------------------------
(* Table alarm.  A row is "free" until its uuid is inserted; "deleted" rows *)
(* keep their columns so that properties can refer to what they held.       *)

Free == [state |-> "free", device |-> "", type |-> "", tenant |-> "",
         severity |-> "", startTs |-> 0, endTs |-> 0, clearTs |-> 0, acknowledged |-> FALSE]

IsRow(id) == alarm[id].state \in {"active", "cleared"}

\* Mutant: the lookup skips acknowledged alarms.
ActiveUnackedRows(d, t) ==
    {id \in AlarmIds : /\ alarm[id].state = "active" /\ ~alarm[id].acknowledged
                       /\ alarm[id].device = d /\ alarm[id].type = t}

\* WHERE originator_id = d AND type = t AND cleared = false
ActiveRows(d, t) ==
    {id \in AlarmIds : /\ alarm[id].state = "active"
                       /\ alarm[id].device = d
                       /\ alarm[id].type = t}

\* WITH RECURSIVE ... UNION: the least set that holds what the edges lead to
\* from n and from each of its members.
Reach(universe, edges, n) ==
    {x \in universe : \A S \in SUBSET universe :
        (\A e \in edges : e[1] \in S \cup {n} /\ e[2] \in universe => e[2] \in S) => x \in S}

Ancestors(d) == Reach(Assets, {<<c[2], c[1]>> : c \in Contains}, d)
DevicesBelow(a) == Reach(Assets \cup Devices, Contains, a) \cap Devices

\* SELECT count(*) ... under asset a, restricted to the intent's tenant.
ActiveBelow(a, tenant) ==
    Cardinality({id \in AlarmIds : /\ alarm[id].state = "active"
                                   /\ alarm[id].tenant = tenant
                                   /\ alarm[id].device \in DevicesBelow(a)})

\* Locals of handleMessage, ApplyIntent and RefreshAncestorAlarmCounts.
NoLocals == [msg |-> 0, now |-> 0, active |-> NoAlarm, todo |-> {}, asset |-> NoAlarm, count |-> 0]

-----------------------------------------------------------------------------
Init ==
    /\ stream = <<>> /\ delivered = 0 /\ unacked = {} /\ acked = {}
    /\ alarm = [id \in AlarmIds |-> Free]
    /\ entityAlarm = {} /\ alarmCount = [a \in Assets |-> 0]
    /\ live = Devices /\ doomed = {} /\ deleting = {} /\ events = {}
    /\ clock = 1 /\ faults = 0
    /\ pc = [r \in Replicas |-> "idle"]
    /\ loc = [r \in Replicas |-> NoLocals]

Goto(r, l) == pc' = [pc EXCEPT ![r] = l] /\ UNCHANGED loc
Return(r) == pc' = [pc EXCEPT ![r] = "idle"] /\ loc' = [loc EXCEPT ![r] = NoLocals]

(* The alarm detector publishes an intent; the clock advances.             *)
Publish(i) ==
    /\ Len(stream) < MaxStream
    /\ stream' = Append(stream, i)
    /\ UNCHANGED <<delivered, unacked, acked, dbVars, pc, loc, clock, faults>>

Tick ==
    /\ clock < MaxTime
    /\ clock' = clock + 1
    /\ UNCHANGED <<busVars, dbVars, pc, loc, faults>>

\* The consumer hands replica r the next message, or one whose ack did not
\* come (nak, ack wait, lost ack, crash), also while another replica works on it.
Deliver(r, m) ==
    /\ pc[r] = "idle"
    /\ \/ m = delivered + 1 /\ m <= Len(stream)
       \/ m \in unacked
    /\ delivered' = IF m > delivered THEN m ELSE delivered
    /\ IF Validate(stream[m])
         THEN /\ unacked' = unacked \cup {m}
              /\ pc' = [pc EXCEPT ![r] = "find"]
              /\ loc' = [loc EXCEPT ![r].msg = m, ![r].now = clock]
              /\ UNCHANGED acked
         ELSE /\ unacked' = unacked \ {m}       \* msg.Term()
              /\ acked' = acked \cup {m}
              /\ UNCHANGED <<pc, loc>>
    /\ UNCHANGED <<stream, dbVars, clock, faults>>

-----------------------------------------------------------------------------
(* ApplyIntent, a statement at a time.                                     *)

\* Mutant: sql.ErrNoRows is not told apart from a row found.
FindIgnoresNoRows(r) ==
    LET i == IntentOf(r)
        found == ActiveRows(i.device, i.type) IN
    /\ pc[r] = "find"
    /\ loc' = [loc EXCEPT ![r].active = IF found = {} THEN NoAlarm ELSE CHOOSE id \in found : TRUE]
    /\ pc' = [pc EXCEPT ![r] = IF i.action = ActionClear THEN "clear" ELSE "extend"]
    /\ UNCHANGED <<busVars, dbVars, clock, faults>>

\* ORDER BY start_ts DESC LIMIT 1 (any of the latest ones on a tie).
FindActiveAlarm(r) ==
    LET i == IntentOf(r)
        found == ActiveRows(i.device, i.type)
        latest == {id \in found : \A x \in found : alarm[x].startTs <= alarm[id].startTs}
    IN  /\ pc[r] = "find"
        /\ \/ /\ found = {}
              /\ Goto(r, IF i.action = ActionClear THEN "ack" ELSE "insert")
           \/ \E id \in latest :
                /\ loc' = [loc EXCEPT ![r].active = id]
                /\ pc' = [pc EXCEPT ![r] =
                       IF i.action = ActionClear THEN "clear"
                       ELSE IF Escalates(i, alarm[id]) THEN "escalate" ELSE "extend"]
        /\ UNCHANGED <<busVars, dbVars, clock, faults>>

\* What follows a clear: the counts of the ancestors (mutant: nothing does).
NoRefreshAfterClear == "ack"
AfterClear == "walk"

\* An UPDATE of a row that a device delete has locked waits for its commit;
\* of a row that is gone it changes nothing and reports no error.
ClearAlarm(r) ==
    LET id == loc[r].active IN
    /\ pc[r] = "clear" /\ id \notin doomed
    /\ alarm' = IF IsRow(id)
                  THEN [alarm EXCEPT ![id].state = "cleared", ![id].clearTs = loc[r].now,
                            ![id].endTs = IF loc[r].now > @ THEN loc[r].now ELSE @]
                  ELSE alarm
    /\ Goto(r, AfterClear)
    /\ UNCHANGED <<busVars, entityAlarm, alarmCount, live, doomed, deleting, events, clock, faults>>

\* Mutant: the escalation only moves end_ts.
EscalateEndOnly(r) ==
    LET id == loc[r].active IN
    /\ pc[r] = "escalate" /\ id \notin doomed
    /\ alarm' = IF IsRow(id) THEN [alarm EXCEPT ![id].endTs = loc[r].now] ELSE alarm
    /\ Goto(r, "walk")
    /\ UNCHANGED <<busVars, entityAlarm, alarmCount, live, doomed, deleting, events, clock, faults>>

EscalateAlarm(r) ==
    LET id == loc[r].active IN
    /\ pc[r] = "escalate" /\ id \notin doomed
    /\ alarm' = IF IsRow(id)
                  THEN [alarm EXCEPT ![id].endTs = loc[r].now, ![id].severity = IntentOf(r).severity]
                  ELSE alarm
    /\ Goto(r, "walk")
    /\ UNCHANGED <<busVars, entityAlarm, alarmCount, live, doomed, deleting, events, clock, faults>>

ExtendAlarm(r) ==
    LET id == loc[r].active IN
    /\ pc[r] = "extend" /\ id \notin doomed
    /\ alarm' = IF IsRow(id) THEN [alarm EXCEPT ![id].endTs = loc[r].now] ELSE alarm
    /\ Goto(r, "ack")
    /\ UNCHANGED <<busVars, entityAlarm, alarmCount, live, doomed, deleting, events, clock, faults>>

\* No row inserted is ErrOriginatorMissing, a no-op (mutant: an error, so nak).
MissingIsError(r) == Return(r)
OriginatorMissing(r) == Goto(r, "ack")

\* What follows an insert: the entity_alarm row.
AfterInsert == "link"

\* INSERT ... WHERE EXISTS (device of that tenant), then a twin.alarm.saved event.
InsertAlarm(r) ==
    LET i == IntentOf(r) IN
    /\ pc[r] = "insert"
    /\ \/ /\ i.device \in live /\ Owner[i.device] = i.tenant
          /\ \E id \in AlarmIds :
                /\ alarm[id].state = "free"
                /\ alarm' = [alarm EXCEPT ![id] =
                       [state |-> "active", device |-> i.device, type |-> i.type,
                        tenant |-> i.tenant, severity |-> i.severity, startTs |-> loc[r].now,
                        endTs |-> loc[r].now, clearTs |-> 0, acknowledged |-> FALSE]]
                /\ loc' = [loc EXCEPT ![r].active = id]
                /\ events' = events \cup {id}
          /\ pc' = [pc EXCEPT ![r] = AfterInsert]
       \/ /\ ~(i.device \in live /\ Owner[i.device] = i.tenant)
          /\ OriginatorMissing(r)
          /\ UNCHANGED <<alarm, events>>
    /\ UNCHANGED <<busVars, entityAlarm, alarmCount, live, doomed, deleting, clock, faults>>

\* The foreign key entity_alarm.alarm_id -> alarm(id): the insert waits for an
\* open delete of the row and fails (nak) when the row is gone.
LinkEntityAlarm(r) ==
    LET id == loc[r].active IN
    /\ pc[r] = "link" /\ id \notin doomed
    /\ IF IsRow(id)
         THEN /\ entityAlarm' = entityAlarm \cup {<<IntentOf(r).device, id>>}
              /\ events' = events \cup {id}
              /\ Goto(r, "walk")
         ELSE /\ Return(r)
              /\ UNCHANGED <<entityAlarm, events>>
    /\ UNCHANGED <<busVars, alarm, alarmCount, live, doomed, deleting, clock, faults>>

\* RefreshAncestorAlarmCounts: walk up once, then count and upsert each asset.
WalkAncestors(r) ==
    /\ pc[r] = "walk"
    /\ loc' = [loc EXCEPT ![r].todo = Ancestors(IntentOf(r).device)]
    /\ pc' = [pc EXCEPT ![r] = "keyid"]
    /\ UNCHANGED <<busVars, dbVars, clock, faults>>

ResolveKey(r) ==
    /\ pc[r] = "keyid"
    /\ Goto(r, "count")
    /\ UNCHANGED <<busVars, dbVars, clock, faults>>

CountBelow(r) ==
    /\ pc[r] = "count"
    /\ \/ loc[r].todo = {} /\ Goto(r, "ack")
       \/ \E a \in loc[r].todo :
            /\ loc' = [loc EXCEPT ![r].asset = a, ![r].todo = @ \ {a},
                                  ![r].count = ActiveBelow(a, IntentOf(r).tenant)]
            /\ pc' = [pc EXCEPT ![r] = "upsert"]
    /\ UNCHANGED <<busVars, dbVars, clock, faults>>

UpsertCount(r) ==
    /\ pc[r] = "upsert"
    /\ alarmCount' = [alarmCount EXCEPT ![loc[r].asset] = loc[r].count]
    /\ pc' = [pc EXCEPT ![r] = "count"]
    /\ loc' = [loc EXCEPT ![r].asset = NoAlarm, ![r].count = 0]
    /\ UNCHANGED <<busVars, alarm, entityAlarm, live, doomed, deleting, events, clock, faults>>

Ack(r) ==
    /\ pc[r] = "ack"
    /\ unacked' = unacked \ {loc[r].msg}
    /\ acked' = acked \cup {loc[r].msg}
    /\ Return(r)
    /\ UNCHANGED <<stream, delivered, dbVars, clock, faults>>

-----------------------------------------------------------------------------
(* Faults.                                                                 *)

Fault(kind) == kind \in FaultKinds /\ faults < MaxFaults /\ faults' = faults + 1

StatementLabels == {"find", "clear", "escalate", "extend", "insert", "link", "walk", "count", "upsert"}

\* A statement fails or the handler's 10 s context ends: ApplyIntent returns
\* the error and handleMessage naks, so the message stays unacked.
StatementFails(r) ==
    /\ pc[r] \in StatementLabels
    /\ Fault("dberror")
    /\ Return(r)
    /\ UNCHANGED <<busVars, dbVars, clock>>

Crash(r) ==
    /\ pc[r] # "idle"
    /\ Fault("crash")
    /\ Return(r)
    /\ UNCHANGED <<busVars, dbVars, clock>>

\* Also a copy that was redelivered before the ack arrived.
AckLost(r) ==
    /\ pc[r] = "ack"
    /\ Fault("acklost")
    /\ Return(r)
    /\ UNCHANGED <<busVars, dbVars, clock>>

\* GetOrInsertKeyID("alarm_count") = -1: logged, and the refresh returns nil.
KeyDictFails(r) ==
    /\ pc[r] = "keyid"
    /\ Fault("keydict")
    /\ Goto(r, "ack")
    /\ UNCHANGED <<busVars, dbVars, clock>>

-----------------------------------------------------------------------------
(* Flow Core's REST handlers and the retention job on the same tables.     *)

AckByOperator(id) ==                           \* handleAlarmAck
    /\ "ack" \in OperatorOps
    /\ IsRow(id) /\ id \notin doomed
    /\ alarm' = [alarm EXCEPT ![id].acknowledged = TRUE]
    /\ UNCHANGED <<busVars, entityAlarm, alarmCount, live, doomed, deleting, events, pc, loc, clock, faults>>

ClearByOperator(id) ==                         \* handleAlarmClear
    /\ "clear" \in OperatorOps
    /\ IsRow(id) /\ id \notin doomed
    /\ alarm' = [alarm EXCEPT ![id].state = "cleared", ![id].clearTs = clock]
    /\ UNCHANGED <<busVars, entityAlarm, alarmCount, live, doomed, deleting, events, pc, loc, clock, faults>>

\* HandleDeviceDelete: DELETE FROM alarm sees the rows committed by then; the
\* device row goes in a later statement of the same transaction.
DeleteDeviceAlarms(d) ==
    /\ "delete" \in OperatorOps
    /\ d \in live \ deleting
    /\ deleting' = deleting \cup {d}
    /\ doomed' = doomed \cup {id \in AlarmIds : IsRow(id) /\ alarm[id].device = d}
    /\ UNCHANGED <<busVars, alarm, entityAlarm, alarmCount, live, events, pc, loc, clock, faults>>

CommitDeviceDelete(d) ==
    LET gone == {id \in doomed : alarm[id].device = d} IN
    /\ d \in deleting
    /\ alarm' = [id \in AlarmIds |-> IF id \in gone THEN [alarm[id] EXCEPT !.state = "deleted"] ELSE alarm[id]]
    /\ entityAlarm' = {l \in entityAlarm : l[2] \notin gone}
    /\ live' = live \ {d}
    /\ deleting' = deleting \ {d}
    /\ doomed' = doomed \ gone
    /\ UNCHANGED <<busVars, alarmCount, events, pc, loc, clock, faults>>

\* A later statement of the transaction fails: Rollback leaves the rows alone.
AbortDeviceDelete(d) ==
    /\ d \in deleting
    /\ Fault("dberror")
    /\ deleting' = deleting \ {d}
    /\ doomed' = doomed \ {id \in AlarmIds : alarm[id].device = d}
    /\ UNCHANGED <<busVars, alarm, entityAlarm, alarmCount, live, events, pc, loc, clock>>

\* The alarm-retention job: cleared, acknowledged, and cleared days ago, so
\* before any handler in progress began (its context lives 10 seconds).
Retention(id) ==
    /\ "retention" \in OperatorOps
    /\ alarm[id].state = "cleared" /\ alarm[id].acknowledged /\ alarm[id].clearTs < clock
    /\ \A r \in Replicas : pc[r] # "idle" => alarm[id].clearTs < loc[r].now
    /\ id \notin doomed
    /\ alarm' = [alarm EXCEPT ![id].state = "deleted"]
    /\ entityAlarm' = {l \in entityAlarm : l[2] # id}
    /\ UNCHANGED <<busVars, alarmCount, live, doomed, deleting, events, pc, loc, clock, faults>>

-----------------------------------------------------------------------------
Handler(r) ==
    \/ FindActiveAlarm(r) \/ ClearAlarm(r) \/ EscalateAlarm(r) \/ ExtendAlarm(r)
    \/ InsertAlarm(r) \/ LinkEntityAlarm(r)
    \/ WalkAncestors(r) \/ ResolveKey(r) \/ CountBelow(r) \/ UpsertCount(r) \/ Ack(r)

FaultStep(r) == StatementFails(r) \/ Crash(r) \/ AckLost(r) \/ KeyDictFails(r)

Operator ==
    \/ \E id \in AlarmIds : AckByOperator(id) \/ ClearByOperator(id) \/ Retention(id)
    \/ \E d \in Devices : DeleteDeviceAlarms(d) \/ CommitDeviceDelete(d) \/ AbortDeviceDelete(d)

Next ==
    \/ \E i \in Intents : Publish(i)
    \/ Tick
    \/ \E r \in Replicas : \/ \E m \in 1..Len(stream) : Deliver(r, m)
                           \/ Handler(r)
                           \/ FaultStep(r)
    \/ Operator

Spec == Init /\ [][Next]_vars

\* Go calls the message callbacks of one subscription one after another, and
\* JetStream redelivers until a message is acked or terminated (MaxDeliver is
\* not set), so a handler in progress goes on and a waiting message reaches
\* some replica again and again; the faults themselves are finitely many.
Fairness ==
    /\ \A r \in Replicas : WF_vars(Handler(r))
    /\ \A m \in 1..MaxStream : SF_vars(\E r \in Replicas : Deliver(r, m))
    /\ \A d \in Devices : WF_vars(CommitDeviceDelete(d))

FairSpec == Spec /\ Fairness

-----------------------------------------------------------------------------
(* Properties.                                                             *)

Labels == StatementLabels \cup {"idle", "keyid", "ack"}

Text == STRING \cup {""}   \* spelled out: the provers do not know "" as a string

AlarmRow ==
    [state : {"free", "active", "cleared", "deleted"}, device : Text, type : Text,
     tenant : Text, severity : Text, startTs : Nat, endTs : Nat, clearTs : Nat,
     acknowledged : BOOLEAN]

Locals ==
    [msg : Nat, now : Nat, active : AlarmIds \cup {NoAlarm}, todo : SUBSET Assets,
     asset : Assets \cup {NoAlarm}, count : Nat]

BusType ==
    /\ stream \in Seq(Intents) /\ delivered \in Nat
    /\ unacked \subseteq 1..Len(stream) /\ acked \subseteq 1..Len(stream)

TablesType ==
    /\ alarm \in [AlarmIds -> AlarmRow]
    /\ entityAlarm \subseteq (STRING \X AlarmIds) /\ events \subseteq AlarmIds
    /\ alarmCount \in [Assets -> Nat]
    /\ live \subseteq Devices /\ deleting \subseteq live /\ doomed \subseteq AlarmIds

\* What a handler at a label knows about its locals.
LocalsFit(l, v, len) ==
    /\ l # "idle" => v.msg \in 1..len
    /\ l \in {"clear", "escalate", "extend", "link"} => v.active \in AlarmIds
    /\ l = "upsert" => v.asset \in Assets

HandlersType ==
    /\ pc \in [Replicas -> Labels] /\ loc \in [Replicas -> Locals]
    /\ \A r \in Replicas : LocalsFit(pc[r], loc[r], Len(stream))

\* Types; a handler at work holds a message of the stream, and one that is
\* about to update or link a row holds its id.
TypeOK == BusType /\ TablesType /\ HandlersType /\ clock \in Nat /\ faults \in Nat

\* FindActiveAlarm's "the" active alarm is well defined: no two alarms of one
\* device and type are active at once, although no unique index says so and a
\* message may be applied again after a crash, a nak or a lost ack.
OneActivePerType ==
    \A x, y \in AlarmIds :
        /\ alarm[x].state = "active" /\ alarm[y].state = "active"
        /\ alarm[x].device = alarm[y].device /\ alarm[x].type = alarm[y].type
        => x = y

\* No write, not even one that acts on a row read several statements earlier,
\* lowers the severity of an alarm or moves its end backwards.
SeverityNeverDowngraded ==
    [][\A id \in AlarmIds : IsRow(id) =>
          /\ severityRank(alarm'[id].severity) >= severityRank(alarm[id].severity)
          /\ alarm'[id].endTs >= alarm[id].endTs]_vars

\* An acked create_or_update was materialized: a row of that device and type
\* carries at least the intent's severity (whatever became of the row later),
\* unless the device is gone or belongs to another tenant.
AckedIsMaterialized ==
    \A m \in acked :
        LET i == stream[m] IN
        Validate(i) /\ i.action = ActionCreateOrUpdate =>
            \/ i.device \notin live \/ Owner[i.device] # i.tenant
            \/ \E id \in AlarmIds :
                  /\ alarm[id].state # "free"
                  /\ alarm[id].device = i.device /\ alarm[id].type = i.type
                  /\ severityRank(alarm[id].severity) >= severityRank(i.severity)

Quiet == \A r \in Replicas : pc[r] = "idle"
Settled == Quiet /\ unacked = {}

\* While no intent is being applied or waits for a redelivery, every alarm is
\* linked to its originator, so the entity's alarm list shows it, and each
\* ancestor's alarm_count is the number of active alarms below it ("stays in
\* sync with reality", alarms.go).
SettledTablesAgree ==
    Settled =>
        /\ \A id \in AlarmIds : IsRow(id) => <<alarm[id].device, id>> \in entityAlarm
        /\ \A a \in Assets, t \in Tenants :
            (\E d \in DevicesBelow(a) : Owner[d] = t) => alarmCount[a] = ActiveBelow(a, t)

\* Every published intent is acked or terminated in the end: no intent is
\* redelivered for ever.
EveryIntentSettled ==
    \A m \in 1..MaxStream : (m <= Len(stream)) ~> (m \in acked)
=============================================================================
