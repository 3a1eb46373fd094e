---------------------- MODULE AlarmMaterializerProofs ----------------------
(***************************************************************************)
(* Theorems about the alarm materializer, for any number of devices,       *)
(* assets, alarm ids and intents.  What holds whatever faults and          *)
(* operators there are comes first, then what one replica guarantees.      *)
(***************************************************************************)
EXTENDS AlarmMaterializer, FiniteSetTheorems, TLAPS

USE DEF busVars, dbVars, vars, AfterClear, AfterInsert, OriginatorMissing

\* A count of active alarms is a natural number.
LEMMA ActiveBelowType ==
    ASSUME NEW a, NEW t PROVE ActiveBelow(a, t) \in Nat
<1> DEFINE S == {id \in AlarmIds : /\ alarm[id].state = "active"
                                   /\ alarm[id].tenant = t
                                   /\ alarm[id].device \in DevicesBelow(a)}
<1>1. IsFiniteSet(S)
  BY MaterializerAssumption, FS_Subset
<1>2. Cardinality(S) \in Nat
  BY <1>1, FS_CardinalityType
<1> QED BY <1>2 DEF ActiveBelow

\* The walk up ends at assets.
LEMMA AncestorsType ==
    ASSUME NEW d PROVE Ancestors(d) \subseteq Assets
BY DEF Ancestors, Reach

LEMMA InitType == Init => TypeOK
<1> SUFFICES ASSUME Init PROVE TypeOK
  OBVIOUS
<1> USE MaterializerAssumption DEF Init
<1>1. BusType
  BY DEF BusType
<1>2. TablesType
  <2>1. Free \in AlarmRow
    <3>1. 0 \in Nat /\ FALSE \in BOOLEAN
      OBVIOUS
    <3> QED BY <3>1 DEF Free, AlarmRow, Text
  <2>2. alarm \in [AlarmIds -> AlarmRow]
    BY <2>1
  <2>3. alarmCount \in [Assets -> Nat]
    OBVIOUS
  <2> QED BY <2>2, <2>3 DEF TablesType
<1>3. HandlersType
  <2>1. NoLocals \in Locals /\ "idle" \in Labels
    <3>1. 0 \in Nat /\ {} \in SUBSET Assets /\ NoAlarm \in AlarmIds \cup {NoAlarm}
          /\ NoAlarm \in Assets \cup {NoAlarm}
      OBVIOUS
    <3> QED BY <3>1 DEF NoLocals, Locals, Labels
  <2>2. pc \in [Replicas -> Labels] /\ loc \in [Replicas -> Locals]
    BY <2>1
  <2>3. \A r \in Replicas : LocalsFit(pc[r], loc[r], Len(stream))
    BY DEF LocalsFit
  <2> QED BY <2>2, <2>3 DEF HandlersType
<1> QED BY <1>1, <1>2, <1>3 DEF TypeOK

-----------------------------------------------------------------------------
(* One replica's step moves its own pc and locals only.                    *)

LEMMA ReplicaStep ==
    ASSUME HandlersType, NEW r \in Replicas, NEW l \in Labels, NEW v \in Locals,
           pc' = [pc EXCEPT ![r] = l], loc' = [loc EXCEPT ![r] = v],
           LocalsFit(l, v, Len(stream)), UNCHANGED stream
    PROVE  HandlersType'
BY DEF HandlersType

LEMMA GotoStep ==
    ASSUME HandlersType, NEW r \in Replicas, NEW l \in Labels, Goto(r, l), UNCHANGED stream,
           LocalsFit(l, loc[r], Len(stream))
    PROVE  HandlersType'
BY DEF HandlersType, Goto

LEMMA ReturnStep ==
    ASSUME HandlersType, NEW r \in Replicas, Return(r), UNCHANGED stream
    PROVE  HandlersType'
BY DEF HandlersType, Return, NoLocals, Locals, Labels, LocalsFit

-----------------------------------------------------------------------------
(* Updates of table alarm.                                                 *)

LEMMA UpdateRow ==
    ASSUME alarm \in [AlarmIds -> AlarmRow], NEW id \in AlarmIds, NEW row \in AlarmRow,
           alarm' = [alarm EXCEPT ![id] = row]
    PROVE  alarm' \in [AlarmIds -> AlarmRow]
OBVIOUS

LEMMA HandlerType ==
    ASSUME TypeOK, NEW r \in Replicas, Handler(r) PROVE TypeOK'
<1> USE MaterializerAssumption
<1> DEFINE id == loc[r].active
<1>a. /\ pc[r] \in Labels /\ loc[r] \in Locals /\ LocalsFit(pc[r], loc[r], Len(stream))
  BY DEF TypeOK, HandlersType
<1>b. pc[r] # "idle" => IntentOf(r) \in Intents
  BY <1>a DEF LocalsFit, IntentOf, TypeOK, BusType
<1>c. pc[r] # "idle" => /\ IntentOf(r).device \in STRING /\ IntentOf(r).type \in STRING
                        /\ IntentOf(r).tenant \in STRING /\ IntentOf(r).severity \in STRING
  BY <1>b
<1>1. CASE FindActiveAlarm(r)
  <2>1. BusType' /\ TablesType' /\ clock' \in Nat /\ faults' \in Nat
    BY <1>1 DEF FindActiveAlarm, TypeOK, BusType, TablesType
  <2>2. PICK l \in Labels, v \in Locals :
           /\ pc' = [pc EXCEPT ![r] = l] /\ loc' = [loc EXCEPT ![r] = v]
           /\ LocalsFit(l, v, Len(stream))
    <3>1. CASE Goto(r, IF IntentOf(r).action = ActionClear THEN "ack" ELSE "insert")
      <4>1. pc[r] # "idle"
        BY <1>1 DEF FindActiveAlarm
      <4>2. PICK l \in {"ack", "insert"} : pc' = [pc EXCEPT ![r] = l]
        BY <3>1 DEF Goto
      <4>3. loc' = [loc EXCEPT ![r] = loc[r]]
        BY <3>1 DEF Goto, TypeOK, HandlersType
      <4>4. l \in Labels /\ LocalsFit(l, loc[r], Len(stream))
        BY <4>1, <1>a DEF Labels, StatementLabels, LocalsFit
      <4> QED BY <4>2, <4>3, <4>4, <1>a
    <3>2. CASE ~Goto(r, IF IntentOf(r).action = ActionClear THEN "ack" ELSE "insert")
      <4>1. PICK x \in AlarmIds :
              /\ loc' = [loc EXCEPT ![r].active = x]
              /\ pc' = [pc EXCEPT ![r] =
                       IF IntentOf(r).action = ActionClear THEN "clear"
                       ELSE IF Escalates(IntentOf(r), alarm[x]) THEN "escalate" ELSE "extend"]
        BY <3>2, <1>1 DEF FindActiveAlarm, ActiveRows
      <4>2. [loc[r] EXCEPT !.active = x] \in Locals /\ [loc[r] EXCEPT !.active = x].active = x
            /\ [loc[r] EXCEPT !.active = x].msg = loc[r].msg
        BY <1>a DEF Locals
      <4>3. pc[r] # "idle"
        BY <1>1 DEF FindActiveAlarm
      <4> QED BY <4>1, <4>2, <4>3, <1>a DEF Labels, StatementLabels, LocalsFit
    <3> QED BY <3>1, <3>2
  <2>3. UNCHANGED stream
    BY <1>1 DEF FindActiveAlarm
  <2> QED BY <2>1, <2>2, <2>3, ReplicaStep DEF TypeOK
<1>2. CASE ClearAlarm(r)
  <2>1. id \in AlarmIds
    BY <1>a, <1>2 DEF ClearAlarm, LocalsFit
  <2>2. alarm' \in [AlarmIds -> AlarmRow]
    <3> DEFINE row == [alarm[id] EXCEPT !.state = "cleared", !.clearTs = loc[r].now,
                           !.endTs = IF loc[r].now > @ THEN loc[r].now ELSE @]
    <3>1. alarm[id] \in AlarmRow /\ loc[r].now \in Nat
      BY <1>a, <2>1 DEF TypeOK, TablesType, Locals
    <3>2. row \in AlarmRow
      BY <3>1 DEF AlarmRow
    <3>3. alarm' = [alarm EXCEPT ![id] = row] \/ alarm' = alarm
      BY <1>2 DEF ClearAlarm
    <3> HIDE DEF row
    <3> QED BY <3>2, <3>3, <2>1 DEF TypeOK, TablesType
  <2>3. HandlersType'
    BY <1>2, <1>a, GotoStep DEF ClearAlarm, TypeOK, Labels, StatementLabels, LocalsFit
  <2> QED BY <1>2, <2>2, <2>3 DEF ClearAlarm, TypeOK, BusType, TablesType
<1>3. CASE EscalateAlarm(r)
  <2>1. id \in AlarmIds /\ pc[r] # "idle"
    BY <1>a, <1>3 DEF EscalateAlarm, LocalsFit
  <2>2. alarm' \in [AlarmIds -> AlarmRow]
    <3> DEFINE row == [alarm[id] EXCEPT !.endTs = loc[r].now, !.severity = IntentOf(r).severity]
    <3>1. alarm[id] \in AlarmRow /\ loc[r].now \in Nat
      BY <1>a, <2>1 DEF TypeOK, TablesType, Locals
    <3>2. row \in AlarmRow
      BY <3>1, <2>1, <1>c DEF AlarmRow, Text
    <3>3. alarm' = [alarm EXCEPT ![id] = row] \/ alarm' = alarm
      BY <1>3 DEF EscalateAlarm
    <3> HIDE DEF row
    <3> QED BY <3>2, <3>3, <2>1 DEF TypeOK, TablesType
  <2>3. HandlersType'
    BY <1>3, <1>a, GotoStep DEF EscalateAlarm, TypeOK, Labels, StatementLabels, LocalsFit
  <2> QED BY <1>3, <2>2, <2>3 DEF EscalateAlarm, TypeOK, BusType, TablesType
<1>4. CASE ExtendAlarm(r)
  <2>1. id \in AlarmIds
    BY <1>a, <1>4 DEF ExtendAlarm, LocalsFit
  <2>2. alarm' \in [AlarmIds -> AlarmRow]
    <3> DEFINE row == [alarm[id] EXCEPT !.endTs = loc[r].now]
    <3>1. alarm[id] \in AlarmRow /\ loc[r].now \in Nat
      BY <1>a, <2>1 DEF TypeOK, TablesType, Locals
    <3>2. row \in AlarmRow
      BY <3>1 DEF AlarmRow
    <3>3. alarm' = [alarm EXCEPT ![id] = row] \/ alarm' = alarm
      BY <1>4 DEF ExtendAlarm
    <3> HIDE DEF row
    <3> QED BY <3>2, <3>3, <2>1 DEF TypeOK, TablesType
  <2>3. HandlersType'
    BY <1>4, <1>a, GotoStep DEF ExtendAlarm, TypeOK, Labels, StatementLabels, LocalsFit
  <2> QED BY <1>4, <2>2, <2>3 DEF ExtendAlarm, TypeOK, BusType, TablesType
<1>5. CASE InsertAlarm(r)
  <2>1. CASE IntentOf(r).device \in live /\ Owner[IntentOf(r).device] = IntentOf(r).tenant
    <3>1. PICK x \in AlarmIds :
            /\ alarm' = [alarm EXCEPT ![x] =
                 [state |-> "active", device |-> IntentOf(r).device, type |-> IntentOf(r).type,
                  tenant |-> IntentOf(r).tenant, severity |-> IntentOf(r).severity,
                  startTs |-> loc[r].now, endTs |-> loc[r].now, clearTs |-> 0,
                  acknowledged |-> FALSE]]
            /\ loc' = [loc EXCEPT ![r].active = x]
            /\ events' = events \cup {x}
            /\ pc' = [pc EXCEPT ![r] = "link"]
      BY <2>1, <1>5 DEF InsertAlarm
    <3>2. pc[r] # "idle"
      BY <1>5 DEF InsertAlarm
    <3>3. alarm' \in [AlarmIds -> AlarmRow]
      BY <3>1, <3>2, <1>a, <1>c DEF TypeOK, TablesType, AlarmRow, Text, Locals
    <3>4. [loc[r] EXCEPT !.active = x] \in Locals /\ LocalsFit("link", [loc[r] EXCEPT !.active = x], Len(stream))
      BY <1>a, <3>2 DEF Locals, LocalsFit
    <3>5. HandlersType'
      BY <1>5, <3>1, <3>4, ReplicaStep DEF InsertAlarm, TypeOK, Labels, StatementLabels
    <3> QED BY <1>5, <3>1, <3>3, <3>5 DEF InsertAlarm, TypeOK, BusType, TablesType
  <2>2. CASE ~(IntentOf(r).device \in live /\ Owner[IntentOf(r).device] = IntentOf(r).tenant)
    <3>1. Goto(r, "ack") /\ UNCHANGED <<alarm, events>>
      BY <2>2, <1>5 DEF InsertAlarm
    <3>2. HandlersType'
      BY <1>5, <3>1, <1>a, GotoStep DEF InsertAlarm, TypeOK, Labels, LocalsFit
    <3> QED BY <1>5, <3>1, <3>2 DEF InsertAlarm, TypeOK, BusType, TablesType
  <2> QED BY <2>1, <2>2
<1>6. CASE LinkEntityAlarm(r)
  <2>1. id \in AlarmIds /\ pc[r] # "idle"
    BY <1>a, <1>6 DEF LinkEntityAlarm, LocalsFit
  <2>2. HandlersType'
    BY <1>6, <1>a, GotoStep, ReturnStep DEF LinkEntityAlarm, TypeOK, Labels, StatementLabels, LocalsFit
  <2>3. entityAlarm' \subseteq (STRING \X AlarmIds) /\ events' \subseteq AlarmIds
    BY <1>6, <2>1, <1>c DEF LinkEntityAlarm, TypeOK, TablesType
  <2> QED BY <1>6, <2>2, <2>3 DEF LinkEntityAlarm, TypeOK, BusType, TablesType
<1>7. CASE WalkAncestors(r)
  <2>1. [loc[r] EXCEPT !.todo = Ancestors(IntentOf(r).device)] \in Locals
    BY <1>a, AncestorsType DEF Locals
  <2>2. LocalsFit("keyid", [loc[r] EXCEPT !.todo = Ancestors(IntentOf(r).device)], Len(stream))
    BY <1>a, <1>7 DEF WalkAncestors, LocalsFit, Locals
  <2>3. HandlersType'
    BY <1>7, <2>1, <2>2, ReplicaStep DEF WalkAncestors, TypeOK, Labels
  <2> QED BY <1>7, <2>3 DEF WalkAncestors, TypeOK, BusType, TablesType
<1>8. CASE ResolveKey(r)
  <2>1. HandlersType'
    BY <1>8, <1>a, GotoStep DEF ResolveKey, TypeOK, Labels, StatementLabels, LocalsFit
  <2> QED BY <1>8, <2>1 DEF ResolveKey, TypeOK, BusType, TablesType
<1>9. CASE CountBelow(r)
  <2>1. HandlersType'
    <3>1. CASE Goto(r, "ack")
      BY <3>1, <1>9, <1>a, GotoStep DEF CountBelow, TypeOK, Labels, LocalsFit
    <3>2. CASE ~Goto(r, "ack")
      <4>1. PICK a \in loc[r].todo :
              /\ loc' = [loc EXCEPT ![r].asset = a, ![r].todo = @ \ {a},
                                    ![r].count = ActiveBelow(a, IntentOf(r).tenant)]
              /\ pc' = [pc EXCEPT ![r] = "upsert"]
        BY <3>2, <1>9 DEF CountBelow
      <4> DEFINE v == [loc[r] EXCEPT !.asset = a, !.todo = @ \ {a},
                                     !.count = ActiveBelow(a, IntentOf(r).tenant)]
      <4>2. a \in Assets /\ ActiveBelow(a, IntentOf(r).tenant) \in Nat
        BY <1>a, ActiveBelowType DEF Locals
      <4>3. v \in Locals /\ v.asset = a /\ v.msg = loc[r].msg
        BY <1>a, <4>2 DEF Locals
      <4>4. LocalsFit("upsert", v, Len(stream))
        BY <4>2, <4>3, <1>a, <1>9 DEF CountBelow, LocalsFit
      <4>5. loc' = [loc EXCEPT ![r] = v]
        BY <4>1
      <4> HIDE DEF v
      <4> QED BY <1>9, <4>1, <4>3, <4>4, <4>5, ReplicaStep DEF CountBelow, TypeOK, Labels, StatementLabels
    <3> QED BY <3>1, <3>2
  <2> QED BY <1>9, <2>1 DEF CountBelow, TypeOK, BusType, TablesType
<1>10. CASE UpsertCount(r)
  <2>1. [loc[r] EXCEPT !.asset = NoAlarm, !.count = 0] \in Locals
    BY <1>a DEF Locals
  <2>2. LocalsFit("count", [loc[r] EXCEPT !.asset = NoAlarm, !.count = 0], Len(stream))
    BY <1>a, <1>10 DEF UpsertCount, LocalsFit, Locals
  <2>3. HandlersType'
    BY <1>10, <2>1, <2>2, ReplicaStep DEF UpsertCount, TypeOK, Labels, StatementLabels
  <2>4. alarmCount' \in [Assets -> Nat]
    BY <1>10, <1>a DEF UpsertCount, TypeOK, TablesType, LocalsFit, Locals
  <2> QED BY <1>10, <2>3, <2>4 DEF UpsertCount, TypeOK, BusType, TablesType
<1>11. CASE Ack(r)
  <2>1. loc[r].msg \in 1..Len(stream)
    BY <1>a, <1>11 DEF Ack, LocalsFit
  <2>2. HandlersType'
    BY <1>11, ReturnStep DEF Ack, TypeOK
  <2> QED BY <1>11, <2>1, <2>2 DEF Ack, TypeOK, BusType, TablesType
<1> QED
  BY <1>1, <1>2, <1>3, <1>4, <1>5, <1>6, <1>7, <1>8, <1>9, <1>10, <1>11 DEF Handler

\* An append to the stream leaves the messages already in it alone.
LEMMA AppendKeeps ==
    ASSUME NEW s \in Seq(Intents), NEW i \in Intents
    PROVE  /\ Append(s, i) \in Seq(Intents)
           /\ Len(Append(s, i)) = Len(s) + 1 /\ Len(s) \in Nat
           /\ \A m \in 1..Len(s) : m \in 1..Len(Append(s, i)) /\ Append(s, i)[m] = s[m]
OBVIOUS

LEMMA PublishType == ASSUME TypeOK, NEW i \in Intents, Publish(i) PROVE TypeOK'
<1>1. BusType'
  BY AppendKeeps DEF Publish, TypeOK, BusType
<1>2. HandlersType'
  <2>1. \A v : v \in 1..Len(stream) => v \in 1..Len(stream')
    BY AppendKeeps DEF Publish, TypeOK, BusType
  <2> QED BY <2>1 DEF Publish, TypeOK, HandlersType, LocalsFit
<1> QED BY <1>1, <1>2 DEF Publish, TypeOK, TablesType

LEMMA DeliverType ==
    ASSUME TypeOK, NEW r \in Replicas, NEW m \in 1..Len(stream), Deliver(r, m) PROVE TypeOK'
<1> USE DEF Deliver
<1>1. BusType'
  BY DEF TypeOK, BusType
<1>2. HandlersType'
  <2>1. CASE Validate(stream[m])
    <3> DEFINE v == [loc[r] EXCEPT !.msg = m, !.now = clock]
    <3>0. loc[r] \in Locals /\ m \in Nat /\ clock \in Nat
      BY DEF TypeOK, HandlersType, BusType
    <3>1. v \in Locals /\ v.msg = m
      BY <3>0 DEF Locals
    <3>2. LocalsFit("find", v, Len(stream))
      BY <3>1 DEF LocalsFit
    <3>3. pc' = [pc EXCEPT ![r] = "find"] /\ loc' = [loc EXCEPT ![r] = v]
      BY <2>1
    <3> HIDE DEF v
    <3> QED BY <3>1, <3>2, <3>3, ReplicaStep DEF TypeOK, Labels, StatementLabels
  <2>2. CASE ~Validate(stream[m])
    BY <2>2 DEF TypeOK, HandlersType
  <2> QED BY <2>1, <2>2
<1> QED BY <1>1, <1>2 DEF TypeOK, TablesType

LEMMA FaultType ==
    ASSUME TypeOK, NEW r \in Replicas, FaultStep(r) PROVE TypeOK'
<1> USE DEF FaultStep, StatementFails, Crash, AckLost, KeyDictFails, Fault
<1>1. UNCHANGED <<alarm, entityAlarm, alarmCount, live, doomed, deleting, events, stream,
                  delivered, clock, unacked, acked>>
      /\ faults' = faults + 1
  OBVIOUS
<1>2. HandlersType'
  <2>1. CASE Return(r)
    BY <1>1, <2>1, ReturnStep DEF TypeOK
  <2>2. CASE KeyDictFails(r)
    BY <1>1, <2>2, GotoStep DEF TypeOK, HandlersType, LocalsFit, Labels
  <2> QED BY <2>1, <2>2
<1> QED BY <1>1, <1>2 DEF TypeOK, BusType, TablesType

LEMMA OperatorType == ASSUME TypeOK, Operator PROVE TypeOK'
<1>1. ASSUME NEW id \in AlarmIds, AckByOperator(id) PROVE TypeOK'
  <2>1. [alarm[id] EXCEPT !.acknowledged = TRUE] \in AlarmRow
    BY DEF TypeOK, TablesType, AlarmRow
  <2> QED BY <1>1, <2>1 DEF AckByOperator, TypeOK, TablesType, BusType, HandlersType
<1>2. ASSUME NEW id \in AlarmIds, ClearByOperator(id) PROVE TypeOK'
  <2> DEFINE row == [alarm[id] EXCEPT !.state = "cleared", !.clearTs = clock]
  <2>1. row \in AlarmRow
    BY DEF TypeOK, TablesType, AlarmRow
  <2>2. alarm' = [alarm EXCEPT ![id] = row]
    BY <1>2 DEF ClearByOperator
  <2> HIDE DEF row
  <2> QED BY <1>2, <2>1, <2>2 DEF ClearByOperator, TypeOK, TablesType, BusType, HandlersType
<1>3. ASSUME NEW id \in AlarmIds, Retention(id) PROVE TypeOK'
  <2>1. [alarm[id] EXCEPT !.state = "deleted"] \in AlarmRow
    BY DEF TypeOK, TablesType, AlarmRow
  <2> QED BY <1>3, <2>1 DEF Retention, TypeOK, TablesType, BusType, HandlersType
<1>4. ASSUME NEW d \in Devices, DeleteDeviceAlarms(d) PROVE TypeOK'
  BY <1>4 DEF DeleteDeviceAlarms, TypeOK, TablesType, BusType, HandlersType
<1>5. ASSUME NEW d \in Devices, CommitDeviceDelete(d) PROVE TypeOK'
  <2>1. \A id \in AlarmIds : [alarm[id] EXCEPT !.state = "deleted"] \in AlarmRow
    BY DEF TypeOK, TablesType, AlarmRow
  <2>2. alarm' \in [AlarmIds -> AlarmRow]
    BY <1>5, <2>1 DEF CommitDeviceDelete, TypeOK, TablesType
  <2> QED BY <1>5, <2>2 DEF CommitDeviceDelete, TypeOK, TablesType, BusType, HandlersType
<1>6. ASSUME NEW d \in Devices, AbortDeviceDelete(d) PROVE TypeOK'
  BY <1>6 DEF AbortDeviceDelete, TypeOK, TablesType, BusType, HandlersType, Fault
<1> QED BY <1>1, <1>2, <1>3, <1>4, <1>5, <1>6 DEF Operator

LEMMA StepType == TypeOK /\ [Next]_vars => TypeOK'
<1> SUFFICES ASSUME TypeOK, [Next]_vars PROVE TypeOK'
  OBVIOUS
<1>1. CASE Tick
  BY <1>1 DEF Tick, TypeOK, BusType, TablesType, HandlersType
<1>2. CASE UNCHANGED vars
  BY <1>2 DEF TypeOK, BusType, TablesType, HandlersType
<1> QED BY <1>1, <1>2, PublishType, DeliverType, HandlerType, FaultType, OperatorType DEF Next

(* Whatever replicas, operators and faults do, the state stays of its type: *)
(* in particular a handler about to update or link a row holds a row's id.  *)
THEOREM TypeCorrect == Spec => []TypeOK
BY InitType, StepType, PTL DEF Spec

-----------------------------------------------------------------------------
(* One active alarm per device and type, with a single replica.  The        *)
(* invariant is not inductive by itself: an insert is safe because nothing  *)
(* has inserted a row since the lookup that found none.                     *)

\* What the lookup of an inserting handler saw still holds.
LookupHolds ==
    \A r \in Replicas :
        pc[r] = "insert" => ActiveRows(IntentOf(r).device, IntentOf(r).type) = {}

\* No row becomes active or changes its device or type.
NoneRaised ==
    \A id \in AlarmIds : alarm'[id].state = "active" =>
        /\ alarm[id].state = "active"
        /\ alarm'[id].device = alarm[id].device /\ alarm'[id].type = alarm[id].type

LEMMA NoneRaisedKeeps ==
    ASSUME OneActivePerType, NoneRaised PROVE OneActivePerType'
BY DEF OneActivePerType, NoneRaised

LEMMA NoneRaisedLookup ==
    ASSUME NoneRaised, NEW d, NEW t, ActiveRows(d, t) = {} PROVE ActiveRows(d, t)' = {}
BY DEF NoneRaised, ActiveRows

\* Only InsertAlarm raises an alarm.
LEMMA OnlyInsertRaises ==
    ASSUME TypeOK, Next, \A r \in Replicas : ~InsertAlarm(r) PROVE NoneRaised
<1> USE DEF NoneRaised
<1>1. \A id \in AlarmIds : alarm[id] \in AlarmRow
  BY DEF TypeOK, TablesType
<1>2. ASSUME UNCHANGED alarm PROVE NoneRaised
  BY <1>2
<1>3. ASSUME NEW r \in Replicas, ClearAlarm(r) PROVE NoneRaised
  BY <1>1, <1>3 DEF ClearAlarm, TypeOK, TablesType, AlarmRow
<1>4. ASSUME NEW r \in Replicas, EscalateAlarm(r) PROVE NoneRaised
  BY <1>1, <1>4 DEF EscalateAlarm, TypeOK, TablesType, AlarmRow
<1>5. ASSUME NEW r \in Replicas, ExtendAlarm(r) PROVE NoneRaised
  BY <1>1, <1>5 DEF ExtendAlarm, TypeOK, TablesType, AlarmRow
<1>6. ASSUME NEW id \in AlarmIds, AckByOperator(id) PROVE NoneRaised
  BY <1>1, <1>6 DEF AckByOperator, TypeOK, TablesType, AlarmRow
<1>7. ASSUME NEW id \in AlarmIds, ClearByOperator(id) PROVE NoneRaised
  BY <1>1, <1>7 DEF ClearByOperator, TypeOK, TablesType, AlarmRow
<1>8. ASSUME NEW id \in AlarmIds, Retention(id) PROVE NoneRaised
  BY <1>1, <1>8 DEF Retention, TypeOK, TablesType, AlarmRow
<1>9. ASSUME NEW d \in Devices, CommitDeviceDelete(d) PROVE NoneRaised
  BY <1>1, <1>9 DEF CommitDeviceDelete, TypeOK, TablesType, AlarmRow
<1>10. ASSUME NEW r \in Replicas, NEW m \in 1..Len(stream), Deliver(r, m) PROVE UNCHANGED alarm
  BY <1>10 DEF Deliver
<1>11. ASSUME NEW r \in Replicas,
              \/ FindActiveAlarm(r) \/ LinkEntityAlarm(r) \/ WalkAncestors(r) \/ ResolveKey(r)
              \/ CountBelow(r) \/ UpsertCount(r) \/ Ack(r)
       PROVE UNCHANGED alarm
  BY <1>11 DEF FindActiveAlarm, LinkEntityAlarm, WalkAncestors, ResolveKey, CountBelow, UpsertCount, Ack
<1>12. ASSUME NEW r \in Replicas, FaultStep(r) PROVE UNCHANGED alarm
  BY <1>12 DEF FaultStep, StatementFails, Crash, AckLost, KeyDictFails
<1>13. ASSUME NEW d \in Devices, DeleteDeviceAlarms(d) \/ AbortDeviceDelete(d) PROVE UNCHANGED alarm
  BY <1>13 DEF DeleteDeviceAlarms, AbortDeviceDelete
<1>14. ASSUME NEW i \in Intents, Publish(i) PROVE UNCHANGED alarm
  BY <1>14 DEF Publish
<1>15. CASE Tick
  BY <1>15, <1>2 DEF Tick
<1>16. CASE Operator
  BY <1>2, <1>6, <1>7, <1>8, <1>9, <1>13, <1>16 DEF Operator
<1>17. ASSUME NEW r \in Replicas, Handler(r) PROVE NoneRaised
  BY <1>2, <1>3, <1>4, <1>5, <1>11, <1>17 DEF Handler
<1> QED BY <1>2, <1>10, <1>12, <1>14, <1>15, <1>16, <1>17 DEF Next

\* A handler that inserts got there by a lookup, or was there before.
LEMMA InsertFollowsLookup ==
    ASSUME TypeOK, [Next]_vars, NEW r \in Replicas, pc'[r] = "insert"
    PROVE  /\ IntentOf(r)' = IntentOf(r)
           /\ \/ pc[r] = "insert"
              \/ /\ UNCHANGED alarm
                 /\ ActiveRows(IntentOf(r).device, IntentOf(r).type) = {}
<1> USE DEF TypeOK, HandlersType, IntentOf
<1>1. CASE UNCHANGED vars
  BY <1>1
<1>2. ASSUME NEW i \in Intents, Publish(i)
      PROVE  pc[r] = "insert" /\ IntentOf(r)' = IntentOf(r)
  <2>1. pc[r] = "insert" /\ loc'[r] = loc[r] /\ loc[r].msg \in 1..Len(stream)
    BY <1>2 DEF Publish, LocalsFit
  <2>2. stream'[loc[r].msg] = stream[loc[r].msg]
    BY <1>2, <2>1, AppendKeeps DEF Publish, BusType
  <2> QED BY <2>1, <2>2
<1>3. CASE Tick \/ Operator
  BY <1>3 DEF Tick, Operator, AckByOperator, ClearByOperator, Retention, DeleteDeviceAlarms,
              CommitDeviceDelete, AbortDeviceDelete
<1>4. ASSUME NEW s \in Replicas, NEW m \in 1..Len(stream), Deliver(s, m)
      PROVE  s # r /\ UNCHANGED <<stream, alarm>> /\ pc'[r] = pc[r] /\ loc'[r] = loc[r]
  BY <1>4 DEF Deliver
<1>5. ASSUME NEW s \in Replicas, FaultStep(s)
      PROVE  s # r /\ UNCHANGED <<stream, alarm>> /\ pc'[r] = pc[r] /\ loc'[r] = loc[r]
  BY <1>5 DEF FaultStep, StatementFails, Crash, AckLost, KeyDictFails, Goto, Return
<1>6. ASSUME NEW s \in Replicas, Handler(s), ~FindActiveAlarm(s)
      PROVE  UNCHANGED stream /\ pc'[r] = pc[r] /\ loc'[r] = loc[r]
  BY <1>6 DEF Handler, ClearAlarm, EscalateAlarm, ExtendAlarm, InsertAlarm, LinkEntityAlarm,
              WalkAncestors, ResolveKey, CountBelow, UpsertCount, Ack, Goto, Return
<1>7. ASSUME NEW s \in Replicas, FindActiveAlarm(s), s # r
      PROVE  UNCHANGED <<stream, alarm>> /\ pc'[r] = pc[r] /\ loc'[r] = loc[r]
  BY <1>7 DEF FindActiveAlarm, Goto
<1>8. CASE FindActiveAlarm(r)
  BY <1>8 DEF FindActiveAlarm, Goto
<1> QED BY <1>1, <1>2, <1>3, <1>4, <1>5, <1>6, <1>7, <1>8 DEF Next

LEMMA SingleReplicaStep ==
    ASSUME \A r, s \in Replicas : r = s, TypeOK, OneActivePerType, LookupHolds, [Next]_vars
    PROVE  OneActivePerType' /\ LookupHolds'
<1>1. CASE \E r \in Replicas : InsertAlarm(r)
  <2>1. PICK r \in Replicas : InsertAlarm(r)
    BY <1>1
  <2> DEFINE d == IntentOf(r).device
             t == IntentOf(r).type
  <2>2. ActiveRows(d, t) = {}
    BY <2>1 DEF InsertAlarm, LookupHolds
  <2>3. LookupHolds'
    <3>1. pc'[r] # "insert"
      BY <2>1 DEF InsertAlarm, Goto, TypeOK, HandlersType
    <3> QED BY <3>1 DEF LookupHolds
  <2>4. CASE UNCHANGED alarm
    BY <2>3, <2>4 DEF OneActivePerType
  <2>5. CASE ~UNCHANGED alarm
    <3>1. PICK x \in AlarmIds, row \in AlarmRow :
            alarm' = [alarm EXCEPT ![x] = row] /\ row.device = d /\ row.type = t
      <4>1. pc[r] # "idle" /\ IntentOf(r) \in Intents /\ loc[r] \in Locals
        BY <2>1 DEF InsertAlarm, TypeOK, BusType, HandlersType, LocalsFit, IntentOf
      <4> DEFINE new == [state |-> "active", device |-> IntentOf(r).device,
                    type |-> IntentOf(r).type, tenant |-> IntentOf(r).tenant,
                    severity |-> IntentOf(r).severity, startTs |-> loc[r].now,
                    endTs |-> loc[r].now, clearTs |-> 0, acknowledged |-> FALSE]
      <4>2. new \in AlarmRow /\ new.device = d /\ new.type = t
        BY <4>1, MaterializerAssumption DEF AlarmRow, Text, Locals
      <4>3. \E x \in AlarmIds : alarm' = [alarm EXCEPT ![x] = new]
        BY <2>1, <2>5 DEF InsertAlarm
      <4> HIDE DEF new
      <4> QED BY <4>2, <4>3
    <3>2. \A y \in AlarmIds \ {x} : alarm'[y] = alarm[y]
      BY <3>1 DEF TypeOK, TablesType
    <3>3. alarm'[x].device = d /\ alarm'[x].type = t
      BY <3>1 DEF TypeOK, TablesType
    <3>4. \A y \in AlarmIds \ {x} :
            ~(alarm'[y].state = "active" /\ alarm'[y].device = d /\ alarm'[y].type = t)
      BY <2>2, <3>2 DEF ActiveRows
    <3>5. OneActivePerType'
      BY <3>2, <3>3, <3>4 DEF OneActivePerType
    <3> QED BY <2>3, <3>5
  <2> QED BY <2>4, <2>5
<1>2. CASE \A r \in Replicas : ~InsertAlarm(r)
  <2>1. NoneRaised
    BY <1>2, OnlyInsertRaises DEF NoneRaised
  <2>2. OneActivePerType'
    BY <2>1, NoneRaisedKeeps
  <2>3. ASSUME NEW r \in Replicas, pc'[r] = "insert"
        PROVE  (ActiveRows(IntentOf(r).device, IntentOf(r).type) = {})'
    <3>1. /\ IntentOf(r)' = IntentOf(r)
          /\ ActiveRows(IntentOf(r).device, IntentOf(r).type) = {}
      BY <2>3, InsertFollowsLookup DEF LookupHolds
    <3> QED BY <3>1, <2>1, NoneRaisedLookup
  <2> QED BY <2>2, <2>3 DEF LookupHolds
<1> QED BY <1>1, <1>2

(* With one replica, no two alarms of one device and type are ever active   *)
(* at once, whatever fails and whatever operators do: ApplyIntent's lookup  *)
(* and insert need no transaction and no unique index.  The hypothesis is   *)
(* needed: run alarm_two_replicas breaks the property with two.             *)
THEOREM SingleReplica ==
    ASSUME \A r, s \in Replicas : r = s
    PROVE  Spec => []OneActivePerType
<1>1. Init => OneActivePerType /\ LookupHolds
  <2> SUFFICES ASSUME Init PROVE OneActivePerType /\ LookupHolds
    OBVIOUS
  <2>1. \A id \in AlarmIds : alarm[id].state = "free"
    BY DEF Init, Free
  <2>2. \A r \in Replicas : pc[r] = "idle"
    BY DEF Init
  <2> QED BY <2>1, <2>2 DEF OneActivePerType, LookupHolds
<1>2. TypeOK /\ OneActivePerType /\ LookupHolds /\ [Next]_vars
      => OneActivePerType' /\ LookupHolds'
  BY SingleReplicaStep
<1> QED BY <1>1, <1>2, TypeCorrect, PTL DEF Spec
-----------------------------------------------------------------------------
(* What the handler of a single replica read stays good until it writes.    *)

Single == \A r, s \in Replicas : r = s

LEMMA RankType == ASSUME NEW s PROVE severityRank(s) \in Int
BY DEF severityRank

\* A handler's clock reading is not ahead of the clock, and no row ends after
\* the reading of a handler at work: earlier handlers read the clock earlier.
Ordered ==
    /\ \A id \in AlarmIds : alarm[id].endTs <= clock
    /\ \A r \in Replicas : pc[r] # "idle" =>
          /\ loc[r].now <= clock
          /\ \A id \in AlarmIds : alarm[id].endTs <= loc[r].now

\* The row that a handler is about to update is what its lookup found, or an
\* operator cleared it since (so that retention spares it), or its device went.
FoundStill(row, i, now) ==
    /\ row.state # "free" /\ row.device = i.device /\ row.type = i.type
    /\ row.state = "cleared" => row.clearTs >= now
    /\ row.state = "deleted" => row.device \notin live

Found ==
    \A r \in Replicas :
        /\ pc[r] \in {"escalate", "extend"} =>
              FoundStill(alarm[loc[r].active], IntentOf(r), loc[r].now)
        /\ pc[r] = "escalate" => Escalates(IntentOf(r), alarm[loc[r].active])
        /\ pc[r] = "extend" => ~Escalates(IntentOf(r), alarm[loc[r].active])
        /\ pc[r] = "clear" => IntentOf(r).action = ActionClear

\* A row of the intent's device and type has at least its severity, or there
\* is no device of that tenant to hang one on.
Materialized(i) ==
    \/ i.device \notin live \/ Owner[i.device] # i.tenant
    \/ \E id \in AlarmIds :
          /\ alarm[id].state # "free"
          /\ alarm[id].device = i.device /\ alarm[id].type = i.type
          /\ severityRank(alarm[id].severity) >= severityRank(i.severity)

AppliedLabels == {"link", "walk", "keyid", "count", "upsert", "ack"}

Applied ==
    \A r \in Replicas :
        pc[r] \in AppliedLabels /\ IntentOf(r).action = ActionCreateOrUpdate
            => Materialized(IntentOf(r))

\* A row keeps its alarm, and its severity and its end only rise.
Risen(old, new) ==
    /\ new.state # "free" /\ new.device = old.device /\ new.type = old.type
    /\ severityRank(new.severity) >= severityRank(old.severity)
    /\ new.endTs >= old.endTs

RowsRise == \A id \in AlarmIds : alarm[id].state # "free" => Risen(alarm[id], alarm'[id])

LEMMA RisenReflexive ==
    ASSUME NEW row \in AlarmRow, row.state # "free" PROVE Risen(row, row)
BY RankType DEF Risen, AlarmRow

LEMMA UnchangedRise == ASSUME TypeOK, UNCHANGED alarm PROVE RowsRise
BY RisenReflexive DEF RowsRise, TypeOK, TablesType

\* A step that writes one row, and raises it if it was one, raises them all.
LEMMA OneRowRises ==
    ASSUME TypeOK, NEW id \in AlarmIds, NEW row, alarm' = [alarm EXCEPT ![id] = row],
           alarm[id].state # "free" => Risen(alarm[id], row)
    PROVE  RowsRise
BY RisenReflexive DEF RowsRise, TypeOK, TablesType

LEMMA HandlerRises ==
    ASSUME TypeOK, Ordered, Found, NEW r \in Replicas, Handler(r) PROVE RowsRise
<1> DEFINE id == loc[r].active
<1>a. pc[r] \in Labels /\ loc[r] \in Locals /\ LocalsFit(pc[r], loc[r], Len(stream))
  BY DEF TypeOK, HandlersType
<1>b. loc[r].now \in Nat /\ \A x \in AlarmIds : alarm[x] \in AlarmRow
  BY <1>a DEF Locals, TypeOK, TablesType
<1>1. CASE ClearAlarm(r)
  <2>1. id \in AlarmIds
    BY <1>a, <1>1 DEF ClearAlarm, LocalsFit
  <2> DEFINE row == [alarm[id] EXCEPT !.state = "cleared", !.clearTs = loc[r].now,
                         !.endTs = IF loc[r].now > @ THEN loc[r].now ELSE @]
  <2>2. Risen(alarm[id], row)
    BY <1>b, <2>1, RankType DEF Risen, AlarmRow
  <2>3. alarm' = [alarm EXCEPT ![id] = row] \/ alarm' = alarm
    BY <1>1 DEF ClearAlarm
  <2> HIDE DEF row
  <2> QED BY <2>1, <2>2, <2>3, OneRowRises, UnchangedRise
<1>2. CASE EscalateAlarm(r)
  <2>1. id \in AlarmIds /\ pc[r] = "escalate"
    BY <1>a, <1>2 DEF EscalateAlarm, LocalsFit
  <2> DEFINE row == [alarm[id] EXCEPT !.endTs = loc[r].now, !.severity = IntentOf(r).severity]
  <2>2. /\ row.state = alarm[id].state /\ row.device = alarm[id].device
        /\ row.type = alarm[id].type /\ row.endTs = loc[r].now
        /\ row.severity = IntentOf(r).severity
    BY <1>b, <2>1 DEF AlarmRow
  <2>3. alarm[id].endTs <= loc[r].now
    BY <2>1 DEF Ordered
  <2>4. severityRank(IntentOf(r).severity) > severityRank(alarm[id].severity)
    BY <2>1 DEF Found, Escalates
  <2>5. alarm' = [alarm EXCEPT ![id] = row] \/ alarm' = alarm
    BY <1>2 DEF EscalateAlarm
  <2> HIDE DEF row
  <2>6. alarm[id].state # "free" => Risen(alarm[id], row)
    BY <1>b, <2>1, <2>2, <2>3, <2>4, RankType DEF Risen, AlarmRow
  <2> QED BY <2>1, <2>5, <2>6, OneRowRises, UnchangedRise
<1>3. CASE ExtendAlarm(r)
  <2>1. id \in AlarmIds /\ pc[r] = "extend"
    BY <1>a, <1>3 DEF ExtendAlarm, LocalsFit
  <2> DEFINE row == [alarm[id] EXCEPT !.endTs = loc[r].now]
  <2>2. alarm[id].state # "free" => Risen(alarm[id], row)
    BY <1>b, <2>1, RankType DEF Risen, AlarmRow, Ordered
  <2>3. alarm' = [alarm EXCEPT ![id] = row] \/ alarm' = alarm
    BY <1>3 DEF ExtendAlarm
  <2> HIDE DEF row
  <2> QED BY <2>1, <2>2, <2>3, OneRowRises, UnchangedRise
<1>4. CASE InsertAlarm(r)
  <2>1. \/ UNCHANGED alarm
        \/ \E x \in AlarmIds : alarm[x].state = "free" /\ \E row : alarm' = [alarm EXCEPT ![x] = row]
    BY <1>4 DEF InsertAlarm
  <2> QED BY <2>1, OneRowRises, UnchangedRise
<1>5. CASE \/ FindActiveAlarm(r) \/ LinkEntityAlarm(r) \/ WalkAncestors(r) \/ ResolveKey(r)
           \/ CountBelow(r) \/ UpsertCount(r) \/ Ack(r)
  <2>1. UNCHANGED alarm
    BY <1>5 DEF FindActiveAlarm, LinkEntityAlarm, WalkAncestors, ResolveKey, CountBelow, UpsertCount, Ack
  <2> QED BY <2>1, UnchangedRise
<1> QED BY <1>1, <1>2, <1>3, <1>4, <1>5 DEF Handler

LEMMA OperatorRises == ASSUME TypeOK, Operator PROVE RowsRise
<1>a. \A x \in AlarmIds : alarm[x] \in AlarmRow
  BY DEF TypeOK, TablesType
<1>1. ASSUME NEW id \in AlarmIds, AckByOperator(id) PROVE RowsRise
  <2>1. Risen(alarm[id], [alarm[id] EXCEPT !.acknowledged = TRUE])
    BY <1>1, <1>a, RankType DEF AckByOperator, IsRow, Risen, AlarmRow
  <2>2. alarm' = [alarm EXCEPT ![id] = [alarm[id] EXCEPT !.acknowledged = TRUE]]
    BY <1>1 DEF AckByOperator
  <2> QED BY <2>1, <2>2, OneRowRises
<1>2. ASSUME NEW id \in AlarmIds, ClearByOperator(id) PROVE RowsRise
  <2> DEFINE row == [alarm[id] EXCEPT !.state = "cleared", !.clearTs = clock]
  <2>1. Risen(alarm[id], row)
    BY <1>2, <1>a, RankType DEF ClearByOperator, IsRow, Risen, AlarmRow
  <2>2. alarm' = [alarm EXCEPT ![id] = row]
    BY <1>2 DEF ClearByOperator
  <2> HIDE DEF row
  <2> QED BY <2>1, <2>2, OneRowRises
<1>3. ASSUME NEW id \in AlarmIds, Retention(id) PROVE RowsRise
  <2>1. Risen(alarm[id], [alarm[id] EXCEPT !.state = "deleted"])
    BY <1>3, <1>a, RankType DEF Retention, Risen, AlarmRow
  <2>2. alarm' = [alarm EXCEPT ![id] = [alarm[id] EXCEPT !.state = "deleted"]]
    BY <1>3 DEF Retention
  <2> QED BY <2>1, <2>2, OneRowRises
<1>4. ASSUME NEW d \in Devices, CommitDeviceDelete(d) PROVE RowsRise
  <2>1. ASSUME NEW id \in AlarmIds, alarm[id].state # "free"
        PROVE  Risen(alarm[id], [alarm[id] EXCEPT !.state = "deleted"])
    BY <2>1, <1>a, RankType DEF Risen, AlarmRow
  <2>2. \A id \in AlarmIds : alarm'[id] = [alarm[id] EXCEPT !.state = "deleted"] \/ alarm'[id] = alarm[id]
    BY <1>4 DEF CommitDeviceDelete
  <2> QED BY <1>a, <2>1, <2>2, RisenReflexive DEF RowsRise
<1>5. ASSUME NEW d \in Devices, DeleteDeviceAlarms(d) \/ AbortDeviceDelete(d) PROVE RowsRise
  BY <1>5, UnchangedRise DEF DeleteDeviceAlarms, AbortDeviceDelete
<1> QED BY <1>1, <1>2, <1>3, <1>4, <1>5 DEF Operator

LEMMA StepRises == ASSUME TypeOK, Ordered, Found, [Next]_vars PROVE RowsRise
<1>1. CASE UNCHANGED vars \/ Tick
  BY <1>1, UnchangedRise DEF Tick
<1>2. ASSUME NEW i \in Intents, Publish(i) PROVE RowsRise
  BY <1>2, UnchangedRise DEF Publish
<1>3. ASSUME NEW r \in Replicas, NEW m \in 1..Len(stream), Deliver(r, m) PROVE RowsRise
  BY <1>3, UnchangedRise DEF Deliver
<1>4. ASSUME NEW r \in Replicas, FaultStep(r) PROVE RowsRise
  BY <1>4, UnchangedRise DEF FaultStep, StatementFails, Crash, AckLost, KeyDictFails
<1> QED BY <1>1, <1>2, <1>3, <1>4, HandlerRises, OperatorRises DEF Next

\* A handler's step happens at work, in the intent it began with.
LEMMA HandlerMoves ==
    ASSUME TypeOK, NEW r \in Replicas, Handler(r)
    PROVE  /\ pc[r] # "idle" /\ UNCHANGED <<stream, clock, live>>
           /\ pc'[r] # "idle" => /\ loc'[r].now = loc[r].now /\ loc'[r].msg = loc[r].msg
                                 /\ IntentOf(r)' = IntentOf(r)
<1>a. pc \in [Replicas -> Labels] /\ loc \in [Replicas -> Locals] /\ loc[r] \in Locals
  BY DEF TypeOK, HandlersType
<1>1. pc[r] # "idle" /\ UNCHANGED <<stream, clock, live>>
  BY DEF Handler, FindActiveAlarm, ClearAlarm, EscalateAlarm, ExtendAlarm, InsertAlarm,
         LinkEntityAlarm, WalkAncestors, ResolveKey, CountBelow, UpsertCount, Ack
<1>2. \/ pc'[r] = "idle"
      \/ loc'[r].now = loc[r].now /\ loc'[r].msg = loc[r].msg
  <2>1. CASE FindActiveAlarm(r)
    BY <1>a, <2>1 DEF FindActiveAlarm, Goto, Locals
  <2>2. CASE InsertAlarm(r)
    BY <1>a, <2>2 DEF InsertAlarm, Goto, Locals
  <2>3. CASE ClearAlarm(r) \/ EscalateAlarm(r) \/ ExtendAlarm(r) \/ ResolveKey(r)
    BY <1>a, <2>3 DEF ClearAlarm, EscalateAlarm, ExtendAlarm, ResolveKey, Goto
  <2>4. CASE LinkEntityAlarm(r) \/ Ack(r)
    BY <1>a, <2>4 DEF LinkEntityAlarm, Ack, Goto, Return
  <2>5. CASE WalkAncestors(r)
    BY <1>a, <2>5 DEF WalkAncestors, Locals
  <2>6. CASE CountBelow(r)
    <3>1. CASE UNCHANGED loc
      BY <3>1
    <3>2. CASE ~UNCHANGED loc
      <4>1. PICK a \in loc[r].todo :
              loc' = [loc EXCEPT ![r].asset = a, ![r].todo = @ \ {a},
                                 ![r].count = ActiveBelow(a, IntentOf(r).tenant)]
        BY <2>6, <3>2 DEF CountBelow, Goto
      <4> DEFINE v == [loc[r] EXCEPT !.asset = a, !.todo = @ \ {a},
                                     !.count = ActiveBelow(a, IntentOf(r).tenant)]
      <4>2. v.now = loc[r].now /\ v.msg = loc[r].msg
        BY <1>a DEF Locals
      <4>3. loc' = [loc EXCEPT ![r] = v]
        BY <4>1
      <4> HIDE DEF v
      <4> QED BY <1>a, <4>2, <4>3
    <3> QED BY <3>1, <3>2
  <2>7. CASE UpsertCount(r)
    BY <1>a, <2>7 DEF UpsertCount, Locals
  <2> QED BY <2>1, <2>2, <2>3, <2>4, <2>5, <2>6, <2>7 DEF Handler
<1> QED BY <1>1, <1>2 DEF IntentOf

\* A handler's writes end a row no later than its reading of the clock.
LEMMA HandlerEnds ==
    ASSUME TypeOK, Ordered, NEW r \in Replicas, Handler(r)
    PROVE  \A id \in AlarmIds : alarm'[id].endTs <= loc[r].now
<1>a. /\ \A id \in AlarmIds : alarm[id].endTs <= loc[r].now
  BY HandlerMoves DEF Ordered
<1>b. alarm \in [AlarmIds -> AlarmRow] /\ loc[r].now \in Nat
  BY DEF TypeOK, TablesType, HandlersType, Locals
<1>1. CASE ClearAlarm(r)
  BY <1>a, <1>b, <1>1 DEF ClearAlarm, AlarmRow
<1>2. CASE EscalateAlarm(r)
  <2>1. \A id \in AlarmIds : alarm'[id].endTs = loc[r].now \/ alarm'[id] = alarm[id]
    BY <1>b, <1>2 DEF EscalateAlarm, AlarmRow
  <2> QED BY <2>1, <1>a, <1>b
<1>3. CASE ExtendAlarm(r)
  BY <1>a, <1>b, <1>3 DEF ExtendAlarm, AlarmRow
<1>4. CASE InsertAlarm(r)
  <2>1. \A id \in AlarmIds : alarm'[id].endTs = loc[r].now \/ alarm'[id] = alarm[id]
    BY <1>b, <1>4 DEF InsertAlarm
  <2> QED BY <2>1, <1>a, <1>b
<1>5. CASE \/ FindActiveAlarm(r) \/ LinkEntityAlarm(r) \/ WalkAncestors(r) \/ ResolveKey(r)
           \/ CountBelow(r) \/ UpsertCount(r) \/ Ack(r)
  BY <1>a, <1>5 DEF FindActiveAlarm, LinkEntityAlarm, WalkAncestors, ResolveKey, CountBelow, UpsertCount, Ack
<1> QED BY <1>1, <1>2, <1>3, <1>4, <1>5 DEF Handler

\* What no replica does leaves the ends, the clock and the handlers alone.
LEMMA OperatorEnds ==
    ASSUME TypeOK, Operator
    PROVE  /\ \A id \in AlarmIds : alarm'[id].endTs = alarm[id].endTs
           /\ UNCHANGED <<clock, pc, loc, stream>>
<1>a. alarm \in [AlarmIds -> AlarmRow]
  BY DEF TypeOK, TablesType
<1>1. ASSUME NEW id \in AlarmIds, AckByOperator(id) \/ ClearByOperator(id) \/ Retention(id)
      PROVE  \A x \in AlarmIds : alarm'[x].endTs = alarm[x].endTs
  BY <1>a, <1>1 DEF AckByOperator, ClearByOperator, Retention, AlarmRow
<1>2. ASSUME NEW d \in Devices, CommitDeviceDelete(d)
      PROVE  \A x \in AlarmIds : alarm'[x].endTs = alarm[x].endTs
  BY <1>a, <1>2 DEF CommitDeviceDelete, AlarmRow
<1>3. ASSUME NEW d \in Devices, DeleteDeviceAlarms(d) \/ AbortDeviceDelete(d)
      PROVE  UNCHANGED alarm
  BY <1>3 DEF DeleteDeviceAlarms, AbortDeviceDelete
<1>4. UNCHANGED <<clock, pc, loc, stream>>
  BY DEF Operator, AckByOperator, ClearByOperator, Retention, DeleteDeviceAlarms,
         CommitDeviceDelete, AbortDeviceDelete
<1> QED BY <1>1, <1>2, <1>3, <1>4 DEF Operator

LEMMA OrderedStep ==
    ASSUME Single, TypeOK, Ordered, [Next]_vars PROVE Ordered'
<1>a. clock \in Nat /\ \A id \in AlarmIds : alarm[id].endTs \in Nat
  BY DEF TypeOK, TablesType, AlarmRow
<1>b. loc \in [Replicas -> Locals] /\ pc \in [Replicas -> Labels]
      /\ \A r \in Replicas : loc[r].now \in Nat
  BY DEF TypeOK, HandlersType, Locals
<1>1. CASE UNCHANGED vars
  BY <1>1 DEF Ordered
<1>2. CASE Tick
  BY <1>a, <1>b, <1>2 DEF Tick, Ordered
<1>3. ASSUME NEW i \in Intents, Publish(i) PROVE Ordered'
  BY <1>3 DEF Publish, Ordered
<1>4. ASSUME NEW r \in Replicas, NEW m \in 1..Len(stream), Deliver(r, m) PROVE Ordered'
  <2>1. UNCHANGED <<alarm, clock>> /\ pc[r] = "idle"
    BY <1>4 DEF Deliver
  <2>2. pc'[r] = "idle" \/ loc'[r].now = clock
    BY <1>4, <1>b DEF Deliver, Locals
  <2> QED BY <2>1, <2>2, <1>a DEF Ordered, Single
<1>5. ASSUME NEW r \in Replicas, Handler(r) PROVE Ordered'
  <2>1. /\ \A id \in AlarmIds : alarm'[id].endTs <= loc[r].now
        /\ pc[r] # "idle" /\ UNCHANGED clock
        /\ pc'[r] # "idle" => loc'[r].now = loc[r].now
    BY <1>5, HandlerEnds, HandlerMoves
  <2>2. \A id \in AlarmIds : alarm'[id].endTs \in Nat
    BY <1>5, HandlerType DEF TypeOK, TablesType, AlarmRow
  <2>3. loc[r].now <= clock
    BY <2>1 DEF Ordered
  <2> QED BY <2>1, <2>2, <2>3, <1>a, <1>b DEF Ordered, Single
<1>6. ASSUME NEW r \in Replicas, FaultStep(r) PROVE Ordered'
  <2>1. UNCHANGED <<alarm, clock>> /\ pc[r] # "idle" /\ (pc'[r] = "idle" \/ loc'[r] = loc[r])
    BY <1>6, <1>b DEF FaultStep, StatementFails, Crash, AckLost, KeyDictFails, Goto, Return, StatementLabels
  <2> QED BY <2>1 DEF Ordered, Single
<1>7. CASE Operator
  BY <1>7, OperatorEnds DEF Ordered
<1> QED BY <1>1, <1>2, <1>3, <1>4, <1>5, <1>6, <1>7 DEF Next

LEMMA PublishMoves ==
    ASSUME TypeOK, NEW i \in Intents, Publish(i)
    PROVE  /\ UNCHANGED <<acked, dbVars, pc, loc, clock>>
           /\ \A m \in 1..Len(stream) : stream'[m] = stream[m]
           /\ \A r \in Replicas : pc[r] # "idle" => IntentOf(r)' = IntentOf(r)
<1>1. UNCHANGED <<acked, dbVars, pc, loc, clock>>
  BY DEF Publish
<1>2. \A m \in 1..Len(stream) : stream'[m] = stream[m]
  BY AppendKeeps DEF Publish, TypeOK, BusType
<1>3. \A r \in Replicas : pc[r] # "idle" => loc[r].msg \in 1..Len(stream)
  BY DEF TypeOK, HandlersType, LocalsFit
<1> QED BY <1>1, <1>2, <1>3 DEF IntentOf

LEMMA LiveShrinks == ASSUME Next PROVE live' \subseteq live
<1>1. ASSUME NEW r \in Replicas, Handler(r) PROVE UNCHANGED live
  BY <1>1 DEF Handler, FindActiveAlarm, ClearAlarm, EscalateAlarm, ExtendAlarm, InsertAlarm,
              LinkEntityAlarm, WalkAncestors, ResolveKey, CountBelow, UpsertCount, Ack
<1>2. ASSUME NEW r \in Replicas, FaultStep(r) PROVE UNCHANGED live
  BY <1>2 DEF FaultStep, StatementFails, Crash, AckLost, KeyDictFails
<1>3. ASSUME Operator PROVE live' \subseteq live
  BY <1>3 DEF Operator, AckByOperator, ClearByOperator, Retention, DeleteDeviceAlarms,
              CommitDeviceDelete, AbortDeviceDelete
<1> QED BY <1>1, <1>2, <1>3 DEF Next, Publish, Tick, Deliver

\* Operators and the retention job leave what a handler has looked up good.
LEMMA OperatorKeepsFound ==
    ASSUME TypeOK, Ordered, Operator, NEW r \in Replicas, pc[r] # "idle",
           NEW id \in AlarmIds, NEW i, FoundStill(alarm[id], i, loc[r].now)
    PROVE  /\ alarm'[id].state # "free" /\ alarm'[id].device = i.device
           /\ alarm'[id].type = i.type /\ alarm'[id].severity = alarm[id].severity
           /\ alarm'[id].state = "cleared" => alarm'[id].clearTs >= loc[r].now
           /\ alarm'[id].state = "deleted" => i.device \notin live'
<1> DEFINE Good == /\ alarm'[id].state # "free" /\ alarm'[id].device = i.device
                   /\ alarm'[id].type = i.type /\ alarm'[id].severity = alarm[id].severity
                   /\ alarm'[id].state = "cleared" => alarm'[id].clearTs >= loc[r].now
                   /\ alarm'[id].state = "deleted" => i.device \notin live'
<1>a. alarm \in [AlarmIds -> AlarmRow] /\ loc[r].now \in Nat /\ clock \in Nat
      /\ loc[r].now <= clock
  BY DEF TypeOK, TablesType, HandlersType, Locals, Ordered
<1>1. ASSUME UNCHANGED alarm, live' \subseteq live PROVE Good
  BY <1>1 DEF FoundStill
<1>2. ASSUME NEW x \in AlarmIds, AckByOperator(x) PROVE Good
  <2>1. alarm'[id] = alarm[id] \/ alarm'[id] = [alarm[id] EXCEPT !.acknowledged = TRUE]
    BY <1>2, <1>a DEF AckByOperator
  <2>2. live' = live
    BY <1>2 DEF AckByOperator
  <2> QED BY <2>1, <2>2, <1>a DEF FoundStill, AlarmRow
<1>3. ASSUME NEW x \in AlarmIds, ClearByOperator(x) PROVE Good
  <2> DEFINE row == [alarm[id] EXCEPT !.state = "cleared", !.clearTs = clock]
  <2>1. alarm'[id] = alarm[id] \/ alarm'[id] = row
    BY <1>3, <1>a DEF ClearByOperator
  <2>2. live' = live
    BY <1>3 DEF ClearByOperator
  <2>3. /\ row.state = "cleared" /\ row.clearTs = clock /\ row.device = alarm[id].device
        /\ row.type = alarm[id].type /\ row.severity = alarm[id].severity
    BY <1>a DEF AlarmRow
  <2> HIDE DEF row
  <2> QED BY <2>1, <2>2, <2>3, <1>a DEF FoundStill
<1>4. ASSUME NEW x \in AlarmIds, Retention(x) PROVE Good
  <2>1. x # id
    <3>1. alarm[x].state = "cleared" /\ alarm[x].clearTs < loc[r].now
      BY <1>4 DEF Retention
    <3>2. alarm[x].clearTs \in Nat
      BY <1>a DEF AlarmRow
    <3> QED BY <3>1, <3>2, <1>a DEF FoundStill
  <2>2. alarm'[id] = alarm[id] /\ live' = live
    BY <2>1, <1>4, <1>a DEF Retention
  <2> QED BY <2>2 DEF FoundStill
<1>5. ASSUME NEW d \in Devices, CommitDeviceDelete(d) PROVE Good
  <2>1. /\ live' = live \ {d}
        /\ \/ alarm'[id] = alarm[id]
           \/ alarm[id].device = d /\ alarm'[id] = [alarm[id] EXCEPT !.state = "deleted"]
    BY <1>5 DEF CommitDeviceDelete
  <2> QED BY <2>1, <1>a DEF FoundStill, AlarmRow
<1>6. ASSUME NEW d \in Devices, DeleteDeviceAlarms(d) \/ AbortDeviceDelete(d) PROVE Good
  BY <1>6, <1>1 DEF DeleteDeviceAlarms, AbortDeviceDelete
<1> QED BY <1>2, <1>3, <1>4, <1>5, <1>6 DEF Operator

\* A lookup that leads to an update found an active row of the intent.
LEMMA LookupFinds ==
    ASSUME TypeOK, NEW r \in Replicas, FindActiveAlarm(r)
    PROVE  /\ UNCHANGED <<alarm, live>>
           /\ pc'[r] = "clear" => IntentOf(r).action = ActionClear
           /\ pc'[r] = "ack" => IntentOf(r).action = ActionClear
           /\ pc'[r] \in {"escalate", "extend"} =>
                 /\ loc'[r].active \in AlarmIds
                 /\ alarm[loc'[r].active].state = "active"
                 /\ alarm[loc'[r].active].device = IntentOf(r).device
                 /\ alarm[loc'[r].active].type = IntentOf(r).type
           /\ pc'[r] = "escalate" => Escalates(IntentOf(r), alarm[loc'[r].active])
           /\ pc'[r] = "extend" => ~Escalates(IntentOf(r), alarm[loc'[r].active])
<1>a. pc \in [Replicas -> Labels] /\ loc \in [Replicas -> Locals] /\ loc[r] \in Locals
  BY DEF TypeOK, HandlersType
<1>1. UNCHANGED <<alarm, live>>
  BY DEF FindActiveAlarm
<1>2. CASE Goto(r, IF IntentOf(r).action = ActionClear THEN "ack" ELSE "insert")
  BY <1>1, <1>2, <1>a DEF Goto
<1>3. CASE ~Goto(r, IF IntentOf(r).action = ActionClear THEN "ack" ELSE "insert")
  <2>1. PICK id \in ActiveRows(IntentOf(r).device, IntentOf(r).type) :
          /\ loc' = [loc EXCEPT ![r].active = id]
          /\ pc' = [pc EXCEPT ![r] =
                       IF IntentOf(r).action = ActionClear THEN "clear"
                       ELSE IF Escalates(IntentOf(r), alarm[id]) THEN "escalate" ELSE "extend"]
    BY <1>3 DEF FindActiveAlarm
  <2>2. loc'[r].active = id
    BY <2>1, <1>a DEF Locals
  <2> QED BY <1>1, <2>1, <2>2, <1>a DEF ActiveRows
<1> QED BY <1>2, <1>3

\* Only the lookup leads to an update or a clear.
LEMMA OthersDoNotLookUp ==
    ASSUME TypeOK, NEW r \in Replicas, Handler(r), ~FindActiveAlarm(r)
    PROVE  pc'[r] \in AppliedLabels \cup {"idle"}
<1>a. pc \in [Replicas -> Labels]
  BY DEF TypeOK, HandlersType
<1> QED BY <1>a DEF Handler, ClearAlarm, EscalateAlarm, ExtendAlarm, InsertAlarm, LinkEntityAlarm,
                    WalkAncestors, ResolveKey, CountBelow, UpsertCount, Ack, Goto, Return, AppliedLabels

LEMMA FoundStep ==
    ASSUME Single, TypeOK, Ordered, Found, [Next]_vars PROVE Found'
<1>b. loc \in [Replicas -> Locals] /\ pc \in [Replicas -> Labels]
      /\ \A r \in Replicas : LocalsFit(pc[r], loc[r], Len(stream))
  BY DEF TypeOK, HandlersType
<1>0. ASSUME NEW r \in Replicas, pc'[r] \notin {"escalate", "extend", "clear"} PROVE Found'
  BY <1>0 DEF Found, Single
<1>1. CASE UNCHANGED vars
  BY <1>1 DEF Found, FoundStill, IntentOf
<1>2. CASE Tick
  BY <1>2 DEF Tick, Found, FoundStill, IntentOf
<1>3. ASSUME NEW i \in Intents, Publish(i) PROVE Found'
  <2>1. ASSUME NEW r \in Replicas, pc'[r] # "idle" PROVE IntentOf(r)' = IntentOf(r)
    BY <1>3, <2>1, PublishMoves
  <2> QED BY <2>1, <1>3, PublishMoves DEF Found, FoundStill
<1>4. ASSUME NEW r \in Replicas, NEW m \in 1..Len(stream), Deliver(r, m) PROVE Found'
  BY <1>4, <1>0, <1>b DEF Deliver
<1>5. ASSUME NEW r \in Replicas, Handler(r) PROVE Found'
  <2>1. CASE FindActiveAlarm(r)
    <3>1. pc'[r] # "idle" => IntentOf(r)' = IntentOf(r)
      BY <1>5, HandlerMoves
    <3>2. /\ UNCHANGED <<alarm, live>>
          /\ pc'[r] = "clear" => IntentOf(r).action = ActionClear
          /\ pc'[r] \in {"escalate", "extend"} =>
                 /\ alarm[loc'[r].active].state = "active"
                 /\ alarm[loc'[r].active].device = IntentOf(r).device
                 /\ alarm[loc'[r].active].type = IntentOf(r).type
          /\ pc'[r] = "escalate" => Escalates(IntentOf(r), alarm[loc'[r].active])
          /\ pc'[r] = "extend" => ~Escalates(IntentOf(r), alarm[loc'[r].active])
      BY <2>1, LookupFinds
    <3>3. CASE pc'[r] = "clear"
      BY <3>1, <3>2, <3>3 DEF Found, Single
    <3>4. CASE pc'[r] \in {"escalate", "extend"}
      <4>1. IntentOf(r)' = IntentOf(r) /\ pc'[r] # "clear"
        BY <3>1, <3>4
      <4>2. FoundStill(alarm[loc[r].active], IntentOf(r), loc[r].now)'
        BY <3>2, <3>4, <4>1 DEF FoundStill
      <4>3. /\ pc'[r] = "escalate" => Escalates(IntentOf(r), alarm[loc[r].active])'
            /\ pc'[r] = "extend" => (~Escalates(IntentOf(r), alarm[loc[r].active]))'
        BY <3>2, <4>1 DEF Escalates
      <4> QED BY <4>1, <4>2, <4>3 DEF Found, Single
    <3> QED BY <3>3, <3>4, <1>0
  <2>2. CASE ~FindActiveAlarm(r)
    <3>1. pc'[r] \notin {"escalate", "extend", "clear"}
      BY <2>2, <1>5, OthersDoNotLookUp DEF AppliedLabels
    <3> QED BY <3>1, <1>0
  <2> QED BY <2>1, <2>2
<1>6. ASSUME NEW r \in Replicas, FaultStep(r) PROVE Found'
  <2>1. pc'[r] \in {"idle", "ack"}
    BY <1>6, <1>b DEF FaultStep, StatementFails, Crash, AckLost, KeyDictFails, Goto, Return
  <2> QED BY <2>1, <1>0
<1>7. CASE Operator
  <2>1. UNCHANGED <<clock, pc, loc, stream>>
    BY <1>7, OperatorEnds
  <2>2. ASSUME NEW r \in Replicas, pc[r] \in {"escalate", "extend"}
        PROVE  /\ FoundStill(alarm[loc[r].active], IntentOf(r), loc[r].now)'
               /\ alarm'[loc[r].active].severity = alarm[loc[r].active].severity
    <3>1. loc[r].active \in AlarmIds /\ pc[r] # "idle"
      BY <2>2, <1>b DEF LocalsFit
    <3>2. FoundStill(alarm[loc[r].active], IntentOf(r), loc[r].now)
      BY <2>2 DEF Found
    <3>3. /\ alarm'[loc[r].active].state # "free" /\ alarm'[loc[r].active].device = IntentOf(r).device
          /\ alarm'[loc[r].active].type = IntentOf(r).type
          /\ alarm'[loc[r].active].severity = alarm[loc[r].active].severity
          /\ alarm'[loc[r].active].state = "cleared" => alarm'[loc[r].active].clearTs >= loc[r].now
          /\ alarm'[loc[r].active].state = "deleted" => IntentOf(r).device \notin live'
      BY <1>7, <3>1, <3>2, OperatorKeepsFound
    <3> QED BY <2>1, <3>3 DEF FoundStill, IntentOf
  <2>3. \A r \in Replicas : IntentOf(r)' = IntentOf(r)
    BY <2>1 DEF IntentOf
  <2> QED BY <2>1, <2>2, <2>3 DEF Found, Escalates
<1> QED BY <1>1, <1>2, <1>3, <1>4, <1>5, <1>6, <1>7 DEF Next

\* What is materialized stays so: rows only rise and devices only go.
LEMMA MaterializedStays ==
    ASSUME TypeOK, TypeOK', RowsRise, live' \subseteq live, NEW i, Materialized(i)
    PROVE  Materialized(i)'
<1>1. CASE i.device \notin live \/ Owner[i.device] # i.tenant
  BY <1>1 DEF Materialized
<1>2. CASE \E id \in AlarmIds :
             /\ alarm[id].state # "free"
             /\ alarm[id].device = i.device /\ alarm[id].type = i.type
             /\ severityRank(alarm[id].severity) >= severityRank(i.severity)
  <2>1. PICK id \in AlarmIds :
             /\ alarm[id].state # "free"
             /\ alarm[id].device = i.device /\ alarm[id].type = i.type
             /\ severityRank(alarm[id].severity) >= severityRank(i.severity)
    BY <1>2
  <2>2. /\ alarm'[id].state # "free"
        /\ alarm'[id].device = i.device /\ alarm'[id].type = i.type
        /\ severityRank(alarm'[id].severity) >= severityRank(i.severity)
    BY <2>1, RankType DEF RowsRise, Risen
  <2> QED BY <2>2 DEF Materialized
<1> QED BY <1>1, <1>2 DEF Materialized

\* ApplyIntent is past its table write only once the intent is materialized.
LEMMA HandlerApplies ==
    ASSUME TypeOK, TypeOK', Ordered, Found, Applied, RowsRise,
           NEW r \in Replicas, Handler(r), NEW i, i = IntentOf(r),
           pc'[r] \in AppliedLabels, i.action = ActionCreateOrUpdate
    PROVE  Materialized(i)'
<1>a. /\ pc \in [Replicas -> Labels] /\ loc[r] \in Locals /\ alarm \in [AlarmIds -> AlarmRow]
      /\ LocalsFit(pc[r], loc[r], Len(stream)) /\ UNCHANGED live
  BY HandlerMoves DEF TypeOK, HandlersType, TablesType
<1> DEFINE id == loc[r].active
<1>b. ActionCreateOrUpdate # ActionClear
  BY DEF ActionCreateOrUpdate, ActionClear
<1>1. CASE pc[r] \in AppliedLabels
  BY <1>1, <1>a, MaterializedStays DEF Applied
<1>2. CASE FindActiveAlarm(r)
  <2>1. pc'[r] \in {"ack", "clear", "escalate", "extend", "insert"}
    BY <1>2, <1>a DEF FindActiveAlarm, Goto
  <2> QED BY <2>1, <1>2, <1>b, LookupFinds DEF AppliedLabels
<1>3. CASE ClearAlarm(r)
  BY <1>3, <1>b DEF ClearAlarm, Found
<1>4. CASE EscalateAlarm(r)
  <2>1. id \in AlarmIds /\ FoundStill(alarm[id], i, loc[r].now)
    BY <1>4, <1>a DEF EscalateAlarm, LocalsFit, Found
  <2>2. CASE IsRow(id)
    <3> DEFINE row == [alarm[id] EXCEPT !.endTs = loc[r].now, !.severity = i.severity]
    <3>1. alarm' = [alarm EXCEPT ![id] = row]
      BY <2>2, <1>4 DEF EscalateAlarm
    <3>2. /\ row.state # "free" /\ row.device = i.device /\ row.type = i.type
          /\ row.severity = i.severity
      BY <2>1, <1>a DEF FoundStill, AlarmRow
    <3> HIDE DEF row
    <3>3. /\ alarm'[id].state # "free" /\ alarm'[id].device = i.device
          /\ alarm'[id].type = i.type /\ alarm'[id].severity = i.severity
      BY <3>1, <3>2, <2>1, <1>a
    <3>4. severityRank(alarm'[id].severity) >= severityRank(i.severity)
      BY <3>3, RankType
    <3> QED BY <2>1, <3>3, <3>4 DEF Materialized
  <2>3. CASE ~IsRow(id)
    <3>1. alarm[id].state = "deleted"
      BY <2>1, <2>3, <1>a DEF IsRow, FoundStill, AlarmRow
    <3> QED BY <3>1, <2>1, <1>a DEF FoundStill, Materialized
  <2> QED BY <2>2, <2>3
<1>5. CASE ExtendAlarm(r)
  <2>1. id \in AlarmIds /\ FoundStill(alarm[id], i, loc[r].now) /\ ~Escalates(i, alarm[id])
    BY <1>5, <1>a DEF ExtendAlarm, LocalsFit, Found
  <2>2. /\ alarm[id].state # "free" /\ alarm[id].device = i.device /\ alarm[id].type = i.type
        /\ severityRank(alarm[id].severity) >= severityRank(i.severity)
    BY <2>1, RankType DEF FoundStill, Escalates
  <2>3. Materialized(i)
    BY <2>1, <2>2 DEF Materialized
  <2> QED BY <2>3, <1>a, MaterializedStays
<1>6. CASE InsertAlarm(r)
  <2>1. CASE i.device \in live /\ Owner[i.device] = i.tenant
    <3> DEFINE row == [state |-> "active", device |-> i.device, type |-> i.type,
                       tenant |-> i.tenant, severity |-> i.severity, startTs |-> loc[r].now,
                       endTs |-> loc[r].now, clearTs |-> 0, acknowledged |-> FALSE]
    <3>1. PICK x \in AlarmIds : alarm' = [alarm EXCEPT ![x] = row]
      BY <2>1, <1>6 DEF InsertAlarm
    <3>2. alarm'[x] = row
      BY <3>1, <1>a
    <3>3. severityRank(alarm'[x].severity) >= severityRank(i.severity)
      BY <3>2, RankType
    <3> QED BY <3>2, <3>3 DEF Materialized
  <2>2. CASE ~(i.device \in live /\ Owner[i.device] = i.tenant)
    BY <2>2, <1>a DEF Materialized
  <2> QED BY <2>1, <2>2
<1>7. CASE \/ LinkEntityAlarm(r) \/ WalkAncestors(r) \/ ResolveKey(r) \/ CountBelow(r)
           \/ UpsertCount(r) \/ Ack(r)
  BY <1>7, <1>1 DEF LinkEntityAlarm, WalkAncestors, ResolveKey, CountBelow, UpsertCount, Ack, AppliedLabels
<1> QED BY <1>2, <1>3, <1>4, <1>5, <1>6, <1>7 DEF Handler

LEMMA AppliedStep ==
    ASSUME Single, TypeOK, TypeOK', Ordered, Found, Applied, RowsRise, [Next]_vars
    PROVE  Applied'
<1>a. loc \in [Replicas -> Locals] /\ pc \in [Replicas -> Labels]
  BY DEF TypeOK, HandlersType
<1>0. ASSUME NEW r \in Replicas, pc'[r] \notin AppliedLabels PROVE Applied'
  BY <1>0 DEF Applied, Single
<1>1. CASE UNCHANGED vars
  BY <1>1 DEF Applied, Materialized, IntentOf
<1>2. ASSUME NEW r \in Replicas, pc'[r] \in AppliedLabels,
             IntentOf(r)' = IntentOf(r), pc[r] \in AppliedLabels, live' \subseteq live
      PROVE  Applied'
  <2> DEFINE i == IntentOf(r)
  <2>1. i.action = ActionCreateOrUpdate => Materialized(i)
    BY <1>2 DEF Applied
  <2>2. \A j : Materialized(j) => Materialized(j)'
    BY <1>2, MaterializedStays
  <2>3. IntentOf(r)'.action = ActionCreateOrUpdate => Materialized(IntentOf(r))'
    BY <1>2, <2>1, <2>2
  <2> QED BY <2>3, <1>2 DEF Applied, Single
<1>3. ASSUME Tick \/ Operator \/ (\E i \in Intents : Publish(i)), NEW r \in Replicas PROVE Applied'
  <2>1. UNCHANGED pc /\ (pc[r] # "idle" => IntentOf(r)' = IntentOf(r))
    BY <1>3, OperatorEnds, PublishMoves DEF Tick, IntentOf
  <2>2. live' \subseteq live
    BY <1>3, LiveShrinks DEF Next
  <2> QED BY <2>1, <2>2, <1>0, <1>2 DEF AppliedLabels
<1>4. ASSUME NEW r \in Replicas, NEW m \in 1..Len(stream), Deliver(r, m) PROVE Applied'
  BY <1>4, <1>0, <1>a DEF Deliver, AppliedLabels
<1>5. ASSUME NEW r \in Replicas, Handler(r) PROVE Applied'
  <2>1. CASE pc'[r] \in AppliedLabels
    <3>1. IntentOf(r)' = IntentOf(r)
      BY <1>5, <2>1, HandlerMoves DEF AppliedLabels
    <3>2. \A i : i = IntentOf(r) /\ i.action = ActionCreateOrUpdate => Materialized(i)'
      BY <1>5, <2>1, HandlerApplies
    <3> QED BY <3>1, <3>2 DEF Applied, Single
  <2>2. CASE pc'[r] \notin AppliedLabels
    BY <2>2, <1>0
  <2> QED BY <2>1, <2>2
<1>6. ASSUME NEW r \in Replicas, FaultStep(r) PROVE Applied'
  <2>1. CASE pc'[r] = "idle"
    BY <2>1, <1>0 DEF AppliedLabels
  <2>2. CASE pc'[r] # "idle"
    <3>1. KeyDictFails(r)
      BY <2>2, <1>6, <1>a DEF FaultStep, StatementFails, Crash, AckLost, Return
    <3>2. pc[r] \in AppliedLabels /\ UNCHANGED <<stream, loc, live>>
      BY <3>1 DEF KeyDictFails, Goto, AppliedLabels
    <3>3. IntentOf(r)' = IntentOf(r)
      BY <3>2 DEF IntentOf
    <3> QED BY <3>2, <3>3, <1>0, <1>2
  <2> QED BY <2>1, <2>2
<1>7. CASE Replicas = {}
  BY <1>7 DEF Applied
<1> QED BY <1>1, <1>3, <1>4, <1>5, <1>6, <1>7 DEF Next

LEMMA AckedStep ==
    ASSUME TypeOK, TypeOK', Applied, AckedIsMaterialized, RowsRise, [Next]_vars
    PROVE  AckedIsMaterialized'
<1>a. /\ acked \subseteq 1..Len(stream)
      /\ \A m \in acked : Validate(stream[m]) /\ stream[m].action = ActionCreateOrUpdate
                            => Materialized(stream[m])
  BY DEF TypeOK, BusType, AckedIsMaterialized, Materialized
<1>b. live' \subseteq live
  BY LiveShrinks
<1>c. \A j : Materialized(j) => Materialized(j)'
  BY <1>b, MaterializedStays
<1>d. \A m \in 1..Len(stream) : stream'[m] = stream[m]
  <2>1. CASE \E i \in Intents : Publish(i)
    BY <2>1, PublishMoves
  <2>2. ASSUME NEW r \in Replicas, Handler(r) PROVE UNCHANGED stream
    BY <2>2, HandlerMoves
  <2>3. ASSUME NEW r \in Replicas, FaultStep(r) PROVE UNCHANGED stream
    BY <2>3 DEF FaultStep, StatementFails, Crash, AckLost, KeyDictFails
  <2>4. ASSUME Operator PROVE UNCHANGED stream
    BY <2>4, OperatorEnds
  <2> QED BY <2>1, <2>2, <2>3, <2>4 DEF Next, Tick, Deliver
<1>1. ASSUME NEW m \in acked', m \notin acked
      PROVE  /\ m \in 1..Len(stream)
             /\ Validate(stream[m]) /\ stream[m].action = ActionCreateOrUpdate
                  => Materialized(stream[m])
  <2>1. CASE \E r \in Replicas : Ack(r)
    <3>1. PICK r \in Replicas : Ack(r)
      BY <2>1
    <3>2. m = loc[r].msg /\ pc[r] = "ack"
      BY <3>1, <1>1 DEF Ack
    <3>3. m \in 1..Len(stream)
      BY <3>2 DEF TypeOK, HandlersType, LocalsFit
    <3>4. IntentOf(r).action = ActionCreateOrUpdate => Materialized(IntentOf(r))
      BY <3>2 DEF Applied, AppliedLabels
    <3> QED BY <3>2, <3>3, <3>4 DEF IntentOf
  <2>2. CASE \E r \in Replicas, k \in 1..Len(stream) : Deliver(r, k)
    BY <2>2, <1>1 DEF Deliver
  <2>3. CASE ~(\E r \in Replicas : Ack(r)) /\ ~(\E r \in Replicas, k \in 1..Len(stream) : Deliver(r, k))
    <3>1. ASSUME NEW r \in Replicas, Handler(r), ~Ack(r) PROVE UNCHANGED acked
      BY <3>1 DEF Handler, FindActiveAlarm, ClearAlarm, EscalateAlarm, ExtendAlarm, InsertAlarm,
                  LinkEntityAlarm, WalkAncestors, ResolveKey, CountBelow, UpsertCount
    <3>2. ASSUME NEW r \in Replicas, FaultStep(r) PROVE UNCHANGED acked
      BY <3>2 DEF FaultStep, StatementFails, Crash, AckLost, KeyDictFails
    <3>3. ASSUME Operator PROVE UNCHANGED acked
      BY <3>3 DEF Operator, AckByOperator, ClearByOperator, Retention, DeleteDeviceAlarms,
                  CommitDeviceDelete, AbortDeviceDelete
    <3>4. UNCHANGED acked
      BY <2>3, <3>1, <3>2, <3>3 DEF Next, Publish, Tick
    <3> QED BY <3>4, <1>1
  <2> QED BY <2>1, <2>2, <2>3
<1>2. \A m \in acked' : Validate(stream'[m]) /\ stream'[m].action = ActionCreateOrUpdate
                          => Materialized(stream[m])' /\ stream'[m] = stream[m]
  <2> SUFFICES ASSUME NEW m \in acked', Validate(stream'[m]),
                      stream'[m].action = ActionCreateOrUpdate
               PROVE  Materialized(stream[m])' /\ stream'[m] = stream[m]
    OBVIOUS
  <2>1. m \in 1..Len(stream) /\ stream'[m] = stream[m] /\ Materialized(stream[m])
    BY <1>a, <1>d, <1>1
  <2>2. \A j : j = stream[m] => Materialized(j)'
    BY <2>1, <1>c
  <2> QED BY <2>1, <2>2
<1> QED BY <1>2 DEF AckedIsMaterialized, Materialized

SingleInv == TypeOK /\ Ordered /\ Found /\ Applied /\ AckedIsMaterialized

LEMMA SingleInvInit == Init => SingleInv
<1> SUFFICES ASSUME Init PROVE SingleInv
  OBVIOUS
<1>1. \A id \in AlarmIds : alarm[id].endTs = 0
  BY DEF Init, Free
<1>2. \A r \in Replicas : pc[r] = "idle"
  BY DEF Init
<1>3. clock = 1 /\ acked = {}
  BY DEF Init
<1> QED BY <1>1, <1>2, <1>3, InitType
        DEF SingleInv, Ordered, Found, Applied, AckedIsMaterialized, AppliedLabels

LEMMA SingleInvStep ==
    ASSUME Single, SingleInv, [Next]_vars PROVE SingleInv' /\ RowsRise
<1>1. TypeOK' /\ RowsRise
  BY StepType, StepRises DEF SingleInv
<1> QED BY <1>1, OrderedStep, FoundStep, AppliedStep, AckedStep DEF SingleInv

(* With one replica, an intent that was acked has been materialized: its    *)
(* alarm exists with at least its severity, whatever failed between the     *)
(* statements, whoever cleared, acknowledged or deleted rows between the    *)
(* lookup and the update, and however often it was redelivered.             *)
THEOREM AckedMaterialized ==
    ASSUME \A r, s \in Replicas : r = s
    PROVE  Spec => []AckedIsMaterialized
<1>1. SingleInv /\ [Next]_vars => SingleInv'
  BY SingleInvStep DEF Single
<1>2. SingleInv => AckedIsMaterialized
  BY DEF SingleInv
<1> QED BY <1>1, <1>2, SingleInvInit, PTL DEF Spec

(* With one replica, an update of a row read statements earlier never       *)
(* lowers the severity of an alarm nor moves its end backwards.             *)
THEOREM SeverityRises ==
    ASSUME \A r, s \in Replicas : r = s
    PROVE  Spec => SeverityNeverDowngraded
<1>1. SingleInv /\ [Next]_vars => SingleInv'
  BY SingleInvStep DEF Single
<1>2. SingleInv /\ [Next]_vars =>
        [\A id \in AlarmIds : IsRow(id) =>
            /\ severityRank(alarm'[id].severity) >= severityRank(alarm[id].severity)
            /\ alarm'[id].endTs >= alarm[id].endTs]_vars
  BY SingleInvStep DEF Single, RowsRise, Risen, IsRow
<1> QED BY <1>1, <1>2, SingleInvInit, PTL DEF Spec, SeverityNeverDowngraded

-----------------------------------------------------------------------------
(* The counts of active alarms on the assets, and the alarm lists.          *)

\* The intent carries the tenant of its device.
Home(i) == i.device \in Devices /\ Owner[i.device] = i.tenant

\* The device's tenant raises an alarm of the type.
Raises(j, d, t) ==
    Validate(j) /\ Home(j) /\ j.action = ActionCreateOrUpdate /\ j.device = d /\ j.type = t

\* Nothing but redelivery disturbs the one replica, the devices below an asset
\* are of one tenant (an edge joins entities of one tenant), and a valid intent
\* of another tenant than its device's neither clears nor escalates an alarm.
Undisturbed ==
    /\ Single
    /\ OperatorOps = {} /\ FaultKinds \subseteq {"acklost"}
    /\ \A a \in Assets : \A d, e \in DevicesBelow(a) : Owner[d] = Owner[e]
    /\ \A i \in Intents : Validate(i) /\ i.device \in Devices /\ ~Home(i) =>
          /\ i.action = ActionCreateOrUpdate
          /\ \A j \in Intents : Raises(j, i.device, i.type) => severityRank(i.severity) <= severityRank(j.severity)

\* A row in the table is its device's, and what an active one says of its
\* severity some intent of its tenant asked for.
Rows ==
    \A id \in AlarmIds :
        /\ IsRow(id) => alarm[id].device \in Devices /\ alarm[id].tenant = Owner[alarm[id].device]
        /\ alarm[id].state = "active" =>
              \E j \in Intents : Raises(j, alarm[id].device, alarm[id].type) /\ j.severity = alarm[id].severity

Counting == {"link", "walk", "keyid", "count", "upsert"}

\* What the handler at a label knows of its intent, its row and the counts.
AtWork(r) ==
    LET i == IntentOf(r)
        row == alarm[loc[r].active]
    IN  /\ pc[r] # "idle" => Validate(i)
        /\ pc[r] \in {"insert", "escalate"} => i.action = ActionCreateOrUpdate
        /\ pc[r] \in {"clear", "escalate", "extend", "link"} =>
              row.state = "active" /\ row.device = i.device /\ row.type = i.type
        /\ pc[r] \in {"clear", "escalate"} \cup Counting => Home(i)
        /\ pc[r] \in {"keyid", "count", "upsert"} => loc[r].todo \subseteq Ancestors(i.device)
        /\ pc[r] = "upsert" =>
              /\ loc[r].asset \in Ancestors(i.device)
              /\ loc[r].count = ActiveBelow(loc[r].asset, i.tenant)

\* The handler is going to count asset a again.
Recounts(r, a) ==
    /\ a \in Ancestors(IntentOf(r).device)
    /\ \/ pc[r] \in {"link", "walk"}
       \/ pc[r] \in {"keyid", "count", "upsert"} /\ a \in loc[r].todo
       \/ pc[r] = "upsert" /\ a = loc[r].asset

\* A count that is out of date is about to be counted again.
Counted ==
    \A a \in Assets : \A d \in DevicesBelow(a) :
        alarmCount[a] = ActiveBelow(a, Owner[d]) \/ \E r \in Replicas : Recounts(r, a)

\* A row that is not in its device's list yet is about to be linked.
Linked ==
    \A id \in AlarmIds : IsRow(id) =>
        \/ <<alarm[id].device, id>> \in entityAlarm
        \/ \E r \in Replicas : pc[r] = "link" /\ loc[r].active = id

CountInv == deleting = {} /\ Rows /\ (\A r \in Replicas : AtWork(r)) /\ Counted /\ Linked

\* A device is below an asset exactly when the asset is above the device: the
\* complement of a set closed downwards is closed upwards.
LEMMA AboveBelow ==
    ASSUME NEW a \in Assets, NEW d \in Devices
    PROVE  d \in DevicesBelow(a) <=> a \in Ancestors(d)
<1> DEFINE Up == {<<c[2], c[1]>> : c \in Contains}
           All == Assets \cup Devices
<1>a. \A c \in Contains : c[1] \in Assets /\ c[2] \in All
  BY MaterializerAssumption
<1>1. ASSUME d \in DevicesBelow(a) PROVE a \in Ancestors(d)
  <2>1. ASSUME NEW S \in SUBSET Assets, \A e \in Up : e[1] \in S \cup {d} /\ e[2] \in Assets => e[2] \in S,
               a \notin S
        PROVE  FALSE
    <3> DEFINE T == {x \in All : x \notin S \cup {d}}
    <3>1. ASSUME NEW c \in Contains, c[1] \in T \cup {a}, c[2] \in All PROVE c[2] \in T
      <4>1. <<c[2], c[1]>> \in Up
        OBVIOUS
      <4>2. c[2] \in S \cup {d} => c[1] \in S
        BY <4>1, <2>1, <1>a
      <4> QED BY <4>2, <3>1, <2>1
    <3>2. T \in SUBSET All
      OBVIOUS
    <3>3. d \in T
      BY <1>1, <3>1, <3>2 DEF DevicesBelow, Reach
    <3> QED BY <3>3
  <2> QED BY <2>1 DEF Ancestors, Reach
<1>2. ASSUME a \in Ancestors(d) PROVE d \in DevicesBelow(a)
  <2>1. ASSUME NEW S \in SUBSET All, \A c \in Contains : c[1] \in S \cup {a} /\ c[2] \in All => c[2] \in S,
               d \notin S
        PROVE  FALSE
    <3> DEFINE T == {x \in Assets : x \notin S \cup {a}}
    <3>1. ASSUME NEW e \in Up, e[1] \in T \cup {d}, e[2] \in Assets PROVE e[2] \in T
      <4>1. PICK c \in Contains : e = <<c[2], c[1]>>
        OBVIOUS
      <4>2. c[1] \in S \cup {a} => c[2] \in S
        BY <2>1, <1>a
      <4> QED BY <4>1, <4>2, <3>1, <2>1
    <3>2. T \in SUBSET Assets
      OBVIOUS
    <3>3. a \in T
      BY <1>2, <3>1, <3>2 DEF Ancestors, Reach
    <3> QED BY <3>3
  <2> QED BY <2>1 DEF DevicesBelow, Reach
<1> QED BY <1>1, <1>2

\* The count of the active alarms of a tenant below an asset moves only with them.
LEMMA SameCount ==
    ASSUME NEW a, NEW t,
           \A id \in AlarmIds :
              (alarm'[id].state = "active" /\ alarm'[id].tenant = t /\ alarm'[id].device \in DevicesBelow(a))
              <=> (alarm[id].state = "active" /\ alarm[id].tenant = t /\ alarm[id].device \in DevicesBelow(a))
    PROVE  ActiveBelow(a, t)' = ActiveBelow(a, t)
<1> DEFINE S == {id \in AlarmIds : /\ alarm[id].state = "active" /\ alarm[id].tenant = t
                                   /\ alarm[id].device \in DevicesBelow(a)}
<1>1. S' = S
  OBVIOUS
<1>2. ActiveBelow(a, t) = Cardinality(S) /\ ActiveBelow(a, t)' = Cardinality(S')
  BY DEF ActiveBelow
<1> QED BY <1>1, <1>2

\* A step of the handler that writes nothing.
LEMMA CountsLookedAt ==
    ASSUME Undisturbed, CountInv, NEW r \in Replicas,
           UNCHANGED <<alarm, alarmCount, entityAlarm, deleting>>, AtWork(r)', pc[r] # "link",
           \A a \in Assets : Recounts(r, a) => Recounts(r, a)'
    PROVE  CountInv'
<1>a. \A x \in Replicas : x = r
  BY DEF Undisturbed, Single
<1>1. Rows'
  BY DEF CountInv, Rows, IsRow
<1>2. Counted'
  <2>1. ASSUME NEW a \in Assets, NEW d \in DevicesBelow(a)
        PROVE  alarmCount'[a] = ActiveBelow(a, Owner[d])' \/ \E x \in Replicas : Recounts(x, a)'
    <3>1. ActiveBelow(a, Owner[d])' = ActiveBelow(a, Owner[d])
      BY SameCount
    <3> QED BY <3>1, <1>a DEF CountInv, Counted
  <2> QED BY <2>1 DEF Counted
<1>3. Linked'
  BY <1>a DEF CountInv, Linked, IsRow
<1> QED BY <1>1, <1>2, <1>3, <1>a DEF CountInv

\* A step of the handler that writes row id, of the device of its intent.
LEMMA CountsWritten ==
    ASSUME Undisturbed, TypeOK, CountInv, NEW r \in Replicas, NEW id \in AlarmIds, NEW row,
           alarm' = [alarm EXCEPT ![id] = row],
           UNCHANGED <<alarmCount, entityAlarm, deleting>>, AtWork(r)', pc[r] # "link",
           row.state \in {"active", "cleared"}, row.device \in Devices, row.tenant = Owner[row.device],
           row.state = "active" =>
              \E j \in Intents : Raises(j, row.device, row.type) /\ j.severity = row.severity,
           \/ alarm[id].state = "free" /\ pc'[r] = "link" /\ loc'[r].active = id
           \/ IsRow(id) /\ alarm[id].device = row.device /\ alarm[id].tenant = row.tenant,
           \/ \A a \in Assets : a \in Ancestors(row.device) => Recounts(r, a)'
           \/ alarm[id].state = row.state,
           pc[r] \notin Counting
    PROVE  CountInv'
<1>a. \A x \in Replicas : x = r
  BY DEF Undisturbed, Single
<1>b. alarm'[id] = row /\ \A x \in AlarmIds : x # id => alarm'[x] = alarm[x]
  BY DEF TypeOK, TablesType
<1>1. Rows'
  BY <1>b DEF CountInv, Rows, IsRow
<1>2. Counted'
  <2>1. ASSUME NEW a \in Assets, NEW d \in DevicesBelow(a)
        PROVE  alarmCount'[a] = ActiveBelow(a, Owner[d])' \/ \E x \in Replicas : Recounts(x, a)'
    <3>1. ~Recounts(r, a)
      BY DEF Recounts, Counting
    <3>2. alarmCount[a] = ActiveBelow(a, Owner[d])
      BY <1>a, <3>1 DEF CountInv, Counted
    <3>3. CASE row.device \in DevicesBelow(a) /\ alarm[id].state # row.state
      BY <3>3, AboveBelow
    <3>4. CASE row.device \notin DevicesBelow(a) \/ alarm[id].state = row.state
      <4>1. ActiveBelow(a, Owner[d])' = ActiveBelow(a, Owner[d])
        BY <1>b, <3>4, SameCount DEF IsRow
      <4> QED BY <3>2, <4>1
    <3> QED BY <3>3, <3>4
  <2> QED BY <2>1 DEF Counted
<1>3. Linked'
  <2>1. ASSUME NEW x \in AlarmIds, IsRow(x)'
        PROVE  \/ <<alarm'[x].device, x>> \in entityAlarm'
               \/ \E s \in Replicas : pc'[s] = "link" /\ loc'[s].active = x
    <3>1. CASE x # id
      BY <1>a, <1>b, <2>1, <3>1 DEF CountInv, Linked, IsRow
    <3>2. CASE x = id /\ IsRow(id)
      BY <1>a, <1>b, <3>2 DEF CountInv, Linked, IsRow
    <3>3. CASE x = id /\ ~IsRow(id)
      BY <3>3
    <3> QED BY <3>1, <3>2, <3>3
  <2> QED BY <2>1 DEF Linked
<1> QED BY <1>1, <1>2, <1>3, <1>a DEF CountInv

\* A delivered intent is one of the detector's, and stays the handler's.
LEMMA IntentKept ==
    ASSUME TypeOK, NEW r \in Replicas, Handler(r)
    PROVE  /\ IntentOf(r) \in Intents /\ loc[r] \in Locals /\ pc \in [Replicas -> Labels]
           /\ loc \in [Replicas -> Locals] /\ alarm \in [AlarmIds -> AlarmRow]
           /\ LocalsFit(pc[r], loc[r], Len(stream))
           /\ pc'[r] # "idle" => IntentOf(r)' = IntentOf(r)
<1>1. /\ loc[r] \in Locals /\ pc \in [Replicas -> Labels] /\ loc \in [Replicas -> Locals]
      /\ alarm \in [AlarmIds -> AlarmRow] /\ LocalsFit(pc[r], loc[r], Len(stream))
      /\ stream \in Seq(Intents)
  BY DEF TypeOK, HandlersType, TablesType, BusType
<1>2. pc[r] # "idle" /\ (pc'[r] # "idle" => IntentOf(r)' = IntentOf(r))
  BY HandlerMoves
<1>3. loc[r].msg \in 1..Len(stream)
  BY <1>1, <1>2 DEF LocalsFit
<1>4. IntentOf(r) \in Intents
  BY <1>1, <1>3 DEF IntentOf
<1> QED BY <1>1, <1>2, <1>4

LEMMA FindCounts ==
    ASSUME Undisturbed, TypeOK, CountInv, NEW r \in Replicas, FindActiveAlarm(r)
    PROVE  CountInv'
<1> DEFINE i == IntentOf(r)
<1>0. Handler(r)
  BY DEF Handler
<1>a. /\ i \in Intents /\ loc[r] \in Locals /\ pc \in [Replicas -> Labels]
      /\ loc \in [Replicas -> Locals] /\ alarm \in [AlarmIds -> AlarmRow]
      /\ pc'[r] # "idle" => IntentOf(r)' = i
  BY <1>0, IntentKept
<1>b. /\ pc[r] = "find" /\ Validate(i)
      /\ UNCHANGED <<alarm, alarmCount, entityAlarm, deleting>>
  BY DEF FindActiveAlarm, dbVars, CountInv, AtWork
<1>c. i.action \in {ActionClear, ActionCreateOrUpdate} /\ ActionClear # ActionCreateOrUpdate
  BY <1>b DEF Validate, ActionClear, ActionCreateOrUpdate
<1>d. \A a \in Assets : ~Recounts(r, a)
  BY <1>b DEF Recounts
<1>1. CASE Goto(r, IF i.action = ActionClear THEN "ack" ELSE "insert")
  <2>1. pc'[r] \in {"ack", "insert"} /\ (pc'[r] = "insert" => i.action = ActionCreateOrUpdate)
    BY <1>1, <1>a, <1>c DEF Goto
  <2>2. AtWork(r)'
    BY <2>1, <1>a, <1>b DEF AtWork, Counting
  <2> QED BY <2>2, <1>b, <1>d, CountsLookedAt
<1>2. CASE ~Goto(r, IF i.action = ActionClear THEN "ack" ELSE "insert")
  <2>1. PICK id \in ActiveRows(i.device, i.type) :
          /\ loc' = [loc EXCEPT ![r].active = id]
          /\ pc' = [pc EXCEPT ![r] =
                       IF i.action = ActionClear THEN "clear"
                       ELSE IF Escalates(i, alarm[id]) THEN "escalate" ELSE "extend"]
    BY <1>2 DEF FindActiveAlarm
  <2>2. /\ loc'[r].active = id /\ id \in AlarmIds
        /\ alarm[id].state = "active" /\ alarm[id].device = i.device /\ alarm[id].type = i.type
    BY <2>1, <1>a DEF Locals, ActiveRows
  <2>3. /\ pc'[r] \in {"clear", "escalate", "extend"}
        /\ pc'[r] = "clear" => i.action = ActionClear
        /\ pc'[r] = "escalate" => i.action = ActionCreateOrUpdate /\ Escalates(i, alarm[id])
    BY <2>1, <1>a, <1>c
  <2>4. i.device \in Devices /\ \E j \in Intents : Raises(j, i.device, i.type) /\ j.severity = alarm[id].severity
    BY <2>2 DEF CountInv, Rows, IsRow
  <2>5. pc'[r] \in {"clear", "escalate"} => Home(i)
    <3> SUFFICES ASSUME pc'[r] \in {"clear", "escalate"}, ~Home(i) PROVE FALSE
      OBVIOUS
    <3>1. /\ i.action = ActionCreateOrUpdate
          /\ \A j \in Intents : Raises(j, i.device, i.type) => severityRank(i.severity) <= severityRank(j.severity)
      BY <2>4, <1>a, <1>b DEF Undisturbed
    <3>2. Escalates(i, alarm[id])
      BY <3>1, <2>3, <1>c
    <3>3. severityRank(i.severity) <= severityRank(alarm[id].severity)
      BY <3>1, <2>4
    <3> QED BY <3>2, <3>3, RankType DEF Escalates
  <2>6. AtWork(r)'
    BY <2>2, <2>3, <2>5, <1>a, <1>b DEF AtWork, Counting
  <2> QED BY <2>6, <1>b, <1>d, CountsLookedAt
<1> QED BY <1>1, <1>2

LEMMA WalkCounts ==
    ASSUME Undisturbed, TypeOK, CountInv, NEW r \in Replicas,
           WalkAncestors(r) \/ ResolveKey(r) \/ Ack(r)
    PROVE  CountInv'
<1> DEFINE i == IntentOf(r)
<1>0. Handler(r)
  BY DEF Handler
<1>a. /\ loc[r] \in Locals /\ pc \in [Replicas -> Labels] /\ loc \in [Replicas -> Locals]
      /\ pc'[r] # "idle" => IntentOf(r)' = i
  BY <1>0, IntentKept
<1>b. UNCHANGED <<alarm, alarmCount, entityAlarm, deleting>> /\ AtWork(r) /\ pc[r] # "link"
  BY DEF WalkAncestors, ResolveKey, Ack, dbVars, CountInv
<1>1. CASE WalkAncestors(r)
  <2>1. pc[r] = "walk" /\ pc'[r] = "keyid" /\ loc'[r].todo = Ancestors(i.device)
    BY <1>1, <1>a DEF WalkAncestors, Locals
  <2>2. AtWork(r)'
    BY <2>1, <1>a, <1>b DEF AtWork, Counting
  <2>3. \A a \in Assets : Recounts(r, a) => Recounts(r, a)'
    BY <2>1, <1>a DEF Recounts
  <2> QED BY <2>2, <2>3, <1>b, CountsLookedAt
<1>2. CASE ResolveKey(r)
  <2>1. pc[r] = "keyid" /\ pc'[r] = "count" /\ loc' = loc
    BY <1>2, <1>a DEF ResolveKey, Goto
  <2>2. AtWork(r)'
    BY <2>1, <1>a, <1>b DEF AtWork, Counting
  <2>3. \A a \in Assets : Recounts(r, a) => Recounts(r, a)'
    BY <2>1, <1>a DEF Recounts
  <2> QED BY <2>2, <2>3, <1>b, CountsLookedAt
<1>3. CASE Ack(r)
  <2>1. pc[r] = "ack" /\ pc'[r] = "idle"
    BY <1>3, <1>a DEF Ack, Return
  <2>2. AtWork(r)'
    BY <2>1 DEF AtWork, Counting
  <2>3. \A a \in Assets : ~Recounts(r, a)
    BY <2>1 DEF Recounts
  <2> QED BY <2>2, <2>3, <1>b, CountsLookedAt
<1> QED BY <1>1, <1>2, <1>3

LEMMA CountBelowCounts ==
    ASSUME Undisturbed, TypeOK, CountInv, NEW r \in Replicas, CountBelow(r)
    PROVE  CountInv'
<1> DEFINE i == IntentOf(r)
<1>0. Handler(r)
  BY DEF Handler
<1>a. /\ loc[r] \in Locals /\ pc \in [Replicas -> Labels] /\ loc \in [Replicas -> Locals]
      /\ pc'[r] # "idle" => IntentOf(r)' = i
  BY <1>0, IntentKept
<1>b. /\ UNCHANGED <<alarm, alarmCount, entityAlarm, deleting>>
      /\ AtWork(r) /\ pc[r] = "count" /\ Validate(i) /\ Home(i) /\ loc[r].todo \subseteq Ancestors(i.device)
  BY DEF CountBelow, dbVars, CountInv, AtWork, Counting
<1>1. CASE loc[r].todo = {} /\ Goto(r, "ack")
  <2>1. pc'[r] = "ack"
    BY <1>1, <1>a DEF Goto
  <2>2. AtWork(r)'
    BY <2>1, <1>a, <1>b DEF AtWork, Counting
  <2>3. \A a \in Assets : ~Recounts(r, a)
    BY <1>1, <1>b DEF Recounts
  <2> QED BY <2>2, <2>3, <1>b, CountsLookedAt
<1>2. CASE ~(loc[r].todo = {} /\ Goto(r, "ack"))
  <2>1. PICK a \in loc[r].todo :
            /\ loc' = [loc EXCEPT ![r].asset = a, ![r].todo = @ \ {a},
                                  ![r].count = ActiveBelow(a, i.tenant)]
            /\ pc' = [pc EXCEPT ![r] = "upsert"]
    BY <1>2 DEF CountBelow
  <2> DEFINE n == ActiveBelow(a, i.tenant)
             v == [[[loc[r] EXCEPT !.asset = a] EXCEPT !.todo = @ \ {a}] EXCEPT !.count = n]
  <2>2. loc' = [loc EXCEPT ![r] = v]
    BY <2>1, <1>a
  <2>3. v.asset = a /\ v.todo = loc[r].todo \ {a} /\ v.count = n
    <3> HIDE DEF n
    <3> QED BY <1>a DEF Locals
  <2> HIDE DEF v, n
  <2>4. pc'[r] = "upsert" /\ loc'[r] = v
    BY <2>1, <2>2, <1>a
  <2>5. ActiveBelow(loc[r].asset, IntentOf(r).tenant)' = n
    <3>1. loc'[r].asset = a /\ IntentOf(r)' = i
      BY <2>1, <2>3, <2>4, <1>a
    <3> QED BY <3>1, <1>b DEF n, ActiveBelow, DevicesBelow
  <2>6. AtWork(r)'
    BY <2>1, <2>3, <2>4, <2>5, <1>a, <1>b DEF AtWork, Counting
  <2>7. \A b \in Assets : Recounts(r, b) => Recounts(r, b)'
    BY <2>1, <2>3, <2>4, <1>a, <1>b DEF Recounts
  <2> QED BY <2>6, <2>7, <1>b, CountsLookedAt
<1> QED BY <1>1, <1>2

LEMMA UpsertCounts ==
    ASSUME Undisturbed, TypeOK, CountInv, NEW r \in Replicas, UpsertCount(r)
    PROVE  CountInv'
<1> DEFINE i == IntentOf(r)
           b == loc[r].asset
<1>0. Handler(r)
  BY DEF Handler
<1>a. /\ loc[r] \in Locals /\ pc \in [Replicas -> Labels] /\ loc \in [Replicas -> Locals]
      /\ LocalsFit(pc[r], loc[r], Len(stream)) /\ alarmCount \in [Assets -> Nat]
      /\ pc'[r] # "idle" => IntentOf(r)' = i
  BY <1>0, IntentKept DEF TypeOK, TablesType
<1>b. UNCHANGED <<alarm, entityAlarm, deleting>> /\ pc[r] = "upsert" /\ pc'[r] = "count"
  BY <1>a DEF UpsertCount
<1>c. /\ Validate(i) /\ Home(i) /\ loc[r].todo \subseteq Ancestors(i.device)
      /\ b \in Ancestors(i.device) /\ loc[r].count = ActiveBelow(b, i.tenant) /\ b \in Assets
  BY <1>a, <1>b DEF CountInv, AtWork, Counting, LocalsFit
<1>d. \A x \in Replicas : x = r
  BY DEF Undisturbed, Single
<1>e. loc'[r].todo = loc[r].todo
  BY <1>a DEF UpsertCount, Locals
<1>1. Rows'
  BY <1>b DEF CountInv, Rows, IsRow
<1>2. AtWork(r)'
  BY <1>a, <1>b, <1>c, <1>e DEF AtWork, Counting
<1>3. Counted'
  <2>1. ASSUME NEW a \in Assets, NEW d \in DevicesBelow(a)
        PROVE  alarmCount'[a] = ActiveBelow(a, Owner[d])' \/ \E x \in Replicas : Recounts(x, a)'
    <3>1. ActiveBelow(a, Owner[d])' = ActiveBelow(a, Owner[d])
      BY <1>b, SameCount
    <3>2. CASE a = b
      <4>1. i.device \in DevicesBelow(a)
        BY <3>2, <1>c, AboveBelow DEF Home
      <4>2. Owner[d] = i.tenant
        BY <4>1, <1>c DEF Undisturbed, Home
      <4>3. alarmCount'[a] = loc[r].count
        BY <3>2, <1>a, <1>c DEF UpsertCount
      <4> QED BY <3>1, <3>2, <4>2, <4>3, <1>c
    <3>3. CASE a # b
      <4>1. alarmCount'[a] = alarmCount[a]
        BY <3>3, <1>a DEF UpsertCount
      <4>2. Recounts(r, a) => Recounts(r, a)'
        BY <3>3, <1>a, <1>b, <1>e DEF Recounts
      <4> QED BY <3>1, <4>1, <4>2, <1>d DEF CountInv, Counted
    <3> QED BY <3>2, <3>3
  <2> QED BY <2>1 DEF Counted
<1>4. Linked'
  BY <1>b, <1>d DEF CountInv, Linked, IsRow
<1> QED BY <1>1, <1>2, <1>3, <1>4, <1>b, <1>d DEF CountInv

LEMMA LinkCounts ==
    ASSUME Undisturbed, TypeOK, CountInv, NEW r \in Replicas, LinkEntityAlarm(r)
    PROVE  CountInv'
<1> DEFINE i == IntentOf(r)
           id == loc[r].active
<1>0. Handler(r)
  BY DEF Handler
<1>a. /\ loc[r] \in Locals /\ pc \in [Replicas -> Labels] /\ loc \in [Replicas -> Locals]
      /\ pc'[r] # "idle" => IntentOf(r)' = i
  BY <1>0, IntentKept
<1>b. UNCHANGED <<alarm, alarmCount, deleting>> /\ pc[r] = "link"
  BY DEF LinkEntityAlarm
<1>c. Validate(i) /\ Home(i) /\ IsRow(id) /\ alarm[id].device = i.device
  BY <1>b DEF CountInv, AtWork, Counting, IsRow
<1>d. \A x \in Replicas : x = r
  BY DEF Undisturbed, Single
<1>e. pc'[r] = "walk" /\ loc' = loc /\ entityAlarm' = entityAlarm \cup {<<i.device, id>>}
  BY <1>a, <1>c DEF LinkEntityAlarm, Goto
<1>1. Rows'
  BY <1>b DEF CountInv, Rows, IsRow
<1>2. AtWork(r)'
  BY <1>a, <1>c, <1>e DEF AtWork, Counting
<1>3. Counted'
  <2>1. ASSUME NEW a \in Assets, NEW d \in DevicesBelow(a)
        PROVE  alarmCount'[a] = ActiveBelow(a, Owner[d])' \/ \E x \in Replicas : Recounts(x, a)'
    <3>1. ActiveBelow(a, Owner[d])' = ActiveBelow(a, Owner[d])
      BY <1>b, SameCount
    <3>2. Recounts(r, a) => Recounts(r, a)'
      BY <1>a, <1>b, <1>e DEF Recounts
    <3> QED BY <3>1, <3>2, <1>b, <1>d DEF CountInv, Counted
  <2> QED BY <2>1 DEF Counted
<1>4. Linked'
  BY <1>b, <1>c, <1>d, <1>e DEF CountInv, Linked, IsRow
<1> QED BY <1>1, <1>2, <1>3, <1>4, <1>b, <1>d DEF CountInv

LEMMA ClearCounts ==
    ASSUME Undisturbed, TypeOK, CountInv, NEW r \in Replicas, ClearAlarm(r)
    PROVE  CountInv'
<1> DEFINE i == IntentOf(r)
           id == loc[r].active
           row == [alarm[id] EXCEPT !.state = "cleared", !.clearTs = loc[r].now,
                            !.endTs = IF loc[r].now > @ THEN loc[r].now ELSE @]
<1>0. Handler(r)
  BY DEF Handler
<1>a. /\ loc[r] \in Locals /\ pc \in [Replicas -> Labels] /\ loc \in [Replicas -> Locals]
      /\ alarm \in [AlarmIds -> AlarmRow] /\ LocalsFit(pc[r], loc[r], Len(stream))
      /\ pc'[r] # "idle" => IntentOf(r)' = i
  BY <1>0, IntentKept
<1>b. UNCHANGED <<alarmCount, entityAlarm, deleting>> /\ pc[r] = "clear" /\ id \in AlarmIds
  BY <1>a DEF ClearAlarm, LocalsFit
<1>c. /\ Validate(i) /\ Home(i) /\ IsRow(id) /\ alarm[id].device = i.device
      /\ alarm[id].tenant = Owner[i.device] /\ alarm[id].state = "active"
  BY <1>b DEF CountInv, AtWork, Counting, IsRow, Rows
<1>d. alarm' = [alarm EXCEPT ![id] = row]
  BY <1>c DEF ClearAlarm
<1>e. row.state = "cleared" /\ row.device = alarm[id].device /\ row.tenant = alarm[id].tenant
  BY <1>a, <1>b DEF AlarmRow
<1> HIDE DEF row
<1>f. pc'[r] = "walk"
  BY <1>a DEF ClearAlarm, Goto, AfterClear
<1>1. AtWork(r)'
  BY <1>a, <1>c, <1>f DEF AtWork, Counting
<1>2. \A a \in Assets : a \in Ancestors(row.device) => Recounts(r, a)'
  BY <1>a, <1>c, <1>e, <1>f DEF Recounts
<1> QED BY <1>1, <1>2, <1>b, <1>c, <1>d, <1>e, CountsWritten DEF Counting, Home

LEMMA EscalateCounts ==
    ASSUME Undisturbed, TypeOK, CountInv, NEW r \in Replicas, EscalateAlarm(r)
    PROVE  CountInv'
<1> DEFINE i == IntentOf(r)
           id == loc[r].active
           row == [alarm[id] EXCEPT !.endTs = loc[r].now, !.severity = i.severity]
<1>0. Handler(r)
  BY DEF Handler
<1>a. /\ loc[r] \in Locals /\ pc \in [Replicas -> Labels] /\ loc \in [Replicas -> Locals]
      /\ alarm \in [AlarmIds -> AlarmRow] /\ LocalsFit(pc[r], loc[r], Len(stream))
      /\ pc'[r] # "idle" => IntentOf(r)' = i
      /\ i \in Intents
  BY <1>0, IntentKept
<1>b. UNCHANGED <<alarmCount, entityAlarm, deleting>> /\ pc[r] = "escalate" /\ id \in AlarmIds
  BY <1>a DEF EscalateAlarm, LocalsFit
<1>c. /\ Validate(i) /\ Home(i) /\ IsRow(id) /\ alarm[id].device = i.device
      /\ alarm[id].tenant = Owner[i.device] /\ alarm[id].state = "active"
      /\ alarm[id].type = i.type /\ i.action = ActionCreateOrUpdate
  BY <1>b DEF CountInv, AtWork, Counting, IsRow, Rows
<1>d. alarm' = [alarm EXCEPT ![id] = row]
  BY <1>c DEF EscalateAlarm
<1>e. /\ row.state = "active" /\ row.device = i.device /\ row.tenant = alarm[id].tenant
      /\ row.type = i.type /\ row.severity = i.severity
  BY <1>a, <1>b, <1>c DEF AlarmRow
<1> HIDE DEF row
<1>f. pc'[r] = "walk"
  BY <1>a DEF EscalateAlarm, Goto
<1>1. AtWork(r)'
  BY <1>a, <1>c, <1>f DEF AtWork, Counting
<1>2. Raises(i, row.device, row.type)
  BY <1>c, <1>e DEF Raises
<1> QED BY <1>1, <1>2, <1>a, <1>b, <1>c, <1>d, <1>e, CountsWritten DEF Counting, Home

LEMMA ExtendCounts ==
    ASSUME Undisturbed, TypeOK, CountInv, NEW r \in Replicas, ExtendAlarm(r)
    PROVE  CountInv'
<1> DEFINE i == IntentOf(r)
           id == loc[r].active
           row == [alarm[id] EXCEPT !.endTs = loc[r].now]
<1>0. Handler(r)
  BY DEF Handler
<1>a. /\ loc[r] \in Locals /\ pc \in [Replicas -> Labels] /\ loc \in [Replicas -> Locals]
      /\ alarm \in [AlarmIds -> AlarmRow] /\ LocalsFit(pc[r], loc[r], Len(stream))
      /\ pc'[r] # "idle" => IntentOf(r)' = i
  BY <1>0, IntentKept
<1>b. UNCHANGED <<alarmCount, entityAlarm, deleting>> /\ pc[r] = "extend" /\ id \in AlarmIds
  BY <1>a DEF ExtendAlarm, LocalsFit
<1>c. /\ Validate(i) /\ alarm[id].state = "active" /\ IsRow(id) /\ alarm[id].device \in Devices
      /\ alarm[id].tenant = Owner[alarm[id].device]
      /\ \E j \in Intents : Raises(j, alarm[id].device, alarm[id].type) /\ j.severity = alarm[id].severity
  BY <1>b DEF CountInv, AtWork, Counting, IsRow, Rows
<1>d. alarm' = [alarm EXCEPT ![id] = row]
  BY <1>c DEF ExtendAlarm
<1>e. /\ row.state = "active" /\ row.device = alarm[id].device /\ row.tenant = alarm[id].tenant
      /\ row.type = alarm[id].type /\ row.severity = alarm[id].severity
  BY <1>a, <1>b, <1>c DEF AlarmRow
<1> HIDE DEF row
<1>f. pc'[r] = "ack"
  BY <1>a DEF ExtendAlarm, Goto
<1>1. AtWork(r)'
  BY <1>a, <1>c, <1>f DEF AtWork, Counting
<1> QED BY <1>1, <1>b, <1>c, <1>d, <1>e, CountsWritten DEF Counting

LEMMA InsertCounts ==
    ASSUME Undisturbed, TypeOK, CountInv, NEW r \in Replicas, InsertAlarm(r)
    PROVE  CountInv'
<1> DEFINE i == IntentOf(r)
<1>0. Handler(r)
  BY DEF Handler
<1>a. /\ loc[r] \in Locals /\ pc \in [Replicas -> Labels] /\ loc \in [Replicas -> Locals]
      /\ alarm \in [AlarmIds -> AlarmRow] /\ live \subseteq Devices
      /\ pc'[r] # "idle" => IntentOf(r)' = i
      /\ i \in Intents
  BY <1>0, IntentKept DEF TypeOK, TablesType
<1>b. /\ UNCHANGED <<alarmCount, entityAlarm, deleting>> /\ pc[r] = "insert"
      /\ Validate(i) /\ i.action = ActionCreateOrUpdate
  BY DEF InsertAlarm, CountInv, AtWork
<1>1. CASE i.device \in live /\ Owner[i.device] = i.tenant
  <2> DEFINE row == [state |-> "active", device |-> i.device, type |-> i.type,
                     tenant |-> i.tenant, severity |-> i.severity, startTs |-> loc[r].now,
                     endTs |-> loc[r].now, clearTs |-> 0, acknowledged |-> FALSE]
  <2>1. PICK id \in AlarmIds :
          alarm[id].state = "free" /\ alarm' = [alarm EXCEPT ![id] = row]
          /\ loc' = [loc EXCEPT ![r].active = id]
    BY <1>1 DEF InsertAlarm
  <2>2. /\ row.state = "active" /\ row.device = i.device /\ row.tenant = i.tenant
        /\ row.type = i.type /\ row.severity = i.severity
    OBVIOUS
  <2>3. alarm'[id] = row
    BY <2>1, <1>a
  <2> HIDE DEF row
  <2>4. pc'[r] = "link" /\ loc'[r].active = id
    BY <1>1, <2>1, <1>a DEF InsertAlarm, AfterInsert, Locals
  <2>5. Home(i)
    BY <1>1, <1>a DEF Home
  <2>6. AtWork(r)'
    BY <2>2, <2>3, <2>4, <2>5, <1>a, <1>b DEF AtWork, Counting
  <2>7. Raises(i, row.device, row.type)
    BY <2>2, <2>5, <1>b DEF Raises
  <2>8. \A a \in Assets : a \in Ancestors(row.device) => Recounts(r, a)'
    BY <2>2, <2>4, <1>a DEF Recounts
  <2> QED BY <2>1, <2>2, <2>4, <2>5, <2>6, <2>7, <2>8, <1>a, <1>b, CountsWritten DEF Counting, Home
<1>2. CASE ~(i.device \in live /\ Owner[i.device] = i.tenant)
  <2>1. pc'[r] = "ack" /\ UNCHANGED alarm
    BY <1>2, <1>a DEF InsertAlarm, OriginatorMissing, Goto
  <2>2. AtWork(r)'
    BY <2>1, <1>a, <1>b DEF AtWork, Counting
  <2>3. \A a \in Assets : ~Recounts(r, a)
    BY <1>b DEF Recounts
  <2> QED BY <2>1, <2>2, <2>3, <1>b, CountsLookedAt
<1> QED BY <1>1, <1>2

LEMMA CountInvInit == Undisturbed /\ Init => CountInv
<1> SUFFICES ASSUME Undisturbed, Init PROVE CountInv
  OBVIOUS
<1>1. deleting = {} /\ \A id \in AlarmIds : ~IsRow(id) /\ alarm[id].state # "active"
  BY DEF Init, Free, IsRow
<1>2. \A r \in Replicas : pc[r] = "idle"
  BY DEF Init
<1>3. ASSUME NEW a \in Assets, NEW d \in DevicesBelow(a) PROVE alarmCount[a] = ActiveBelow(a, Owner[d])
  <2>1. {id \in AlarmIds : /\ alarm[id].state = "active" /\ alarm[id].tenant = Owner[d]
                           /\ alarm[id].device \in DevicesBelow(a)} = {}
    BY <1>1
  <2>2. ActiveBelow(a, Owner[d]) = Cardinality({})
    BY <2>1 DEF ActiveBelow
  <2> QED BY <2>2, FS_EmptySet DEF Init
<1> QED BY <1>1, <1>2, <1>3 DEF CountInv, Rows, AtWork, Counted, Linked, Counting

\* The detector, the clock and the delivery touch no table.
LEMMA WaitingCounts ==
    ASSUME Undisturbed, TypeOK, CountInv,
           UNCHANGED <<dbVars, pc, loc>>, \A r \in Replicas : pc[r] # "idle" => IntentOf(r)' = IntentOf(r)
    PROVE  CountInv'
<1>1. \A a, t : ActiveBelow(a, t)' = ActiveBelow(a, t)
  BY SameCount DEF dbVars
<1>2. ASSUME NEW r \in Replicas PROVE AtWork(r)'
  <2>1. CASE pc[r] = "idle"
    BY <2>1 DEF AtWork, Counting
  <2>2. CASE pc[r] # "idle"
    <3>1. IntentOf(r)' = IntentOf(r) /\ UNCHANGED <<alarm, pc, loc>> /\ AtWork(r)
      BY <2>2 DEF dbVars, CountInv
    <3>2. ActiveBelow(loc[r].asset, IntentOf(r).tenant)' = ActiveBelow(loc[r].asset, IntentOf(r).tenant)
      BY <3>1 DEF ActiveBelow, DevicesBelow
    <3> QED BY <3>1, <3>2 DEF AtWork
  <2> QED BY <2>1, <2>2
<1>3. \A r \in Replicas, a \in Assets : Recounts(r, a) => Recounts(r, a)'
  BY DEF Recounts
<1>4. Counted'
  BY <1>1, <1>3 DEF CountInv, Counted, dbVars
<1>5. Rows' /\ Linked' /\ deleting' = {}
  BY DEF CountInv, Rows, Linked, IsRow, dbVars
<1> QED BY <1>2, <1>4, <1>5 DEF CountInv

LEMMA CountInvStep ==
    ASSUME Undisturbed, TypeOK, CountInv, [Next]_vars PROVE CountInv'
<1>a. pc \in [Replicas -> Labels] /\ loc \in [Replicas -> Locals]
  BY DEF TypeOK, HandlersType
<1>1. CASE UNCHANGED vars
  BY <1>1, WaitingCounts DEF vars, busVars, IntentOf
<1>2. CASE Tick
  BY <1>2, WaitingCounts DEF Tick, busVars, IntentOf
<1>3. ASSUME NEW i \in Intents, Publish(i) PROVE CountInv'
  BY <1>3, PublishMoves, WaitingCounts
<1>4. ASSUME NEW r \in Replicas, NEW m \in 1..Len(stream), Deliver(r, m) PROVE CountInv'
  <2>1. pc[r] = "idle" /\ UNCHANGED <<stream, alarm, alarmCount, entityAlarm, deleting>>
    BY <1>4 DEF Deliver, dbVars
  <2>2. \/ UNCHANGED <<pc, loc>>
        \/ pc'[r] = "find" /\ loc'[r].msg = m /\ Validate(stream[m])
    BY <1>4, <1>a DEF Deliver, Locals
  <2>3. AtWork(r)'
    BY <2>1, <2>2 DEF AtWork, Counting, IntentOf
  <2>4. \A a \in Assets : ~Recounts(r, a)
    BY <2>1 DEF Recounts
  <2> QED BY <2>1, <2>3, <2>4, CountsLookedAt
<1>5. ASSUME NEW r \in Replicas, Handler(r) PROVE CountInv'
  BY <1>5, FindCounts, ClearCounts, EscalateCounts, ExtendCounts, InsertCounts, LinkCounts, WalkCounts,
     CountBelowCounts, UpsertCounts DEF Handler
<1>6. ASSUME NEW r \in Replicas, FaultStep(r) PROVE CountInv'
  <2>1. AckLost(r)
    BY <1>6 DEF FaultStep, StatementFails, Crash, KeyDictFails, Fault, Undisturbed
  <2>2. pc[r] = "ack" /\ pc'[r] = "idle" /\ UNCHANGED <<alarm, alarmCount, entityAlarm, deleting>>
    BY <2>1, <1>a DEF AckLost, Return, dbVars
  <2>3. AtWork(r)' /\ \A a \in Assets : ~Recounts(r, a)
    BY <2>2 DEF AtWork, Counting, Recounts
  <2> QED BY <2>2, <2>3, CountsLookedAt
<1>7. ~Operator
  BY DEF Operator, AckByOperator, ClearByOperator, Retention, DeleteDeviceAlarms, CommitDeviceDelete,
         AbortDeviceDelete, Undisturbed, CountInv
<1> QED BY <1>1, <1>2, <1>3, <1>4, <1>5, <1>6, <1>7 DEF Next

(* When one replica has applied every intent and only redeliveries came in  *)
(* between, every alarm is in its device's list and every asset above       *)
(* devices carries the number of active alarms below it, however many       *)
(* intents opened, escalated and cleared alarms under the same asset:       *)
(* ApplyIntent refreshes the counts of every ancestor after each write that *)
(* changes them, and what it has not counted yet is out of date only while  *)
(* the handler is on its way to count it (alarms.go).                       *)
THEOREM SettledCounts ==
    ASSUME Undisturbed
    PROVE  Spec => []SettledTablesAgree
<1>1. Init => TypeOK /\ CountInv
  BY InitType, CountInvInit
<1>2. TypeOK /\ CountInv /\ [Next]_vars => (TypeOK /\ CountInv)'
  BY StepType, CountInvStep
<1>3. CountInv => SettledTablesAgree
  <2> SUFFICES ASSUME CountInv, Settled PROVE SettledTablesAgree
    BY DEF SettledTablesAgree
  <2>1. \A r \in Replicas : pc[r] = "idle"
    BY DEF Settled, Quiet
  <2>2. \A id \in AlarmIds : IsRow(id) => <<alarm[id].device, id>> \in entityAlarm
    BY <2>1 DEF CountInv, Linked
  <2>3. \A a \in Assets : \A d \in DevicesBelow(a) : alarmCount[a] = ActiveBelow(a, Owner[d])
    BY <2>1 DEF CountInv, Counted, Recounts
  <2> QED BY <2>2, <2>3 DEF SettledTablesAgree
<1> QED BY <1>1, <1>2, <1>3, PTL DEF Spec
=============================================================================
