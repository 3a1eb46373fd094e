---------------------------- MODULE DeviceState ----------------------------
(***************************************************************************)
(* What a device is told and what it tells (desiredstate/).  A write of    *)
(* the twin that carries desired properties starts one goroutine that      *)
(* publishes those of this write, retained, on the device's topic.  Values *)
(* the device reports reach every replica over core NATS, and each saves   *)
(* them as CLIENT_SCOPE through the path of TwinStore.                     *)
(*                                                                         *)
(* One device.  Values are numbers that grow, so a later one is a newer    *)
(* one; a payload is the set of features it names with one value.          *)
(***************************************************************************)
EXTENDS Naturals, Sequences, FiniteSets, TLC

CONSTANTS
  Listeners,     \* replicas that subscribe to the reported subject
  Features,
  MaxWrites, MaxReports, \* bounds
  Nothing        \* no payload

ASSUME DeviceStateAssumption ==
  /\ Listeners # {} /\ MaxWrites \in Nat /\ MaxReports \in Nat
  /\ \A fs \in SUBSET Features, v \in 1..MaxWrites : [f \in fs |-> v] # Nothing

VARIABLES
  connected,     \* has the device a session
  desired,       \* committed desired value of each feature
  writes,        \* writes so far
  deliveries,    \* goroutines that have not published yet: payloads
  retained,      \* the retained message of the topic
  seen,          \* the last payload the device has received
  lastPayload,   \* the payload of the last write (history)
  disturbed,     \* two deliveries overlapped, or one failed (history)
  subject,       \* messages each listener has not handled: [topic, value]
  reports,       \* messages so far
  lastReported,  \* the last value the device reported (history)
  clientScope,        \* the CLIENT_SCOPE value of the device
  missed         \* a listener lost a message or a save failed (history)

desiredVars == <<connected, desired, writes, deliveries, retained, seen, lastPayload, disturbed>>
reportedVars == <<subject, reports, lastReported, clientScope, missed>>
deviceStateVars == <<desiredVars, reportedVars>>

-----------------------------------------------------------------------------
(* Desired state.                                                          *)

\* The payload names the features of this write only, whatever others want.
ExtractDesiredPayload(fs, v) == [f \in fs |-> v]

\* A write of the twin (twin/write.go): committed, then the goroutine started.
SaveDesired(fs) ==
  /\ writes < MaxWrites
  /\ writes' = writes + 1
  /\ desired' = [f \in Features |-> IF f \in fs THEN writes + 1 ELSE desired[f]]
  /\ deliveries' = deliveries \cup {ExtractDesiredPayload(fs, writes + 1)}
  /\ lastPayload' = ExtractDesiredPayload(fs, writes + 1)
  /\ disturbed' = (disturbed \/ deliveries # {})
  /\ UNCHANGED <<connected, retained, seen, reportedVars>>

\* publishRetained: the broker keeps the message and hands it to who is connected.
PublishRetained(p) ==
  /\ retained' = p
  /\ seen' = IF connected THEN p ELSE seen

DeliverDesired(p) ==
  /\ p \in deliveries
  /\ PublishRetained(p)
  /\ deliveries' = deliveries \ {p}
  /\ UNCHANGED <<connected, desired, writes, lastPayload, disturbed, reportedVars>>

\* The broker does not answer, or the device is not found: a warning.
DeliveryFails(p) ==
  /\ p \in deliveries
  /\ deliveries' = deliveries \ {p}
  /\ disturbed' = TRUE
  /\ UNCHANGED <<connected, desired, writes, retained, seen, lastPayload, reportedVars>>

\* A device that connects subscribes and is sent the retained message.
Reconnect ==
  /\ connected' = ~connected
  /\ seen' = IF connected' /\ retained # Nothing THEN retained ELSE seen
  /\ UNCHANGED <<desired, writes, deliveries, retained, lastPayload, disturbed, reportedVars>>

-----------------------------------------------------------------------------
(* Reported state.                                                         *)

\* Core NATS gives a message to every subscription: there is no queue group.
QueueGroup(m) ==
  \E r \in Listeners : subject' = [subject EXCEPT ![r] = Append(@, m)] /\ UNCHANGED missed
Subscribed(m) ==
  \E hearers \in SUBSET Listeners :
    /\ subject' = [r \in Listeners |-> IF r \in hearers THEN Append(subject[r], m) ELSE subject[r]]
    /\ missed' = (missed \/ hearers # Listeners)

\* The raw subject carries what devices report and their telemetry.
DeviceReports(topic) ==
  /\ reports < MaxReports
  /\ reports' = reports + 1
  /\ lastReported' = IF topic = "attributes" THEN reports + 1 ELSE lastReported
  /\ Subscribed([topic |-> topic, value |-> reports + 1])
  /\ UNCHANGED <<desiredVars, clientScope>>

\* handleReportedMessage: one at a time and in order at each replica; a save that
\* fails is logged, and what is not on the attributes topic is not for it.
HandleReportedMessage(r) ==
  LET m == Head(subject[r])
  IN  /\ subject[r] # <<>>
      /\ subject' = [subject EXCEPT ![r] = Tail(@)]
      /\ \/ m.topic = "attributes" /\ clientScope' = m.value /\ UNCHANGED missed
         \/ m.topic = "attributes" /\ missed' = TRUE /\ UNCHANGED clientScope
         \/ m.topic # "attributes" /\ UNCHANGED <<clientScope, missed>>
      /\ UNCHANGED <<desiredVars, reports, lastReported>>

-----------------------------------------------------------------------------
DeviceStateInit ==
  /\ connected = FALSE
  /\ desired = [f \in Features |-> 0]
  /\ writes = 0 /\ deliveries = {}
  /\ retained = Nothing /\ seen = Nothing /\ lastPayload = Nothing
  /\ disturbed = FALSE
  /\ subject = [r \in Listeners |-> <<>>]
  /\ reports = 0 /\ lastReported = 0 /\ clientScope = 0 /\ missed = FALSE

DeviceStateNext ==
  \/ \E fs \in (SUBSET Features) \ {{}} : SaveDesired(fs)
  \/ \E p \in deliveries : DeliverDesired(p) \/ DeliveryFails(p)
  \/ Reconnect
  \/ \E topic \in {"attributes", "telemetry"} : DeviceReports(topic)
  \/ \E r \in Listeners : HandleReportedMessage(r)

DeviceStateSpec == DeviceStateInit /\ [][DeviceStateNext]_deviceStateVars

-----------------------------------------------------------------------------
\* The retained topic brings a device what was written last, also if it was
\* offline at the time, provided that no two deliveries overlap and none fails.
LastWriteReachesDevice ==
  ~disturbed /\ deliveries = {} /\ connected => seen = lastPayload

\* All replicas save every reported message, in any order of their own; when all
\* have, and none has lost one, the store holds what the device reported last.
LastReportWins ==
  ~missed /\ (\A r \in Listeners : subject[r] = <<>>) => clientScope = lastReported

\* Both ways: when all is quiet and nothing was lost, the device and the store
\* agree.  Of a retained payload this says only what the last write carried: the
\* features an earlier write wanted are not in it (delivery.go has the desired
\* state "reach the device even if it was offline when written").
DeviceAndStoreAgree == LastWriteReachesDevice /\ LastReportWins
=============================================================================
