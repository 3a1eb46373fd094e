-------------------------------- MODULE Rpc --------------------------------
(***************************************************************************)
(* Commands to devices (rpc.go, handler.go).  A replica that takes a       *)
(* two-way call registers its request id, has the broker publish the       *)
(* command and waits for the reply, its timeout or the caller to hang up.  *)
(* Replies come over core NATS to every replica that listens, at most      *)
(* once, and the replica that waits is the one that knows the id.          *)
(*                                                                         *)
(* A request id is fresh (a uuid), so a call is its own id.  The broker    *)
(* delivers with QoS 1: a device may execute a command twice, and a        *)
(* publish the broker has accepted may look failed to the replica.         *)
(***************************************************************************)
EXTENDS Naturals, FiniteSets, TLC

CONSTANTS
  Replicas,
  Calls,        \* request ids
  RpcDevices,
  Owner,        \* the tenant of each device
  Commands,     \* [tenant, device, oneway, replica]: what callers ask for
  MaxReplies,   \* bound: replies of the devices
  Nobody

\* How a call ends without a reply.
Outcomes == {"forbidden", "noReplies", "offline", "broker", "accepted", "timeout", "canceled"}

ASSUME RpcAssumption ==
  /\ \A x \in Commands : x.device \in RpcDevices /\ x.oneway \in BOOLEAN /\ x.replica \in Replicas
  /\ Nobody \notin RpcDevices /\ RpcDevices \cap Outcomes = {}

VARIABLES
  listening,    \* repliesReady of each replica
  call,         \* [pc, command, result] of each call
  pending,      \* map pending of each replica
  channel,      \* the buffered channel of each registered call: who replied
  inbox,        \* commands the broker has for a device: [call, device]
  replies,      \* replies under way to a replica: [to, call, device, claim]
  replied,      \* replies so far
  online,       \* devices with a session at the broker
  answered      \* calls whose replica has handled a reply for them (history)

rpcVars == <<listening, call, pending, channel, inbox, replies, replied, online, answered>>

NoCall == [pc |-> "unused", command |-> Nobody, result |-> Nobody]
ReplicaOf(c) == call[c].command.replica
DeviceOf(c) == call[c].command.device
UnderWay(c) == call[c].pc \in {"register", "publish", "published", "wait"}

-----------------------------------------------------------------------------
(* What surrounds a call.                                                  *)

\* StartResponseListener: retried until it subscribes; it stays subscribed.
StartResponseListener(r) ==
  /\ ~listening[r]
  /\ listening' = [listening EXCEPT ![r] = TRUE]
  /\ UNCHANGED <<call, pending, channel, inbox, replies, replied, online, answered>>

Connect(d) ==
  /\ online' = IF d \in online THEN online \ {d} ELSE online \cup {d}
  /\ UNCHANGED <<listening, call, pending, channel, inbox, replies, replied, answered>>

\* The device executes a command and replies; the command is delivered again or
\* not, and the reply reaches the replicas that listen, or only some of them.
\* The user name forwarded with it claims its identity, as none does, or another.
DeviceReplies(m) ==
  /\ m \in inbox /\ m.device \in online /\ replied < MaxReplies
  /\ replied' = replied + 1
  /\ \E again \in BOOLEAN : inbox' = IF again THEN inbox ELSE inbox \ {m}
  /\ \E claim \in RpcDevices, hearers \in SUBSET {r \in Replicas : listening[r]} :
       replies' = replies \cup {[to |-> r, call |-> m.call, device |-> m.device, claim |-> claim] : r \in hearers}
  /\ UNCHANGED <<listening, call, pending, channel, online, answered>>

\* A reply whose user name claims another identity than its topic is dropped.
Trusted(m) == m.claim = m.device

\* handleResponse: a reply to an unregistered id is dropped, a second one too.
HandleResponse(m) ==
  /\ m \in replies
  /\ replies' = replies \ {m}
  /\ channel' = IF Trusted(m) /\ m.call \in pending[m.to] /\ channel[m.call] = Nobody
                THEN [channel EXCEPT ![m.call] = m.device] ELSE channel
  /\ answered' = IF Trusted(m) /\ ReplicaOf(m.call) = m.to /\ UnderWay(m.call)
                 THEN answered \cup {m.call} ELSE answered
  /\ UNCHANGED <<listening, call, pending, inbox, replied, online>>

-----------------------------------------------------------------------------
(* A call.                                                                 *)

Ends(c, result) ==
  call' = [call EXCEPT ![c] = [pc |-> "over", command |-> call[c].command, result |-> result]]

\* The steps of SendTwoway in their order: the id is registered before the
\* command is published, "a fast device can reply before publish() even returns".
FollowsUnregistered == [online |-> "publish", published |-> "register", register |-> "wait"]
Follows == [online |-> "register", register |-> "publish", published |-> "wait"]
Proceeds(c) == call' = [call EXCEPT ![c].pc = Follows[@]]

\* Handle and the first checks of SendOneway and SendTwoway.
Handle(c, x) ==
  LET start(pc, result) == [pc |-> pc, command |-> x, result |-> result]
  IN  /\ call[c] = NoCall
      /\ call' = [call EXCEPT ![c] =
                    IF Owner[x.device] # x.tenant THEN start("over", "forbidden")
                    ELSE IF ~x.oneway /\ ~listening[x.replica] THEN start("over", "noReplies")
                    ELSE start("online", Nobody)]
      /\ UNCHANGED <<listening, pending, channel, inbox, replies, replied, online, answered>>

\* IsOnline: a broker that does not answer counts as a device that is online.
IsOnline(c) ==
  /\ call[c].pc = "online"
  /\ \/ DeviceOf(c) \notin online /\ Ends(c, "offline")
     \/ IF call[c].command.oneway THEN call' = [call EXCEPT ![c].pc = "publish"] ELSE Proceeds(c)
  /\ UNCHANGED <<listening, pending, channel, inbox, replies, replied, online, answered>>

Register(c) ==
  /\ call[c].pc = "register"
  /\ pending' = [pending EXCEPT ![ReplicaOf(c)] = @ \cup {c}]
  /\ Proceeds(c)
  /\ UNCHANGED <<listening, channel, inbox, replies, replied, online, answered>>

Unregistered(c) == [pending EXCEPT ![ReplicaOf(c)] = @ \ {c}]

\* The broker takes the command, which it keeps only for a device that has a
\* session, or does not.
Publish(c) ==
  /\ call[c].pc = "publish"
  /\ \/ inbox' = inbox
     \/ DeviceOf(c) \in online /\ inbox' = inbox \cup {[call |-> c, device |-> DeviceOf(c)]}
  /\ call' = [call EXCEPT ![c].pc = "published"]
  /\ UNCHANGED <<listening, pending, channel, replies, replied, online, answered>>

\* The answer of the broker, which may also be lost.
PublishReturns(c) ==
  /\ call[c].pc = "published"
  /\ \/ Ends(c, "broker") /\ pending' = Unregistered(c)
     \/ /\ IF call[c].command.oneway THEN Ends(c, "accepted") ELSE Proceeds(c)
        /\ UNCHANGED pending
  /\ channel' = IF call'[c].pc = "over" THEN [channel EXCEPT ![c] = Nobody] ELSE channel
  /\ UNCHANGED <<listening, inbox, replies, replied, online, answered>>

\* The select: of what is ready any may be taken, also a timeout next to a reply.
Return(c) ==
  /\ call[c].pc = "wait"
  /\ \/ channel[c] # Nobody /\ Ends(c, channel[c])
     \/ Ends(c, "timeout")
     \/ Ends(c, "canceled")
  /\ pending' = Unregistered(c)
  /\ channel' = [channel EXCEPT ![c] = Nobody]
  /\ UNCHANGED <<listening, inbox, replies, replied, online, answered>>

-----------------------------------------------------------------------------
RpcInit ==
  /\ listening = [r \in Replicas |-> FALSE]
  /\ call = [c \in Calls |-> NoCall]
  /\ pending = [r \in Replicas |-> {}]
  /\ channel = [c \in Calls |-> Nobody]
  /\ inbox = {} /\ replies = {} /\ answered = {}
  /\ replied = 0
  /\ online = RpcDevices

RpcNext ==
  \/ \E r \in Replicas : StartResponseListener(r)
  \/ \E d \in RpcDevices : Connect(d)
  \/ \E m \in inbox : DeviceReplies(m)
  \/ \E m \in replies : HandleResponse(m)
  \/ \E c \in Calls : IsOnline(c) \/ Register(c) \/ Publish(c) \/ PublishReturns(c) \/ Return(c) \/ \E x \in Commands : Handle(c, x)

RpcSpec == RpcInit /\ [][RpcNext]_rpcVars

-----------------------------------------------------------------------------
\* A reply that its replica has handled while a two-way call is under way is there for
\* the call to take, however fast the device was and however many replies there
\* are; a call ends with the reply of the device it was sent to or with an error,
\* and leaves nothing registered.
AnswersReachCallers ==
  /\ \A c \in answered : UnderWay(c) /\ ~call[c].command.oneway => channel[c] # Nobody
  /\ \A c \in Calls : call[c].result \in RpcDevices => call[c].result = DeviceOf(c)
  /\ \A r \in Replicas : \A c \in pending[r] : UnderWay(c) /\ ReplicaOf(c) = r
=============================================================================
