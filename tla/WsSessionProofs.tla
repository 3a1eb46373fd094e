-------------------------- MODULE WsSessionProofs --------------------------
(***************************************************************************)
(* Safety of the session locks, for any number of connections,             *)
(* broadcasters, commands and broadcasts; and below, what one session is   *)
(* answered and pushed, for any messages, entities, relations and events.  *)
(*                                                                         *)
(* The argument: session.mu names its owner, and whoever is inside         *)
(* WriteJSON, the handler apart, owns it (Locks); a broadcast is at one    *)
(* session at a time, and since a removal waits until nobody walks over    *)
(* the map, all it has still to visit stay registered (Walks).             *)
(***************************************************************************)
EXTENDS WsSession, WsCommands, FiniteSetTheorems, SequenceTheorems, TLAPS

Walks ==
  \A b \in Broadcasters :
    /\ bc[b].pc \in {"idle", "walk"} => bc[b].at = {}
    /\ bc[b].pc = "idle" => bc[b].todo = {}
    /\ \A s, t \in bc[b].at : s = t
    /\ bc[b].todo \cup bc[b].at \subseteq sessions

Locks ==
  \A s \in Sessions :
    /\ \A b \in Broadcasters : mu[s] = b <=> s \in bc[b].at
    /\ writing[s] \ {Handler} \subseteq {mu[s]}
    /\ \A b \in Broadcasters : (s \in bc[b].at /\ bc[b].pc = "locked") => b \notin writing[s]

Inv == TypeOK /\ Walks /\ Locks

USE DEF connVars, peerVars, sessionVars, managerVars

------------------------------------------------------------------------------
(* What the handler, the pinger, clients and time do not touch.            *)
Outside(s) ==
  \/ Connect(s) \/ ReadCommand(s)
  \/ SubscribeCommand(s) \/ QueryCommand(s) \/ NotificationsCommand(s)
  \/ AnswerReturns(s) \/ AnswerFits(s) \/ ReadFails(s)
  \/ PingTick(s) \/ PingWorks(s) \/ PingFails(s) \/ PingBlocks(s) \/ PingStops(s)
  \/ Expire(s) \/ Stall(s) \/ Leave(s) \/ Panic

LEMMA OutsideEffect ==
  ASSUME TypeOK, NEW s \in Sessions, Outside(s)
  PROVE  /\ UNCHANGED <<bc, sessions, mu>>
         /\ \A t \in Sessions : /\ writing'[t] \ {Handler} = writing[t] \ {Handler}
                                /\ query'[t] = "write" <=> query[t] = "write"
<1>1. CASE Connect(s) \/ ReadCommand(s) \/ ReadFails(s) \/ Expire(s) \/ Stall(s) \/ Leave(s) \/ Panic
  BY <1>1 DEF Connect, ReadCommand, ReadFails, Expire, Stall, Leave, Panic
<1>2. CASE SubscribeCommand(s)
  BY <1>2 DEF SubscribeCommand, Handle
<1>3. CASE QueryCommand(s)
  BY <1>3 DEF QueryCommand, Handle, TypeOK
<1>4. CASE NotificationsCommand(s)
  BY <1>4 DEF NotificationsCommand, Handle, Begin, TypeOK
<1>5. CASE AnswerReturns(s) \/ AnswerFits(s)
  BY <1>5 DEF AnswerReturns, AnswerFits, Answered, End, TypeOK
<1>6. CASE PingTick(s) \/ PingWorks(s) \/ PingFails(s) \/ PingBlocks(s) \/ PingStops(s)
  BY <1>6 DEF PingTick, PingWorks, PingFails, PingBlocks, PingErrs, PingStops, Ping
<1> QED BY <1>1, <1>2, <1>3, <1>4, <1>5, <1>6 DEF Outside

(* The disjuncts of Next, by what they change.                             *)
Query_(s) == QueryWrite(s) \/ QueryReturns(s) \/ QueryFits(s)
Broadcast(b) == StartBroadcast(b) \/ WalkStep(b) \/ \E s \in Sessions : PushFits(b, s)

LEMMA NextCases ==
  ASSUME Next
  PROVE  \/ \E s \in Sessions : Outside(s) \/ Register(s) \/ Unregister(s) \/ Query_(s)
         \/ \E b \in Broadcasters : Broadcast(b)
         \/ Panic
<1> USE DEF Next, Outside, Query_, Broadcast
<1>1. CASE Panic
  BY <1>1
<1>2. CASE \E b \in Broadcasters :
             \/ StartBroadcast(b) \/ WalkStep(b)
             \/ \E s \in Sessions : PushFits(b, s)
  BY <1>2
<1>3. ASSUME NEW s \in Sessions,
             \/ Request(s) \/ SessionStep(s) \/ QueryStep(s) \/ PingStep(s)
             \/ Expire(s) \/ AnswerFits(s) \/ QueryFits(s) \/ Stall(s) \/ Leave(s)
      PROVE  Outside(s) \/ Register(s) \/ Unregister(s) \/ Query_(s)
  BY <1>3 DEF Request, SessionStep, Commands, QueryStep, PingStep
<1> QED BY <1>1, <1>2, <1>3

------------------------------------------------------------------------------
(* Types.                                                                  *)
LEMMA InitInv == Init => Inv
<1> SUFFICES ASSUME Init PROVE Inv
  OBVIOUS
<1> USE WsAssumption DEF Init
<1>1. TypeOK
  BY DEF TypeOK, NotWalking, Writers
<1>2. Walks
  BY DEF Walks, NotWalking
<1>3. Locks
  BY DEF Locks, NotWalking, Writers
<1> QED BY <1>1, <1>2, <1>3 DEF Inv

LEMMA WritingType ==
  ASSUME TypeOK, NEW x \in Writers, NEW s \in Sessions, Begin(x, s) \/ End(x, s)
  PROVE  writing' \in [Sessions -> SUBSET Writers]
BY DEF TypeOK, Begin, End

LEMMA NobodyElse == "nobody" # Query /\ Handler # Query /\ Handler \in Writers /\ Query \in Writers
BY WsAssumption DEF Writers

LEMMA OutsideType ==
  ASSUME TypeOK, NEW s \in Sessions, Outside(s)
  PROVE  TypeOK'
<1> USE WsAssumption DEF TypeOK
<1>1. CASE Connect(s)
  BY <1>1 DEF Connect
<1>2. CASE ReadCommand(s)
  <2>1. commands[s] + 1 \in 0 .. MaxCommands
    BY <1>2 DEF ReadCommand
  <2> QED BY <1>2, <2>1 DEF ReadCommand
<1>3. CASE ReadFails(s)
  BY <1>3 DEF ReadFails
<1>4. CASE Expire(s)
  BY <1>4 DEF Expire
<1>5. CASE Stall(s) \/ Leave(s)
  <2>1. client' \in [Sessions -> {"reading", "stalled", "left", "silent"}]
    BY <1>5 DEF Stall, Leave
  <2> QED BY <1>5, <2>1 DEF Stall, Leave
<1>11. CASE Panic
  BY <1>11 DEF Panic
<1>6. CASE SubscribeCommand(s)
  BY <1>6 DEF SubscribeCommand, Handle
<1>7. CASE QueryCommand(s)
  BY <1>7 DEF QueryCommand, Handle
<1>8. CASE NotificationsCommand(s)
  <2>1. writing' \in [Sessions -> SUBSET Writers]
    BY <1>8, WritingType, NobodyElse DEF NotificationsCommand
  <2> HIDE DEF Writers
  <2> QED BY <1>8, <2>1 DEF NotificationsCommand, Handle
<1>9. CASE AnswerReturns(s) \/ AnswerFits(s)
  BY <1>9 DEF AnswerReturns, AnswerFits, Answered, End, WriteWorks, WriteFails, WriteFits
<1>10. CASE PingTick(s) \/ PingWorks(s) \/ PingFails(s) \/ PingBlocks(s) \/ PingStops(s)
  BY <1>10 DEF PingTick, PingWorks, PingFails, PingBlocks, PingErrs, PingStops, Ping
<1> QED BY <1>1, <1>2, <1>3, <1>4, <1>5, <1>6, <1>7, <1>8, <1>9, <1>10, <1>11 DEF Outside

LEMMA ManagerType ==
  ASSUME TypeOK, NEW s \in Sessions, Register(s) \/ Unregister(s)
  PROVE  TypeOK'
BY DEF TypeOK, Register, Unregister

LEMMA QueryType ==
  ASSUME TypeOK, NEW s \in Sessions, Query_(s)
  PROVE  TypeOK'
<1>1. CASE QueryWrite(s)
  <2>1. writing' \in [Sessions -> SUBSET Writers]
    BY <1>1, WritingType, NobodyElse DEF QueryWrite
  <2>2. mu' = [mu EXCEPT ![s] = Query] /\ query' = [query EXCEPT ![s] = "write"]
    BY <1>1 DEF QueryWrite, QueryLocks, Acquire
  <2> QED BY <1>1, <2>1, <2>2 DEF QueryWrite, TypeOK
<1>2. CASE QueryReturns(s) \/ QueryFits(s)
  <2>1. QueryDone(s) /\ broken' \subseteq Sessions
    BY <1>2 DEF QueryReturns, QueryFits, WriteWorks, WriteFails, WriteFits, TypeOK
  <2>2. writing' \in [Sessions -> SUBSET Writers]
    BY <2>1, WritingType, NobodyElse DEF QueryDone
  <2>3. mu' = [mu EXCEPT ![s] = "nobody"] /\ query' = [query EXCEPT ![s] = "none"]
    BY <2>1 DEF QueryDone, Release
  <2> QED BY <2>1, <2>2, <2>3, NobodyElse DEF QueryDone, TypeOK
<1> QED BY <1>1, <1>2 DEF Query_

(* A broadcaster's step: its own place moves, and the lock and the writers *)
(* of the session it is at.                                                *)
LEMMA BroadcastEffect ==
  ASSUME Inv, NEW b \in Broadcasters, Broadcast(b)
  PROVE  /\ UNCHANGED <<sessions, subs, query, handler, pinger, open, client, alive, commands>>
         /\ broken' \subseteq Sessions
         /\ deadline' \in [Sessions -> {"none", "ahead", "passed"}]
         /\ broadcasts' \in [Broadcasters -> 0 .. MaxBroadcasts]
         /\ \/ \E todo \in SUBSET Sessions, pc \in {"idle", "walk"} :
                 /\ Walk(b, pc, todo, {}) /\ UNCHANGED <<mu, writing>>
                 /\ bc[b].at = {}
                 /\ pc = "idle" => todo = {}
                 /\ todo \subseteq sessions
            \/ \E s \in Sessions :
                 /\ bc[b].at = {} /\ s \in bc[b].todo
                 /\ Walk(b, "locked", bc[b].todo \ {s}, {s})
                 /\ Acquire(b, s) /\ UNCHANGED writing
            \/ \E s \in Sessions :
                 /\ bc[b].at = {s} /\ Walk(b, "write", bc[b].todo, {s})
                 /\ Begin(b, s) /\ UNCHANGED mu
            \/ \E s \in Sessions :
                 /\ bc[b].at = {s} /\ Walk(b, "walk", bc[b].todo, {})
                 /\ Release(s) /\ (End(b, s) \/ (b \notin writing[s] /\ UNCHANGED writing))
<1> DEFINE Place == [pc : {"idle", "walk", "locked", "write"},
                     todo : SUBSET Sessions, at : SUBSET Sessions]
<1> USE DEF Inv, TypeOK
<1>0. bc[b] \in Place
  OBVIOUS
<1>1. CASE StartBroadcast(b)
  <2>1. broadcasts[b] + 1 \in 0 .. MaxBroadcasts
    BY <1>1, WsAssumption DEF StartBroadcast
  <2>2. bc[b].at = {}
    BY <1>1 DEF StartBroadcast, Walks
  <2> QED BY <1>1, <2>1, <2>2 DEF StartBroadcast
<1>2. ASSUME NEW s \in Sessions, NextSession(b, s)
      PROVE  /\ bc[b].at = {} /\ s \in bc[b].todo
             /\ Walk(b, "locked", bc[b].todo \ {s}, {s})
             /\ Acquire(b, s) /\ UNCHANGED writing
  BY <1>2 DEF NextSession, Walks
<1>3. ASSUME NEW s \in Sessions, SkipSession(b, s)
      PROVE  /\ bc[b].at = {s} /\ Walk(b, "walk", bc[b].todo, {})
             /\ Release(s) /\ b \notin writing[s] /\ UNCHANGED writing
  BY <1>3 DEF SkipSession, Walks, Locks
<1>4. ASSUME NEW s \in Sessions, PushWrite(b, s)
      PROVE  /\ bc[b].at = {s} /\ Walk(b, "write", bc[b].todo, {s})
             /\ Begin(b, s) /\ UNCHANGED mu
             /\ deadline' \in [Sessions -> {"none", "ahead", "passed"}]
  BY <1>4 DEF PushWrite, DeadlineFor, Walks
<1>5. ASSUME NEW s \in Sessions, PushReturns(b, s) \/ PushFits(b, s)
      PROVE  /\ bc[b].at = {s} /\ Walk(b, "walk", bc[b].todo, {})
             /\ Release(s) /\ End(b, s)
             /\ broken' \subseteq Sessions
             /\ UNCHANGED <<sessions, subs, query, handler, pinger, open, client, alive,
                            commands, deadline, broadcasts>>
  BY <1>5 DEF PushReturns, PushFits, PushDone, WriteWorks, WriteFails, WriteFits, Walks
<1>6. CASE EndBroadcast(b)
  BY <1>6 DEF EndBroadcast, Walks
<1>7. ASSUME NEW s \in Sessions, NextSession(b, s) \/ SkipSession(b, s) \/ PushWrite(b, s)
      PROVE  UNCHANGED <<sessions, subs, query, handler, pinger, open, client, alive, commands,
                         broken, broadcasts>>
  BY <1>7 DEF NextSession, SkipSession, PushWrite
<1>8. ASSUME NEW s \in Sessions, NextSession(b, s) \/ SkipSession(b, s)
      PROVE  UNCHANGED deadline
  BY <1>8 DEF NextSession, SkipSession
<1> QED BY <1>1, <1>2, <1>3, <1>4, <1>5, <1>6, <1>7, <1>8 DEF Broadcast, WalkStep

LEMMA BroadcastType ==
  ASSUME Inv, NEW b \in Broadcasters, Broadcast(b)
  PROVE  TypeOK'
<1> DEFINE Place == [pc : {"idle", "walk", "locked", "write"},
                     todo : SUBSET Sessions, at : SUBSET Sessions]
<1>1. b \in Writers /\ b # Query /\ b # "nobody" /\ bc[b] \in Place /\ Walks /\ Locks
  BY WsAssumption DEF Writers, Inv, TypeOK
<1> DEFINE Fits == /\ bc' \in [Broadcasters -> Place]
                   /\ writing' \in [Sessions -> SUBSET Writers]
                   /\ mu' \in [Sessions -> Broadcasters \cup {Query, "nobody"}]
                   /\ \A s \in Sessions : mu'[s] = Query <=> mu[s] = Query
<1>2. Fits
  <2>1. CASE \E todo \in SUBSET Sessions, pc \in {"idle", "walk"} :
               Walk(b, pc, todo, {}) /\ UNCHANGED <<mu, writing>>
    BY <1>1, <2>1 DEF Walk, Inv, TypeOK
  <2>2. ASSUME NEW s \in Sessions, Walk(b, "locked", bc[b].todo \ {s}, {s}),
               Acquire(b, s), UNCHANGED writing
        PROVE  Fits
    BY <1>1, <2>2, NobodyElse DEF Walk, Acquire, Inv, TypeOK
  <2>3. ASSUME NEW s \in Sessions, Walk(b, "write", bc[b].todo, {s}), Begin(b, s), UNCHANGED mu
        PROVE  Fits
    <3>1. writing' \in [Sessions -> SUBSET Writers]
      BY <1>1, <2>3, WritingType DEF Inv
    <3> QED BY <1>1, <2>3, <3>1 DEF Walk, Inv, TypeOK
  <2>4. ASSUME NEW s \in Sessions, bc[b].at = {s}, Walk(b, "walk", bc[b].todo, {}), Release(s),
               End(b, s) \/ UNCHANGED writing
        PROVE  Fits
    <3>1. writing' \in [Sessions -> SUBSET Writers]
      BY <1>1, <2>4, WritingType DEF Inv, TypeOK
    <3>2. mu[s] = b /\ mu' = [mu EXCEPT ![s] = "nobody"]
      BY <1>1, <2>4 DEF Locks, Release
    <3> QED BY <1>1, <2>4, <3>1, <3>2, NobodyElse DEF Walk, Inv, TypeOK
  <2> QED BY <2>1, <2>2, <2>3, <2>4, BroadcastEffect
<1> QED BY <1>1, <1>2, BroadcastEffect DEF Inv, TypeOK

------------------------------------------------------------------------------
LEMMA WalksStep ==
  ASSUME Inv, Next
  PROVE  Walks'
<1>1. CASE Panic
  BY <1>1 DEF Panic, Inv, Walks
<1>2. ASSUME NEW s \in Sessions, Outside(s)
      PROVE  Walks'
  BY <1>2, OutsideEffect DEF Inv, Walks
<1>3. ASSUME NEW s \in Sessions, Register(s) \/ Unregister(s)
      PROVE  Walks'
  <2>1. bc' = bc /\ \A b \in Broadcasters : bc[b].pc = "idle"
    BY <1>3 DEF Register, Unregister, UnregisterWhen, Readers
  <2> QED BY <2>1 DEF Inv, Walks
<1>4. ASSUME NEW s \in Sessions, Query_(s)
      PROVE  Walks'
  <2>1. UNCHANGED <<bc, sessions>>
    BY <1>4 DEF Query_, QueryWrite, QueryReturns, QueryFits, QueryDone
  <2> QED BY <2>1 DEF Inv, Walks
<1>5. ASSUME NEW b \in Broadcasters, Broadcast(b)
      PROVE  Walks'
  <2> DEFINE Place(x) == /\ x.pc \in {"idle", "walk"} => x.at = {}
                         /\ x.pc = "idle" => x.todo = {}
                         /\ \A s, t \in x.at : s = t
                         /\ x.todo \cup x.at \subseteq sessions
  <2>1. sessions' = sessions
    BY <1>5, BroadcastEffect
  <2>2. ASSUME NEW pc, NEW todo, NEW at, Walk(b, pc, todo, at),
               Place([pc |-> pc, todo |-> todo, at |-> at])
        PROVE  Walks'
    <3>1. \A c \in Broadcasters : Place(bc'[c])
      BY <2>2 DEF Walk, Inv, TypeOK, Walks
    <3> QED BY <2>1, <3>1 DEF Walks
  <2>3. Place(bc[b])
    BY DEF Inv, Walks
  <2>4. CASE \E todo \in SUBSET Sessions, pc \in {"idle", "walk"} :
               Walk(b, pc, todo, {}) /\ (pc = "idle" => todo = {}) /\ todo \subseteq sessions
    BY <2>2, <2>4
  <2>5. CASE \E s \in Sessions : s \in bc[b].todo /\ Walk(b, "locked", bc[b].todo \ {s}, {s})
    <3>1. PICK s \in Sessions : s \in bc[b].todo /\ Walk(b, "locked", bc[b].todo \ {s}, {s})
      BY <2>5
    <3>2. Place([pc |-> "locked", todo |-> bc[b].todo \ {s}, at |-> {s}])
      BY <2>3, <3>1
    <3> QED BY <2>2, <3>1, <3>2
  <2>6. CASE \E s \in Sessions : bc[b].at = {s} /\ Walk(b, "write", bc[b].todo, {s})
    <3>1. PICK s \in Sessions : bc[b].at = {s} /\ Walk(b, "write", bc[b].todo, {s})
      BY <2>6
    <3>2. Place([pc |-> "write", todo |-> bc[b].todo, at |-> {s}])
      BY <2>3, <3>1
    <3> QED BY <2>2, <3>1, <3>2
  <2>7. CASE \E s \in Sessions : bc[b].at = {s} /\ Walk(b, "walk", bc[b].todo, {})
    <3>1. Place([pc |-> "walk", todo |-> bc[b].todo, at |-> {}])
      BY <2>3
    <3> QED BY <2>2, <2>7, <3>1
  <2> HIDE DEF Place
  <2> QED BY <1>5, <2>4, <2>5, <2>6, <2>7, BroadcastEffect
<1> QED BY <1>1, <1>2, <1>3, <1>4, <1>5, NextCases

LEMMA LocksStep ==
  ASSUME Inv, Next
  PROVE  Locks'
<1> USE DEF Inv
<1>1. CASE Panic
  BY <1>1 DEF Panic, Locks
<1>2. ASSUME NEW s \in Sessions, Outside(s)
      PROVE  Locks'
  BY <1>2, OutsideEffect, WsAssumption DEF Locks
<1>3. ASSUME NEW s \in Sessions, Register(s) \/ Unregister(s)
      PROVE  Locks'
  BY <1>3 DEF Register, Unregister, Locks
<1>4. ASSUME NEW s \in Sessions, QueryWrite(s)
      PROVE  Locks'
  <2>1. /\ mu[s] = "nobody" /\ mu' = [mu EXCEPT ![s] = Query]
        /\ writing' = [writing EXCEPT ![s] = @ \cup {Query}] /\ bc' = bc
    BY <1>4 DEF QueryWrite, QueryLocks, Acquire, Begin
  <2> QED BY <2>1, WsAssumption DEF Locks, TypeOK, Writers
<1>5. ASSUME NEW s \in Sessions, QueryReturns(s) \/ QueryFits(s)
      PROVE  Locks'
  <2>1. /\ mu[s] = Query /\ mu' = [mu EXCEPT ![s] = "nobody"]
        /\ writing' = [writing EXCEPT ![s] = @ \ {Query}] /\ bc' = bc
    BY <1>5 DEF QueryReturns, QueryFits, QueryDone, End, Release, TypeOK
  <2> QED BY <2>1, WsAssumption DEF Locks, TypeOK, Writers
<1>6. ASSUME NEW b \in Broadcasters, Broadcast(b)
      PROVE  Locks'
  <2>0. b \in Writers /\ b # Query /\ b # "nobody" /\ b # Handler
    BY WsAssumption DEF Writers
  <2>1. CASE \E todo \in SUBSET Sessions, pc \in {"idle", "walk"} :
               Walk(b, pc, todo, {}) /\ UNCHANGED <<mu, writing>> /\ bc[b].at = {}
    BY <2>1 DEF Walk, Locks, TypeOK
  <2>2. ASSUME NEW s \in Sessions, bc[b].at = {}, Walk(b, "locked", bc[b].todo \ {s}, {s}),
               Acquire(b, s), UNCHANGED writing
        PROVE  Locks'
    BY <2>0, <2>2, WsAssumption DEF Walk, Acquire, Locks, TypeOK, Writers
  <2>3. ASSUME NEW s \in Sessions, bc[b].at = {s}, Walk(b, "write", bc[b].todo, {s}),
               Begin(b, s), UNCHANGED mu
        PROVE  Locks'
    BY <2>0, <2>3 DEF Walk, Begin, Locks, TypeOK
  <2>4. ASSUME NEW s \in Sessions, bc[b].at = {s}, Walk(b, "walk", bc[b].todo, {}), Release(s),
               End(b, s) \/ (b \notin writing[s] /\ UNCHANGED writing)
        PROVE  Locks'
    <3>1. /\ mu[s] = b /\ mu' = [mu EXCEPT ![s] = "nobody"]
          /\ writing' = [writing EXCEPT ![s] = @ \ {b}]
      BY <2>4 DEF Locks, Release, End, TypeOK
    <3> QED BY <2>0, <2>4, <3>1, WsAssumption DEF Walk, Locks, TypeOK, Writers
  <2> HIDE DEF Inv
  <2> QED BY <1>6, <2>1, <2>2, <2>3, <2>4, BroadcastEffect
<1> HIDE DEF Inv
<1> QED BY <1>1, <1>2, <1>3, <1>4, <1>5, <1>6, NextCases DEF Query_

LEMMA InvStep == Inv /\ [Next]_vars => Inv'
<1>1. ASSUME Inv, Next
      PROVE  TypeOK'
  <2>1. CASE Panic
    BY <1>1, <2>1 DEF Panic, Inv, TypeOK
  <2> QED BY <1>1, <2>1, NextCases, OutsideType, ManagerType, QueryType, BroadcastType DEF Inv
<1>2. ASSUME Inv, UNCHANGED vars
      PROVE  Inv'
  BY <1>2 DEF vars, Inv, TypeOK, Walks, Locks
<1> QED BY <1>1, <1>2, WalksStep, LocksStep DEF Inv

LEMMA Invariance == Spec => []Inv
BY InitInv, InvStep, PTL DEF Spec

------------------------------------------------------------------------------
(* TypeOK holds for every instance: a query goroutine that writes owns     *)
(* session.mu.                                                             *)
THEOREM TypeCorrect == Spec => []TypeOK
<1>1. Inv => TypeOK
  BY DEF Inv
<1> QED BY <1>1, Invariance, PTL

(* However many goroutines push, answer and ping, those that take          *)
(* session.mu are never two inside WriteJSON of one connection.            *)
THEOREM LockedWritersExclude == Spec => []LockedWritersAreExclusive
<1>1. Inv => LockedWritersAreExclusive
  <2> SUFFICES ASSUME Inv, NEW s \in Sessions
               PROVE  Cardinality(writing[s] \ {Handler}) <= 1
    BY DEF LockedWritersAreExclusive
  <2> DEFINE W == writing[s] \ {Handler}
  <2>1. W \subseteq {mu[s]}
    BY DEF Inv, Locks
  <2>2. IsFiniteSet({mu[s]}) /\ Cardinality({mu[s]}) = 1
    BY FS_Singleton
  <2>3. Cardinality(W) <= Cardinality({mu[s]})
    BY <2>1, <2>2, FS_Subset
  <2> QED BY <2>2, <2>3
<1> QED BY <1>1, Invariance, PTL

(* Whatever registers and unregisters meanwhile, every session a broadcast *)
(* has still to visit is registered.                                       *)
THEOREM BroadcastsReach == Spec => []BroadcastsReachRegistered
<1>1. Inv => BroadcastsReachRegistered
  BY DEF Inv, Walks, BroadcastsReachRegistered
<1> QED BY <1>1, Invariance, PTL

-----------------------------------------------------------------------------
(* What a session is answered and pushed.  Every command at work was        *)
(* requested, every scope in use is one the session had, and an entity      *)
(* beyond a gate belongs to a tenant whose token the session has shown.     *)

Queries == UNION {Range(m.queries) : m \in WsMessages}
SubCmds == UNION {Range(m.subs) : m \in WsMessages}
Counts == UNION {Range(m.counts) : m \in WsMessages}
WsTenants == {a.tenant : a \in Tokens} \cup {Unset}
Scopes == [tenant : WsTenants, admin : BOOLEAN]
CmdTables == UNION {[D -> SubCmds] : D \in SUBSET Nat}
TaskIds == Nat \X {"query", "count", "initial"} \X Nat
QueryTask ==
  [id : TaskIds, pc : {"start", "gate", "bind", "answer"}, scope : Scopes \cup {Unset},
   target : WsEntities \cup {Unset}, todo : Seq(Queries)]
CountTask == [id : TaskIds, pc : {"count"}, query : Counts]
InitialTask == [id : TaskIds, pc : {"initial"}, cmd : {c \in SubCmds : c.entity \in WsEntities}]

WsTypes ==
  /\ socket \in [pc : {"read", "filter", "register", "closed"}, cmds : CmdTables, authenticated : BOOLEAN,
                 tenant : WsTenants, admin : BOOLEAN]
  /\ tasks \subseteq QueryTask \cup CountTask \cup InitialTask
  /\ entityCmdMap = [c \in CmdIds |-> entityCmdMap[c]]
  /\ wsRows \subseteq WsEntities
  /\ messagesRead \subseteq WsMessages /\ IsFiniteSet(messagesRead)

Proven == {e \in WsEntities : WsOwner[e] \in TenantsShown}
MayHave(e) == e \in WsEntities /\ (~socket.admin => e \in Proven)
ScopeOK(scope) ==
  scope \in Scopes /\ scope.tenant \in TenantsShown \cup {Unset} /\ (scope.admin => socket.admin)

QueryTaskFits(g) ==
  /\ g.todo # <<>> /\ Range(g.todo) \subseteq Requested
  /\ g.pc # "start" => ScopeOK(g.scope)
  /\ g.pc = "bind" => Head(g.todo).query = "entity" /\ (Head(g.todo).entity # Unset => MayHave(Head(g.todo).entity))
  /\ g.pc = "answer" => MayHave(g.target)

\* The requests that name the entity with the command, or the command alone.
AskedFor(c, e) == {x \in Requested : x.op = "query" /\ x.cmd = c /\ x.entity \in {e, Unset}}

BindingFits(c, b) ==
  /\ MayHave(b.entity)
  /\ b.keys = {} => \E x \in AskedFor(c, b.entity) : x.query = "usage" \/ SubKeys(x) = {}
  /\ \A k \in b.keys : \E x \in AskedFor(c, b.entity) : k \in SubKeys(x)
  /\ \A k \in DOMAIN b.attrKeys :
       \E x \in AskedFor(c, b.entity) : k \in DOMAIN x.attrKeys /\ x.attrKeys[k] = b.attrKeys[k]

SocketFits ==
  /\ ScopeOK(sessionScope)
  /\ \A i \in DOMAIN socket.cmds :
       /\ socket.cmds[i] \in Requested
       /\ socket.pc = "register" /\ ~socket.cmds[i].unsubscribe => MayHave(socket.cmds[i].entity)
TasksFit == \A g \in tasks : g \in QueryTask => QueryTaskFits(g)
SubsFit == \A s \in attached : s \in Requested /\ s \in SubCmds /\ MayHave(s.entity)
BindingsFit == \A c \in CmdIds : entityCmdMap[c] # Unset => BindingFits(c, entityCmdMap[c])
AnsweredFits == \A e \in answeredWith : MayHave(e)

WsInv == WsTypes /\ SocketFits /\ TasksFit /\ SubsFit /\ BindingsFit /\ AnsweredFits

LEMMA WsInvImplies == WsInv => SubscriptionsHold
<1> SUFFICES ASSUME WsInv PROVE SubscriptionsHold
  OBVIOUS
<1>1. GrantsAreProven
  <2> SUFFICES ASSUME ~socket.admin,
                      NEW e \in {s.entity : s \in attached} \cup {x \in WsEntities : BoundTo(x) # {}} \cup answeredWith
               PROVE  e \in Proven
    BY DEF GrantsAreProven, Proven
  <2>1. CASE e \in {s.entity : s \in attached}
    BY <2>1 DEF WsInv, SubsFit, MayHave
  <2>2. CASE e \in {x \in WsEntities : BoundTo(x) # {}}
    BY <2>2 DEF WsInv, BindingsFit, BindingFits, MayHave, BoundTo
  <2>3. CASE e \in answeredWith
    BY <2>3 DEF WsInv, AnsweredFits, MayHave
  <2> QED BY <2>1, <2>2, <2>3
<1>2. PushesAreAsked
  <2> DEFINE Asked(e, push) == \A pair \in push.pairs :
               \E x \in Requested : x.cmd = push.cmd /\ x.entity \in {push.entity, Unset} /\ Covers(x, pair)
  <2>1. ASSUME NEW c, NEW e, NEW pairs, NEW push \in PushOf(c, e, pairs)
        PROVE  push.cmd = c /\ push.entity = e /\ push.pairs = pairs
    BY <2>1 DEF PushOf
  <2>2. ASSUME NEW s \in attached PROVE s \in Requested /\ s.op = "sub" /\ s.channel \in {"telemetry", "alarms", "attributes"}
    BY WsInputAssumption DEF WsInv, SubsFit, SubCmds
  <2>3. ASSUME NEW e, NEW data, NEW push \in BroadcastTelemetry(e, data) PROVE Asked(e, push)
    <3>1. CASE \E s \in SubsOn("telemetry", e) : push \in PushOf(s.cmd, e, Wanted(s.keys, data) \X {"TIME_SERIES"})
      <4>1. PICK s \in SubsOn("telemetry", e) : push \in PushOf(s.cmd, e, Wanted(s.keys, data) \X {"TIME_SERIES"})
        BY <3>1
      <4>2. push.cmd = s.cmd /\ push.entity = e /\ push.pairs = Wanted(s.keys, data) \X {"TIME_SERIES"}
        BY <2>1, <4>1
      <4>3. s \in Requested /\ s.op = "sub" /\ s.channel = "telemetry" /\ s.entity = e
        BY <2>2 DEF SubsOn
      <4>4. \A pair \in push.pairs : pair[2] = "TIME_SERIES" /\ (s.keys = {} \/ pair[1] \in s.keys)
        BY <4>2 DEF Wanted
      <4>5. \A pair \in push.pairs : Covers(s, pair)
        BY <4>3, <4>4 DEF Covers
      <4> QED BY <4>2, <4>3, <4>5
    <3>2. CASE \E c \in BoundTo(e) : push \in PushOf(c, e, Wanted(entityCmdMap[c].keys, data) \X {"TIME_SERIES"})
      <4>1. PICK c \in BoundTo(e) : push \in PushOf(c, e, Wanted(entityCmdMap[c].keys, data) \X {"TIME_SERIES"})
        BY <3>2
      <4> DEFINE b == entityCmdMap[c]
      <4>2. push.cmd = c /\ push.entity = e /\ push.pairs = Wanted(b.keys, data) \X {"TIME_SERIES"}
        BY <2>1, <4>1
      <4>3. BindingFits(c, b) /\ b.entity = e
        BY DEF BoundTo, WsInv, BindingsFit
      <4> SUFFICES ASSUME NEW pair \in push.pairs
                   PROVE  \E x \in AskedFor(c, e) : Covers(x, pair)
        BY <4>2 DEF AskedFor
      <4>4. pair[2] = "TIME_SERIES" /\ (b.keys = {} \/ pair[1] \in b.keys)
        BY <4>2 DEF Wanted
      <4>5. \E x \in AskedFor(c, e) : x.query = "usage" \/ SubKeys(x) = {} \/ pair[1] \in SubKeys(x)
        BY <4>3, <4>4 DEF BindingFits
      <4> QED BY <4>4, <4>5 DEF Covers, AskedFor
    <3> QED BY <3>1, <3>2 DEF BroadcastTelemetry
  <2>4. ASSUME NEW e, NEW scope, NEW data, NEW push \in BroadcastAttributes(e, scope, data) PROVE Asked(e, push)
    <3>1. CASE \E s \in {x \in SubsOn("attributes", e) : subScopeMatches(x.scope, scope)} :
                 push \in PushOf(s.cmd, e, Wanted(s.keys, data) \X {scope})
      <4>1. PICK s \in {x \in SubsOn("attributes", e) : subScopeMatches(x.scope, scope)} :
              push \in PushOf(s.cmd, e, Wanted(s.keys, data) \X {scope})
        BY <3>1
      <4>2. push.cmd = s.cmd /\ push.entity = e /\ push.pairs = Wanted(s.keys, data) \X {scope}
        BY <2>1, <4>1
      <4>3. s \in Requested /\ s.op = "sub" /\ s.channel = "attributes" /\ s.entity = e /\ subScopeMatches(s.scope, scope)
        BY <2>2 DEF SubsOn
      <4>4. \A pair \in push.pairs : pair[2] = scope /\ (s.keys = {} \/ pair[1] \in s.keys)
        BY <4>2 DEF Wanted
      <4>5. InitialCovers(s.scope, scope)
        BY <4>3 DEF InitialCovers, subScopeMatches
      <4>6. \A pair \in push.pairs : Covers(s, pair)
        BY <4>3, <4>4, <4>5 DEF Covers
      <4> QED BY <4>2, <4>3, <4>6
    <3>2. CASE \E c \in BoundTo(e) :
                 push \in PushOf(c, e, {<<k, entityCmdMap[c].attrKeys[k]>> : k \in
                   {x \in data \cap DOMAIN entityCmdMap[c].attrKeys : attrChannelAcceptsScope(entityCmdMap[c].attrKeys[x], scope)}})
      <4>1. PICK c \in BoundTo(e) :
              push \in PushOf(c, e, {<<k, entityCmdMap[c].attrKeys[k]>> : k \in
                   {x \in data \cap DOMAIN entityCmdMap[c].attrKeys : attrChannelAcceptsScope(entityCmdMap[c].attrKeys[x], scope)}})
        BY <3>2
      <4> DEFINE b == entityCmdMap[c]
      <4>2. push.cmd = c /\ push.entity = e
            /\ \A pair \in push.pairs : \E k \in DOMAIN b.attrKeys : pair = <<k, b.attrKeys[k]>>
        BY <2>1, <4>1
      <4>3. BindingFits(c, b) /\ b.entity = e
        BY DEF BoundTo, WsInv, BindingsFit
      <4> SUFFICES ASSUME NEW pair \in push.pairs
                   PROVE  \E x \in AskedFor(c, e) : Covers(x, pair)
        BY <4>2 DEF AskedFor
      <4>4. \E x \in AskedFor(c, e) : pair[1] \in DOMAIN x.attrKeys /\ x.attrKeys[pair[1]] = pair[2]
        BY <4>2, <4>3 DEF BindingFits
      <4> QED BY <4>4 DEF Covers, AskedFor
    <3> QED BY <3>1, <3>2 DEF BroadcastAttributes
  <2>5. ASSUME NEW e, NEW push \in BroadcastAlarmEvent(e) PROVE Asked(e, push)
    <3>1. PICK s \in SubsOn("alarms", e) \cup SubsOn("telemetry", e) : push \in PushOf(s.cmd, e, {<<"alarm", s.channel>>})
      BY <2>5 DEF BroadcastAlarmEvent
    <3>2. push.cmd = s.cmd /\ push.entity = e /\ push.pairs = {<<"alarm", s.channel>>}
      BY <2>1, <3>1
    <3>3. s \in Requested /\ s.op = "sub" /\ s.channel \in {"alarms", "telemetry"} /\ s.entity = e
      BY <2>2 DEF SubsOn
    <3>4. Covers(s, <<"alarm", s.channel>>)
      BY <3>3 DEF Covers
    <3> QED BY <3>2, <3>3, <3>4
  <2>6. ASSUME NEW ev \in WsEvents, NEW push \in RouteEvent(ev) PROVE Asked(ev.entity, push)
    BY <2>3, <2>4, <2>5, <2>6 DEF RouteEvent
  <2> QED BY <2>6 DEF PushesAreAsked
<1> QED BY <1>1, <1>2 DEF SubscriptionsHold

LEMMA WsInvInit == WsInit => WsInv
<1> SUFFICES ASSUME WsInit PROVE WsInv
  OBVIOUS
<1>1. socket.cmds = <<>> /\ socket.pc = "read" /\ socket.tenant = Unset /\ socket.admin = FALSE /\ socket.authenticated = FALSE
  BY DEF WsInit
<1>2. <<>> \in CmdTables /\ DOMAIN socket.cmds = {}
  <2>1. <<>> \in [{} -> SubCmds] /\ {} \in SUBSET Nat
    OBVIOUS
  <2> QED BY <1>1, <2>1 DEF CmdTables
<1>3. WsTypes
  BY <1>1, <1>2, FS_EmptySet DEF WsInit, WsTypes, WsTenants
<1>4. SocketFits
  BY <1>1, <1>2 DEF SocketFits, ScopeOK, sessionScope, Scopes, WsTenants
<1> QED BY <1>3, <1>4 DEF WsInit, WsInv, TasksFit, SubsFit, BindingsFit, AnsweredFits

\* Tokens and admin rights a session has had stay shown.
LEMMA WsGrows ==
  ASSUME messagesRead \subseteq messagesRead', socket.admin => socket'.admin
  PROVE  /\ Requested \subseteq Requested' /\ TenantsShown \subseteq TenantsShown'
         /\ \A e : MayHave(e) => MayHave(e)'
         /\ \A scope : ScopeOK(scope) => ScopeOK(scope)'
         /\ \A g : QueryTaskFits(g) => QueryTaskFits(g)'
         /\ \A c, b : BindingFits(c, b) => BindingFits(c, b)'
<1>1. Requested \subseteq Requested' /\ TenantsShown \subseteq TenantsShown'
  BY DEF Requested, TenantsShown
<1>2. \A e : MayHave(e) => MayHave(e)'
  BY <1>1 DEF MayHave, Proven
<1>3. \A scope : ScopeOK(scope) => ScopeOK(scope)'
  BY <1>1 DEF ScopeOK
<1>4. \A g : QueryTaskFits(g) => QueryTaskFits(g)'
  BY <1>1, <1>2, <1>3 DEF QueryTaskFits
<1>5. \A c, e : AskedFor(c, e) \subseteq AskedFor(c, e)'
  BY <1>1 DEF AskedFor
<1>6. ASSUME NEW c, NEW b, BindingFits(c, b) PROVE BindingFits(c, b)'
  BY <1>2, <1>5, <1>6 DEF BindingFits
<1> QED BY <1>1, <1>2, <1>3, <1>4, <1>6

\* What a scope allows was proven, or the session is one of a SYS_ADMIN.
LEMMA AllowedIsProven ==
  ASSUME NEW scope, ScopeOK(scope), NEW type, NEW e \in WsEntities \cup {Unset}, allows(scope, type, e),
         messagesRead \subseteq WsMessages
  PROVE  MayHave(e)
<1>1. e \in WsEntities /\ scope.tenant # Unset
  BY DEF allows
<1>2. CASE scope.admin
  BY <1>1, <1>2 DEF ScopeOK, MayHave
<1>3. CASE ~scope.admin
  <2>1. scope.tenant \in TenantsShown
    BY <1>1 DEF ScopeOK
  <2>2. \E a \in Tokens : a.tenant = scope.tenant
    BY <2>1 DEF TenantsShown, Tokens
  <2>3. WsOwner[e] = scope.tenant
    BY <1>1, <1>3, <2>2, WsInputAssumption DEF allows, entityBelongsToTenant
  <2> QED BY <1>1, <2>1, <2>3 DEF MayHave, Proven
<1> QED BY <1>2, <1>3

LEMMA MapUpdate ==
  ASSUME NEW S, NEW f, f = [c \in S |-> f[c]], NEW a \in S, NEW v, NEW h, h = [f EXCEPT ![a] = v]
  PROVE  h = [c \in S |-> h[c]] /\ h[a] = v /\ \A c \in S \ {a} : h[c] = f[c]
OBVIOUS

LEMMA TaskKinds ==
  ASSUME WsTypes, NEW g \in tasks
  PROVE  /\ g.pc \in {"start", "gate", "bind", "answer"} => g \in QueryTask
         /\ g.pc = "count" => g \in CountTask
         /\ g.pc = "initial" => g \in InitialTask
BY DEF WsTypes, QueryTask, CountTask, InitialTask

LEMMA HeadAsked ==
  ASSUME WsInv, NEW g \in tasks, g \in QueryTask
  PROVE  LET q == Head(g.todo)
         IN  /\ q \in Requested /\ q \in Queries /\ q.op = "query" /\ q.entity \in WsEntities \cup {Unset}
             /\ q.cmd \in CmdIds /\ (q.query = "usage" => q.entity = Unset)
             /\ g.todo \in Seq(Queries) /\ g.todo # <<>>
             /\ q.query \in {"entity", "list", "relations", "usage"}
<1>1. g.todo \in Seq(Queries) /\ g.todo # <<>> /\ Range(g.todo) \subseteq Requested
  BY DEF QueryTask, WsInv, TasksFit, QueryTaskFits
<1>2. Head(g.todo) \in Range(g.todo) /\ Head(g.todo) \in Queries
  BY <1>1 DEF Range
<1> QED BY <1>1, <1>2, WsInputAssumption DEF Queries, CmdIds

\* A query goroutine that goes on, or ends; the session stays as it is.
LEMMA BecomesFits ==
  ASSUME WsInv, UNCHANGED <<socket, messagesRead>>, NEW g \in tasks,
         \/ tasks' = tasks \ {g}
         \/ \E h \in QueryTask : Becomes(g, h) /\ QueryTaskFits(h)
  PROVE  tasks' \subseteq QueryTask \cup CountTask \cup InitialTask /\ TasksFit'
<1>1. \A x : QueryTaskFits(x) => QueryTaskFits(x)'
  BY WsGrows
<1>2. tasks \subseteq QueryTask \cup CountTask \cup InitialTask /\ \A x \in tasks : x \in QueryTask => QueryTaskFits(x)
  BY DEF WsInv, WsTypes, TasksFit
<1>3. tasks' \subseteq QueryTask \cup CountTask \cup InitialTask
  BY <1>2 DEF Becomes
<1>4. \A x \in tasks' : x \in QueryTask => QueryTaskFits(x)
  BY <1>2 DEF Becomes
<1> QED BY <1>1, <1>3, <1>4 DEF TasksFit

LEMMA NextQueryFits ==
  ASSUME WsInv, UNCHANGED <<socket, messagesRead>>, NEW g \in tasks, g \in QueryTask, g.pc # "start", NextQuery(g)
  PROVE  tasks' \subseteq QueryTask \cup CountTask \cup InitialTask /\ TasksFit'
<1> DEFINE h == [g EXCEPT !.todo = Tail(@), !.pc = "gate"]
<1>1. g.todo \in Seq(Queries) /\ g.todo # <<>> /\ QueryTaskFits(g)
  BY HeadAsked DEF WsInv, TasksFit
<1>2. CASE Len(g.todo) = 1
  BY <1>2, BecomesFits DEF NextQuery
<1>3. CASE Len(g.todo) # 1
  <2>0. /\ Tail(g.todo) \in Seq(Queries) /\ Len(Tail(g.todo)) = Len(g.todo) - 1 /\ Len(g.todo) \in Nat \ {0, 1}
        /\ \A i \in 1..Len(Tail(g.todo)) : Tail(g.todo)[i] = g.todo[i + 1]
    BY <1>1, <1>3, HeadTailProperties, EmptySeq
  <2>1. Tail(g.todo) \in Seq(Queries) /\ Tail(g.todo) # <<>>
    <3>1. Len(Tail(g.todo)) # 0
      BY <2>0
    <3>2. Len(<<>>) = 0
      BY EmptySeq
    <3>3. Tail(g.todo) = <<>> => Len(Tail(g.todo)) = Len(<<>>)
      BY Zenon
    <3> QED BY <2>0, <3>1, <3>2, <3>3, Zenon
  <2>2. Range(Tail(g.todo)) \subseteq Range(g.todo)
    BY <1>1, <2>0 DEF Range
  <2>3. h \in QueryTask
    BY <2>1 DEF QueryTask
  <2>4. h.todo = Tail(g.todo) /\ h.pc = "gate" /\ h.scope = g.scope
    BY DEF QueryTask
  <2>5. Becomes(g, h)
    BY <1>3 DEF NextQuery
  <2> HIDE DEF h
  <2>6. QueryTaskFits(h)
    BY <1>1, <2>1, <2>2, <2>4 DEF QueryTaskFits
  <2> QED BY <2>3, <2>5, <2>6, BecomesFits
<1> QED BY <1>2, <1>3

\* The parts of the invariant a step leaves alone.
LEMMA WsKept ==
  ASSUME WsInv, UNCHANGED <<socket, messagesRead>>
  PROVE  /\ SocketFits'
         /\ UNCHANGED attached => SubsFit'
         /\ UNCHANGED entityCmdMap => BindingsFit'
         /\ tasks' \subseteq QueryTask \cup CountTask \cup InitialTask /\ wsRows' \subseteq wsRows
            /\ entityCmdMap' = [c \in CmdIds |-> entityCmdMap'[c]] => WsTypes'
         /\ \A e : MayHave(e)' <=> MayHave(e)
         /\ answeredWith' = {} => AnsweredFits'
<1>1. SocketFits'
  BY DEF WsInv, SocketFits, ScopeOK, sessionScope, Requested, TenantsShown, MayHave, Proven
<1>2. \A e : MayHave(e)' <=> MayHave(e)
  BY DEF MayHave, Proven, TenantsShown
<1>3. Requested' = Requested
  BY DEF Requested
<1>4. UNCHANGED attached => SubsFit'
  BY <1>2, <1>3 DEF WsInv, SubsFit
<1>5. UNCHANGED entityCmdMap => BindingsFit'
  <2>1. \A c, b : BindingFits(c, b) => BindingFits(c, b)'
    BY WsGrows
  <2> QED BY <2>1 DEF WsInv, BindingsFit
<1>6. ASSUME tasks' \subseteq QueryTask \cup CountTask \cup InitialTask, wsRows' \subseteq wsRows,
             entityCmdMap' = [c \in CmdIds |-> entityCmdMap'[c]]
      PROVE  WsTypes'
  BY <1>6 DEF WsInv, WsTypes
<1>7. answeredWith' = {} => AnsweredFits'
  BY DEF AnsweredFits
<1> QED BY <1>1, <1>2, <1>4, <1>5, <1>6, <1>7

LEMMA ReceiveFits == ASSUME WsInv, NEW m \in WsMessages, Receive(m) PROVE WsInv'
<1>1. /\ messagesRead' = messagesRead \cup {m} /\ answeredWith' = {}
      /\ UNCHANGED <<attached, entityCmdMap, wsRows>> /\ socket.pc = "read"
  BY DEF Receive
<1>2. messagesRead' \subseteq WsMessages /\ IsFiniteSet(messagesRead') /\ Cardinality(messagesRead) \in Nat
  BY <1>1, FS_AddElement, FS_CardinalityType DEF WsInv, WsTypes
<1>3. CASE Close /\ UNCHANGED tasks
  <2>1. socket'.pc = "closed" /\ UNCHANGED <<socket.cmds, socket.tenant, socket.admin, socket.authenticated>>
    BY <1>3 DEF Close, WsInv, WsTypes
  <2>2. WsTypes'
    BY <1>1, <1>2, <1>3 DEF Close, WsInv, WsTypes
  <2>3. /\ Requested \subseteq Requested' /\ \A e : MayHave(e) => MayHave(e)'
        /\ \A scope : ScopeOK(scope) => ScopeOK(scope)'
        /\ \A g : QueryTaskFits(g) => QueryTaskFits(g)'
        /\ \A c, b : BindingFits(c, b) => BindingFits(c, b)'
    BY <1>1, <2>1, WsGrows
  <2>4. sessionScope' = sessionScope
    BY <2>1 DEF sessionScope
  <2>5. SocketFits'
    BY <2>1, <2>3, <2>4 DEF WsInv, SocketFits
  <2> QED BY <1>1, <1>3, <2>2, <2>3, <2>5 DEF WsInv, TasksFit, SubsFit, BindingsFit, AnsweredFits
<1> DEFINE id == Cardinality(messagesRead)
           tenant == IF m.auth # Unset /\ m.auth.tenant # Unset THEN m.auth.tenant ELSE socket.tenant
           admin == socket.admin \/ (m.auth # Unset /\ m.auth.admin)
           asks == {[id |-> <<id, "query", i>>, pc |-> "start", scope |-> Unset, target |-> Unset,
                      todo |-> m.queries] : i \in DOMAIN m.queries}
           counts == {[id |-> <<id, "count", i>>, pc |-> "count", query |-> m.counts[i]] : i \in DOMAIN m.counts}
<1>4. CASE /\ m.auth # Unset => m.auth.valid
           /\ socket' = [socket EXCEPT !.authenticated = TRUE, !.pc = "filter", !.cmds = m.subs,
                                       !.tenant = tenant, !.admin = admin]
           /\ tasks' = tasks \cup asks \cup counts
  <2>1. m.auth # Unset => m.auth \in Tokens /\ m.auth.admin \in BOOLEAN
    BY WsInputAssumption DEF Tokens
  <2>2. admin \in BOOLEAN /\ tenant \in WsTenants
    BY <2>1 DEF WsInv, WsTypes, WsTenants
  <2>3. m.subs \in Seq(SubCmds) /\ m.queries \in Seq(Queries) /\ m.counts \in Seq(Counts)
    <3>1. /\ Range(m.subs) \subseteq SubCmds /\ Range(m.queries) \subseteq Queries /\ Range(m.counts) \subseteq Counts
          /\ m.subs \in Seq(Range(m.subs)) /\ m.queries \in Seq(Range(m.queries)) /\ m.counts \in Seq(Range(m.counts))
      BY WsInputAssumption DEF SubCmds, Queries, Counts
    <3> HIDE DEF SubCmds, Queries, Counts
    <3> QED BY <3>1
  <2>4. m.subs \in CmdTables
    <3>1. 1..Len(m.subs) \in SUBSET Nat /\ m.subs \in [1..Len(m.subs) -> SubCmds]
      BY <2>3
    <3> QED BY <3>1 DEF CmdTables
  <2> HIDE DEF tenant, admin
  <2>5. /\ socket' \in [pc : {"read", "filter", "register", "closed"}, cmds : CmdTables, authenticated : BOOLEAN,
                        tenant : WsTenants, admin : BOOLEAN]
        /\ socket'.cmds = m.subs /\ socket'.pc = "filter" /\ socket'.tenant = tenant /\ socket'.admin = admin
    BY <1>4, <2>2, <2>4 DEF WsInv, WsTypes
  <2>6. asks \subseteq QueryTask
    <3> SUFFICES ASSUME NEW i \in DOMAIN m.queries
                 PROVE  [id |-> <<id, "query", i>>, pc |-> "start", scope |-> Unset, target |-> Unset,
                         todo |-> m.queries] \in QueryTask
      OBVIOUS
    <3>1. <<id, "query", i>> \in TaskIds
      BY <1>2, <2>3 DEF TaskIds
    <3> QED BY <2>3, <3>1 DEF QueryTask
  <2>7. counts \subseteq CountTask
    <3> SUFFICES ASSUME NEW i \in DOMAIN m.counts
                 PROVE  [id |-> <<id, "count", i>>, pc |-> "count", query |-> m.counts[i]] \in CountTask
      OBVIOUS
    <3>1. <<id, "count", i>> \in TaskIds /\ m.counts[i] \in Counts
      BY <1>2, <2>3 DEF TaskIds
    <3> QED BY <3>1 DEF CountTask
  <2>8. WsTypes'
    BY <1>1, <1>2, <1>4, <2>5, <2>6, <2>7 DEF WsInv, WsTypes
  <2>9. /\ Requested \subseteq Requested' /\ TenantsShown \subseteq TenantsShown' /\ \A e : MayHave(e) => MayHave(e)'
        /\ \A g : QueryTaskFits(g) => QueryTaskFits(g)'
        /\ \A c, b : BindingFits(c, b) => BindingFits(c, b)'
    <3>1. socket.admin => socket'.admin
      BY <2>5 DEF admin
    <3> QED BY <1>1, <3>1, WsGrows
  <2>10. Range(m.subs) \cup Range(m.queries) \subseteq Requested'
    BY <1>1 DEF Requested
  <2>11. m.auth # Unset => m.auth.tenant \in TenantsShown'
    BY <1>1, <1>4 DEF TenantsShown
  <2>12. SocketFits'
    <3>1. tenant \in TenantsShown' \cup {Unset}
      BY <2>9, <2>11 DEF tenant, WsInv, SocketFits, ScopeOK, sessionScope
    <3>2. sessionScope' = [tenant |-> tenant, admin |-> admin]
      BY <2>5 DEF sessionScope
    <3>3. ScopeOK(sessionScope)'
      BY <2>2, <2>5, <3>1, <3>2 DEF ScopeOK, Scopes
    <3>4. \A i \in DOMAIN m.subs : m.subs[i] \in Requested'
      BY <2>10 DEF Range
    <3> QED BY <2>5, <3>3, <3>4 DEF SocketFits
  <2>13. \A g \in asks : QueryTaskFits(g)'
    <3> SUFFICES ASSUME NEW g \in asks PROVE QueryTaskFits(g)'
      OBVIOUS
    <3>1. g.todo = m.queries /\ g.pc = "start" /\ m.queries # <<>>
      BY <2>3
    <3> QED BY <2>10, <3>1 DEF QueryTaskFits
  <2>14. \A g \in counts : g \notin QueryTask
    BY DEF QueryTask
  <2> HIDE DEF asks, counts
  <2>15. TasksFit'
    BY <1>4, <2>9, <2>13, <2>14 DEF WsInv, TasksFit
  <2> QED BY <1>1, <2>8, <2>9, <2>12, <2>15 DEF WsInv, SubsFit, BindingsFit, AnsweredFits
<1> QED BY <1>3, <1>4 DEF Receive

LEMMA FilterFits == ASSUME WsInv, filterOwnedSubCmds PROVE WsInv'
<1> DEFINE left == {i \in DOMAIN socket.cmds :
                      socket.cmds[i].unsubscribe \/ allows(sessionScope, socket.cmds[i].type, socket.cmds[i].entity)}
           cmds == Restrict(socket.cmds, left)
<1>1. /\ socket' = [socket EXCEPT !.pc = "register", !.cmds = cmds] /\ answeredWith' = {}
      /\ UNCHANGED <<attached, entityCmdMap, tasks, wsRows, messagesRead>>
  BY DEF filterOwnedSubCmds
<1>2. PICK D \in SUBSET Nat : socket.cmds \in [D -> SubCmds]
  BY DEF WsInv, WsTypes, CmdTables
<1>3. left \in SUBSET Nat /\ cmds \in [left -> SubCmds] /\ \A i \in left : cmds[i] = socket.cmds[i] /\ i \in DOMAIN socket.cmds
  BY <1>2 DEF Restrict
<1>4. cmds \in CmdTables
  BY <1>3 DEF CmdTables
<1>5. \A i \in left : ~cmds[i].unsubscribe => allows(sessionScope, cmds[i].type, cmds[i].entity)
  BY <1>3
<1>6. DOMAIN cmds = left
  BY <1>3
<1> HIDE DEF left, cmds
<1>7. /\ socket' \in [pc : {"read", "filter", "register", "closed"}, cmds : CmdTables, authenticated : BOOLEAN,
                      tenant : WsTenants, admin : BOOLEAN]
      /\ socket'.cmds = cmds /\ socket'.tenant = socket.tenant /\ socket'.admin = socket.admin
  BY <1>1, <1>4 DEF WsInv, WsTypes
<1>8. WsTypes'
  BY <1>1, <1>7 DEF WsInv, WsTypes
<1>9. /\ Requested' = Requested /\ sessionScope' = sessionScope
      /\ \A e : MayHave(e) => MayHave(e)'
      /\ \A scope : ScopeOK(scope) => ScopeOK(scope)'
      /\ \A g : QueryTaskFits(g) => QueryTaskFits(g)'
      /\ \A c, b : BindingFits(c, b) => BindingFits(c, b)'
  BY <1>1, <1>7, WsGrows DEF Requested, sessionScope
<1>10. ASSUME NEW i \in DOMAIN cmds
       PROVE  cmds[i] \in Requested /\ (~cmds[i].unsubscribe => MayHave(cmds[i].entity))
  <2>1. cmds[i] \in Requested /\ cmds[i] \in SubCmds
    BY <1>3, <1>6 DEF WsInv, SocketFits
  <2>2. cmds[i].entity \in WsEntities \cup {Unset}
    BY <2>1, WsInputAssumption DEF SubCmds
  <2>3. ScopeOK(sessionScope) /\ messagesRead \subseteq WsMessages
    BY DEF WsInv, WsTypes, SocketFits
  <2>4. ~cmds[i].unsubscribe => MayHave(cmds[i].entity)
    BY <1>5, <1>6, <2>2, <2>3, AllowedIsProven
  <2> QED BY <2>1, <2>4
<1>11. SocketFits'
  BY <1>7, <1>9, <1>10 DEF WsInv, SocketFits
<1> QED BY <1>1, <1>8, <1>9, <1>11 DEF WsInv, TasksFit, SubsFit, BindingsFit, AnsweredFits

LEMMA RegisterFits == ASSUME WsInv, RegisterSubs PROVE WsInv'
<1> DEFINE begin == {i \in DOMAIN socket.cmds : ~socket.cmds[i].unsubscribe}
           reads == {[id |-> <<Cardinality(messagesRead), "initial", i>>, pc |-> "initial", cmd |-> socket.cmds[i]]
                       : i \in {j \in begin : socket.cmds[j].channel # "alarms"}}
<1>1. /\ socket.pc = "register" /\ socket' = [socket EXCEPT !.pc = "read", !.cmds = <<>>] /\ answeredWith' = {}
      /\ attached' = {s \in attached : ~EndedAfter(0, s)}
           \cup {socket.cmds[i] : i \in {j \in begin : ~EndedAfter(j, socket.cmds[j])}}
      /\ tasks' = tasks \cup reads /\ UNCHANGED <<entityCmdMap, wsRows, messagesRead>>
  BY DEF RegisterSubs
<1>2. PICK D \in SUBSET Nat : socket.cmds \in [D -> SubCmds]
  BY DEF WsInv, WsTypes, CmdTables
<1>3. <<>> \in CmdTables /\ DOMAIN <<>> = {}
  <2>1. <<>> \in [{} -> SubCmds] /\ {} \in SUBSET Nat
    OBVIOUS
  <2> QED BY <2>1 DEF CmdTables
<1>4. /\ socket' \in [pc : {"read", "filter", "register", "closed"}, cmds : CmdTables, authenticated : BOOLEAN,
                      tenant : WsTenants, admin : BOOLEAN]
      /\ socket'.cmds = <<>> /\ socket'.tenant = socket.tenant /\ socket'.admin = socket.admin
  BY <1>1, <1>3 DEF WsInv, WsTypes
<1>5. reads \subseteq InitialTask
  <2> SUFFICES ASSUME NEW i \in begin
               PROVE  [id |-> <<Cardinality(messagesRead), "initial", i>>, pc |-> "initial", cmd |-> socket.cmds[i]] \in InitialTask
    OBVIOUS
  <2>1. <<Cardinality(messagesRead), "initial", i>> \in TaskIds
    BY <1>2, FS_CardinalityType DEF TaskIds, WsInv, WsTypes
  <2>2. socket.cmds[i] \in SubCmds /\ socket.cmds[i].entity \in WsEntities
    BY <1>1, <1>2 DEF WsInv, SocketFits, MayHave
  <2> QED BY <2>1, <2>2 DEF InitialTask
<1>6. \A g \in reads : g \notin QueryTask
  BY DEF QueryTask
<1>7. \A s \in attached' : s \in attached \/ \E i \in begin : s = socket.cmds[i]
  BY <1>1
<1>8. \A i \in begin : socket.cmds[i] \in Requested /\ socket.cmds[i] \in SubCmds /\ MayHave(socket.cmds[i].entity)
  BY <1>1, <1>2 DEF WsInv, SocketFits
<1> HIDE DEF begin, reads
<1>9. WsTypes'
  BY <1>1, <1>4, <1>5 DEF WsInv, WsTypes
<1>10. /\ Requested' = Requested /\ sessionScope' = sessionScope
       /\ \A e : MayHave(e) => MayHave(e)'
       /\ \A scope : ScopeOK(scope) => ScopeOK(scope)'
       /\ \A g : QueryTaskFits(g) => QueryTaskFits(g)'
       /\ \A c, b : BindingFits(c, b) => BindingFits(c, b)'
  BY <1>1, <1>4, WsGrows DEF Requested, sessionScope
<1>11. SocketFits'
  BY <1>3, <1>4, <1>10 DEF WsInv, SocketFits
<1>12. TasksFit'
  BY <1>1, <1>6, <1>10 DEF WsInv, TasksFit
<1>13. SubsFit'
  BY <1>7, <1>8, <1>10 DEF WsInv, SubsFit
<1> QED BY <1>1, <1>9, <1>10, <1>11, <1>12, <1>13 DEF WsInv, BindingsFit, AnsweredFits

\* An answer of entities a session may have.
LEMMA AnswerWithFits ==
  ASSUME WsInv, UNCHANGED <<socket, messagesRead>>, NEW S, \A e \in S : MayHave(e), AnswerWith(S)
  PROVE  AnsweredFits'
<1>1. \A e \in answeredWith' : MayHave(e)
  BY DEF AnswerWith
<1>2. \A e : MayHave(e)' <=> MayHave(e)
  BY WsKept
<1> QED BY <1>1, <1>2 DEF AnsweredFits

LEMMA SendInitialFits == ASSUME WsInv, NEW g \in tasks, SendInitial(g) PROVE WsInv'
<1>1. g.pc = "initial" /\ tasks' = tasks \ {g} /\ UNCHANGED <<socket, attached, entityCmdMap, wsRows, messagesRead>>
  BY DEF SendInitial
<1>3. g.cmd.entity \in WsEntities
  BY <1>1, TaskKinds DEF WsInv, InitialTask
<1>4. ScopeOK(sessionScope) /\ messagesRead \subseteq WsMessages
  BY DEF WsInv, WsTypes, SocketFits
<1>5. AnsweredFits'
  <2>1. CASE sendHistoricalSnapshot(g)
    <3>1. AnswerWith(IF socket.tenant = WsOwner[g.cmd.entity] THEN {g.cmd.entity} ELSE {})
      BY <2>1 DEF sendHistoricalSnapshot
    <3>2. \A e \in (IF socket.tenant = WsOwner[g.cmd.entity] THEN {g.cmd.entity} ELSE {}) : MayHave(e)
      <4> SUFFICES ASSUME socket.tenant = WsOwner[g.cmd.entity] PROVE MayHave(g.cmd.entity)
        OBVIOUS
      <4>1. WsOwner[g.cmd.entity] # Unset /\ sessionScope.tenant = socket.tenant
        BY <1>3, WsInputAssumption DEF sessionScope
      <4> QED BY <1>3, <1>4, <4>1 DEF ScopeOK, MayHave, Proven
    <3> QED BY <1>1, <3>1, <3>2, AnswerWithFits
  <2>2. CASE sendInitialAttributes(g)
    <3>1. AnswerWith(IF allows(sessionScope, g.cmd.type, g.cmd.entity) THEN {g.cmd.entity} ELSE {})
      BY <2>2 DEF sendInitialAttributes
    <3>2. \A e \in (IF allows(sessionScope, g.cmd.type, g.cmd.entity) THEN {g.cmd.entity} ELSE {}) : MayHave(e)
      BY <1>3, <1>4, AllowedIsProven
    <3> QED BY <1>1, <3>1, <3>2, AnswerWithFits
  <2> QED BY <2>1, <2>2 DEF SendInitial
<1>6. tasks' \subseteq QueryTask \cup CountTask \cup InitialTask /\ TasksFit'
  BY <1>1, BecomesFits
<1> QED BY <1>1, <1>5, <1>6, WsKept DEF WsInv, WsTypes

LEMMA QueryFindsAllowed ==
  ASSUME WsInv, NEW scope, ScopeOK(scope), NEW q, q.query \in {"list", "relations"}, q.entity \in WsEntities \cup {Unset}
  PROVE  \A e \in QueryFinds(scope, q) : MayHave(e)
<1>1. wsRows \subseteq WsEntities /\ messagesRead \subseteq WsMessages
  BY DEF WsInv, WsTypes
<1>2. CASE q.query = "list"
  <2>1. \A e \in QueryFinds(scope, q) : e \in WsEntities /\ scope.tenant # Unset /\ WsOwner[e] = scope.tenant
    BY <1>1, <1>2 DEF QueryFinds, Visible
  <2> QED BY <2>1 DEF ScopeOK, MayHave, Proven
<1>3. CASE q.query = "relations"
  <2> SUFFICES ASSUME NEW e \in QueryFinds(scope, q) PROVE MayHave(e)
    OBVIOUS
  <2>1. e \in walkRelationsQuery(scope, q.entity)
    BY <1>3 DEF QueryFinds
  <2>2. e \in WsEntities /\ \E n \in 1..WalkLevels : \E path \in [0..n -> WsEntities] :
          path[n] = e /\ \A i \in 1..n : allows(scope, WsKind[path[i]], path[i])
    BY <1>1, <2>1 DEF walkRelationsQuery
  <2>3. allows(scope, WsKind[e], e)
    <3>1. PICK n \in 1..WalkLevels : \E path \in [0..n -> WsEntities] :
            path[n] = e /\ \A i \in 1..n : allows(scope, WsKind[path[i]], path[i])
      BY <2>2
    <3>2. n \in 1..n
      BY WsInputAssumption
    <3> QED BY <3>1, <3>2
  <2> QED BY <1>1, <2>2, <2>3, AllowedIsProven
<1> QED BY <1>2, <1>3

LEMMA CountFits == ASSUME WsInv, NEW g \in tasks, handleEntityCountCmd(g) PROVE WsInv'
<1>1. /\ g.pc = "count" /\ tasks' = tasks \ {g} /\ UNCHANGED <<socket, attached, entityCmdMap, wsRows, messagesRead>>
      /\ AnswerWith(QueryFinds(sessionScope, g.query))
  BY DEF handleEntityCountCmd
<1>2. g.query \in Counts
  BY <1>1, TaskKinds DEF WsInv, CountTask
<1>3. g.query.query \in {"list", "relations"} /\ g.query.entity \in WsEntities \cup {Unset}
  BY <1>2, WsInputAssumption DEF Counts
<1>4. ScopeOK(sessionScope)
  BY DEF WsInv, SocketFits
<1>5. \A e \in QueryFinds(sessionScope, g.query) : MayHave(e)
  BY <1>3, <1>4, QueryFindsAllowed
<1>6. AnsweredFits'
  BY <1>1, <1>5, AnswerWithFits
<1>7. tasks' \subseteq QueryTask \cup CountTask \cup InitialTask /\ TasksFit'
  BY <1>1, BecomesFits
<1> QED BY <1>1, <1>6, <1>7, WsKept DEF WsInv, WsTypes

LEMMA TakeScopeFits == ASSUME WsInv, NEW g \in tasks, TakeScope(g) PROVE WsInv'
<1> DEFINE h == [g EXCEPT !.scope = sessionScope, !.pc = "gate"]
<1>1. /\ g.pc = "start" /\ Becomes(g, h) /\ answeredWith' = {}
      /\ UNCHANGED <<socket, attached, entityCmdMap, wsRows, messagesRead>>
  BY DEF TakeScope
<1>2. g \in QueryTask /\ QueryTaskFits(g) /\ ScopeOK(sessionScope)
  BY <1>1, TaskKinds DEF WsInv, TasksFit, SocketFits
<1>3. h \in QueryTask /\ h.todo = g.todo /\ h.pc = "gate" /\ h.scope = sessionScope
  BY <1>2 DEF QueryTask, ScopeOK
<1> HIDE DEF h
<1>4. QueryTaskFits(h)
  BY <1>2, <1>3 DEF QueryTaskFits
<1>5. tasks' \subseteq QueryTask \cup CountTask \cup InitialTask /\ TasksFit'
  BY <1>1, <1>3, <1>4, BecomesFits
<1> QED BY <1>1, <1>5, WsKept DEF WsInv, WsTypes

LEMMA RunQueryFits == ASSUME WsInv, NEW g \in tasks, RunQuery(g) PROVE WsInv'
<1> DEFINE q == Head(g.todo)
           h == [g EXCEPT !.pc = "bind"]
<1>1. /\ g.pc = "gate" /\ UNCHANGED <<socket, attached, wsRows, messagesRead>>
      /\ ListQuery(g, q) \/ UsageQuery(g, q) \/ Gate(g, q)
  BY DEF RunQuery
<1>2. g \in QueryTask /\ QueryTaskFits(g) /\ ScopeOK(g.scope)
  BY <1>1, TaskKinds DEF WsInv, TasksFit, QueryTaskFits
<1>3. /\ q \in Requested /\ q.op = "query" /\ q.entity \in WsEntities \cup {Unset} /\ q.cmd \in CmdIds
      /\ q.query = "usage" => q.entity = Unset
  BY <1>2, HeadAsked
<1>4. wsRows \subseteq WsEntities /\ messagesRead \subseteq WsMessages
  BY DEF WsInv, WsTypes
<1>5. NextQuery(g) => tasks' \subseteq QueryTask \cup CountTask \cup InitialTask /\ TasksFit'
  BY <1>1, <1>2, NextQueryFits
<1>6. CASE ListQuery(g, q)
  <2>1. \A e \in QueryFinds(g.scope, q) : MayHave(e)
    BY <1>2, <1>3, <1>6, QueryFindsAllowed DEF ListQuery
  <2>2. AnsweredFits'
    BY <1>1, <1>6, <2>1, AnswerWithFits DEF ListQuery
  <2> QED BY <1>1, <1>5, <1>6, <2>2, WsKept DEF WsInv, WsTypes, ListQuery
<1>7. CASE UsageQuery(g, q)
  <2>1. \A e \in Visible(g.scope, "API_USAGE_STATE") : MayHave(e)
    BY <1>2, <1>4 DEF Visible, ScopeOK, MayHave, Proven
  <2>2. CASE AnswerWith({}) /\ UNCHANGED entityCmdMap
    <3>1. AnsweredFits'
      BY <1>1, <2>2, AnswerWithFits
    <3> QED BY <1>1, <1>5, <1>7, <2>2, <3>1, WsKept DEF WsInv, WsTypes, UsageQuery
  <2>3. ASSUME NEW e \in Visible(g.scope, "API_USAGE_STATE"), AnswerWith({e}),
               entityCmdMap' = [entityCmdMap EXCEPT ![q.cmd] = [entity |-> e, keys |-> {}, attrKeys |-> <<>>]]
        PROVE  WsInv'
    <3> DEFINE b == [entity |-> e, keys |-> {}, attrKeys |-> <<>>]
    <3>1. AnsweredFits'
      BY <1>1, <2>1, <2>3, AnswerWithFits
    <3>2. q \in AskedFor(q.cmd, e) /\ q.query = "usage"
      BY <1>3, <1>7 DEF AskedFor, UsageQuery
    <3>3. DOMAIN b.attrKeys = {} /\ b.keys = {} /\ b.entity = e
      OBVIOUS
    <3> HIDE DEF b
    <3>4. BindingFits(q.cmd, b)
      BY <2>1, <3>2, <3>3 DEF BindingFits
    <3>5. /\ entityCmdMap' = [c \in CmdIds |-> entityCmdMap'[c]] /\ entityCmdMap'[q.cmd] = b
          /\ \A c \in CmdIds \ {q.cmd} : entityCmdMap'[c] = entityCmdMap[c]
      <4>1. entityCmdMap = [c \in CmdIds |-> entityCmdMap[c]] /\ entityCmdMap' = [entityCmdMap EXCEPT ![q.cmd] = b]
        BY <2>3 DEF WsInv, WsTypes, b
      <4> QED BY <1>3, <4>1, MapUpdate
    <3>6. \A c, x : BindingFits(c, x) => BindingFits(c, x)'
      BY <1>1, WsGrows
    <3>7. BindingsFit'
      BY <3>4, <3>5, <3>6 DEF WsInv, BindingsFit
    <3> QED BY <1>1, <1>5, <1>7, <3>1, <3>5, <3>7, WsKept DEF WsInv, UsageQuery
  <2> QED BY <1>7, <2>2, <2>3 DEF UsageQuery
<1>8. CASE Gate(g, q)
  <2>1. tasks' \subseteq QueryTask \cup CountTask \cup InitialTask /\ TasksFit'
    <3>1. CASE NextQuery(g)
      BY <1>5, <3>1
    <3>2. CASE ~(q.entity # Unset /\ ~allows(g.scope, q.type, q.entity)) /\ Becomes(g, h)
      <4>1. q.entity # Unset => MayHave(q.entity)
        BY <1>2, <1>3, <1>4, <3>2, AllowedIsProven
      <4>2. h \in QueryTask /\ h.todo = g.todo /\ h.pc = "bind" /\ h.scope = g.scope
        BY <1>2 DEF QueryTask
      <4>3. q.query = "entity"
        BY <1>8 DEF Gate
      <4>4. QueryTaskFits(h)
        <5> HIDE DEF h
        <5> QED BY <1>2, <4>1, <4>2, <4>3 DEF QueryTaskFits
      <4> QED BY <1>1, <3>2, <4>2, <4>4, BecomesFits
    <3> QED BY <1>8, <3>1, <3>2 DEF Gate
  <2> QED BY <1>1, <1>8, <2>1, WsKept DEF WsInv, WsTypes, Gate
<1> QED BY <1>1, <1>6, <1>7, <1>8

\* What a query binds was asked for, with the keys of its earlier messages.
LEMMA BoundFits ==
  ASSUME WsInv, NEW q \in Requested, q.op = "query", q.cmd \in CmdIds,
         q.entity # Unset => MayHave(q.entity), q.entity # Unset \/ entityCmdMap[q.cmd] # Unset
  PROVE  BindingFits(q.cmd, Bound(entityCmdMap[q.cmd], q))
<1> DEFINE old == entityCmdMap[q.cmd]
           e == IF q.entity # Unset THEN q.entity ELSE old.entity
           b == Bound(old, q)
<1>1. old # Unset => BindingFits(q.cmd, old)
  BY DEF WsInv, BindingsFit
<1>2. MayHave(e)
  BY <1>1 DEF BindingFits
<1>3. q \in AskedFor(q.cmd, e)
  BY DEF AskedFor
<1>4. CASE BindingKept(old, e)
  <2> DEFINE keys == SubKeys(q) \cup old.keys
             attrKeys == [k \in DOMAIN q.attrKeys \cup DOMAIN old.attrKeys |->
                            IF k \in DOMAIN q.attrKeys THEN q.attrKeys[k] ELSE old.attrKeys[k]]
  <2>1. b = [entity |-> e, keys |-> keys, attrKeys |-> attrKeys]
    BY <1>4 DEF Bound
  <2>2. BindingFits(q.cmd, old) /\ old.entity = e
    BY <1>1, <1>4 DEF BindingKept
  <2>3. b.entity = e /\ b.keys = keys /\ b.attrKeys = attrKeys
    <3> HIDE DEF b, keys, attrKeys, e
    <3> QED BY <2>1
  <2>4. b.keys = {} => SubKeys(q) = {}
    BY <2>3
  <2>5. \A k \in b.keys : \E x \in AskedFor(q.cmd, e) : k \in SubKeys(x)
    <3> HIDE DEF b, e, old
    <3> QED BY <1>3, <2>2, <2>3 DEF BindingFits
  <2>6. \A k \in DOMAIN b.attrKeys :
          \E x \in AskedFor(q.cmd, e) : k \in DOMAIN x.attrKeys /\ x.attrKeys[k] = b.attrKeys[k]
    <3> HIDE DEF b, e, old
    <3> SUFFICES ASSUME NEW k \in DOMAIN b.attrKeys
                 PROVE  \E x \in AskedFor(q.cmd, e) : k \in DOMAIN x.attrKeys /\ x.attrKeys[k] = b.attrKeys[k]
      OBVIOUS
    <3>1. /\ k \in DOMAIN q.attrKeys \cup DOMAIN old.attrKeys
          /\ b.attrKeys[k] = IF k \in DOMAIN q.attrKeys THEN q.attrKeys[k] ELSE old.attrKeys[k]
      BY <2>3
    <3>2. CASE k \in DOMAIN q.attrKeys
      BY <1>3, <3>1, <3>2
    <3>3. CASE k \notin DOMAIN q.attrKeys
      BY <2>2, <3>1, <3>3 DEF BindingFits
    <3> QED BY <3>2, <3>3
  <2> HIDE DEF b, e, old, keys, attrKeys
  <2>7. BindingFits(q.cmd, b)
    BY <1>2, <1>3, <2>3, <2>4, <2>5, <2>6 DEF BindingFits
  <2> QED BY <2>7 DEF b, old
<1>5. CASE ~BindingKept(old, e)
  <2>1. b = [entity |-> e, keys |-> SubKeys(q), attrKeys |-> q.attrKeys]
    BY <1>5 DEF Bound
  <2>2. b.entity = e /\ b.keys = SubKeys(q) /\ b.attrKeys = q.attrKeys
    <3> HIDE DEF b, e
    <3> QED BY <2>1
  <2> HIDE DEF b, e, old
  <2>3. BindingFits(q.cmd, b)
    BY <1>2, <1>3, <2>2 DEF BindingFits
  <2> QED BY <2>3 DEF b, old
<1> QED BY <1>4, <1>5

LEMMA BindFits == ASSUME WsInv, NEW g \in tasks, Bind(g) PROVE WsInv'
<1> DEFINE q == Head(g.todo)
           old == entityCmdMap[q.cmd]
           b == Bound(old, q)
           h == [g EXCEPT !.pc = "answer", !.target = b.entity]
<1>1. g.pc = "bind" /\ answeredWith' = {} /\ UNCHANGED <<socket, attached, wsRows, messagesRead>>
  BY DEF Bind
<1>2. g \in QueryTask /\ QueryTaskFits(g) /\ g.pc # "start"
  BY <1>1, TaskKinds DEF WsInv, TasksFit
<1>3. q \in Requested /\ q.op = "query" /\ q.cmd \in CmdIds /\ (q.entity # Unset => MayHave(q.entity))
  BY <1>1, <1>2, HeadAsked DEF QueryTaskFits
<1>4. CASE q.entity = Unset /\ old = Unset
  <2>1. NextQuery(g) /\ UNCHANGED entityCmdMap
    BY <1>4 DEF Bind
  <2>2. tasks' \subseteq QueryTask \cup CountTask \cup InitialTask /\ TasksFit'
    BY <1>1, <1>2, <2>1, NextQueryFits
  <2> QED BY <1>1, <2>1, <2>2, WsKept DEF WsInv, WsTypes
<1>5. CASE ~(q.entity = Unset /\ old = Unset)
  <2>1. entityCmdMap' = [entityCmdMap EXCEPT ![q.cmd] = b] /\ Becomes(g, h)
    BY <1>5 DEF Bind
  <2>2. BindingFits(q.cmd, b)
    BY <1>3, <1>5, BoundFits
  <2> HIDE DEF b, q
  <2>3. MayHave(b.entity) /\ b.entity \in WsEntities
    BY <2>2 DEF BindingFits, MayHave
  <2>4. h \in QueryTask /\ h.todo = g.todo /\ h.pc = "answer" /\ h.scope = g.scope /\ h.target = b.entity
    BY <1>2, <2>3 DEF QueryTask
  <2>5. QueryTaskFits(h)
    <3> HIDE DEF h
    <3> QED BY <1>2, <2>3, <2>4 DEF QueryTaskFits
  <2> HIDE DEF h
  <2>6. tasks' \subseteq QueryTask \cup CountTask \cup InitialTask /\ TasksFit'
    BY <1>1, <2>1, <2>4, <2>5, BecomesFits
  <2>7. /\ entityCmdMap' = [c \in CmdIds |-> entityCmdMap'[c]] /\ entityCmdMap'[q.cmd] = b
        /\ \A c \in CmdIds \ {q.cmd} : entityCmdMap'[c] = entityCmdMap[c]
    <3>1. entityCmdMap = [c \in CmdIds |-> entityCmdMap[c]]
      BY DEF WsInv, WsTypes
    <3> QED BY <1>3, <2>1, <3>1, MapUpdate
  <2>8. \A c, x : BindingFits(c, x) => BindingFits(c, x)'
    BY <1>1, WsGrows
  <2>9. BindingsFit'
    BY <2>2, <2>7, <2>8 DEF WsInv, BindingsFit
  <2> QED BY <1>1, <2>6, <2>7, <2>9, WsKept DEF WsInv
<1> QED BY <1>4, <1>5

LEMMA AnswerQueryFits == ASSUME WsInv, NEW g \in tasks, AnswerQuery(g) PROVE WsInv'
<1>1. /\ g.pc = "answer" /\ AnswerWith({g.target}) /\ NextQuery(g)
      /\ UNCHANGED <<socket, attached, entityCmdMap, wsRows, messagesRead>>
  BY DEF AnswerQuery
<1>2. g \in QueryTask /\ MayHave(g.target) /\ g.pc # "start"
  BY <1>1, TaskKinds DEF WsInv, TasksFit, QueryTaskFits
<1>3. AnsweredFits'
  BY <1>1, <1>2, AnswerWithFits
<1>4. tasks' \subseteq QueryTask \cup CountTask \cup InitialTask /\ TasksFit'
  BY <1>1, <1>2, NextQueryFits
<1> QED BY <1>1, <1>3, <1>4, WsKept DEF WsInv, WsTypes

LEMMA DeleteRowFits == ASSUME WsInv, NEW e, DeleteRow(e) PROVE WsInv'
<1>1. wsRows' \subseteq wsRows /\ answeredWith' = {} /\ UNCHANGED <<socket, attached, entityCmdMap, tasks, messagesRead>>
  BY DEF DeleteRow
<1>2. TasksFit'
  BY <1>1, WsGrows DEF WsInv, TasksFit
<1> QED BY <1>1, <1>2, WsKept DEF WsInv, WsTypes

\* The same, for a step that changes nothing.
LEMMA WsStutterFits == ASSUME WsInv, UNCHANGED wsVars PROVE WsInv'
<1>1. UNCHANGED <<socket, attached, entityCmdMap, tasks, wsRows, messagesRead, answeredWith>>
  BY DEF wsVars
<1>2. TasksFit'
  BY <1>1, WsGrows DEF WsInv, TasksFit
<1>3. AnsweredFits'
  BY <1>1, WsKept DEF WsInv, AnsweredFits
<1> QED BY <1>1, <1>2, <1>3, WsKept DEF WsInv, WsTypes

\* Whatever a client sends, whenever it shows another token, and however the
\* goroutines of its queries interleave with the messages it sends next and with
\* deletes of entities (ws.go: filterOwnedSubCmds, the gates of the query handlers,
\* registration under session.mu), a session is answered with and pushed only what
\* belongs to a tenant whose token it has shown, and a command only keys that the
\* client asked for with it (ws.go and journal.go: the broadcasters).
THEOREM SubscriptionsStayRight == WsSpec => []SubscriptionsHold
<1>1. WsInv /\ [WsNext]_wsVars => WsInv'
  <2> SUFFICES ASSUME WsInv, [WsNext]_wsVars PROVE WsInv'
    OBVIOUS
  <2>1. CASE \E m \in WsMessages : Receive(m)
    BY <2>1, ReceiveFits
  <2>2. CASE filterOwnedSubCmds
    BY <2>2, FilterFits
  <2>3. CASE RegisterSubs
    BY <2>3, RegisterFits
  <2>4. ASSUME NEW g \in tasks, TakeScope(g) PROVE WsInv'
    BY <2>4, TakeScopeFits
  <2>5. ASSUME NEW g \in tasks, RunQuery(g) PROVE WsInv'
    BY <2>5, RunQueryFits
  <2>6. ASSUME NEW g \in tasks, Bind(g) PROVE WsInv'
    BY <2>6, BindFits
  <2>7. ASSUME NEW g \in tasks, AnswerQuery(g) PROVE WsInv'
    BY <2>7, AnswerQueryFits
  <2>8. ASSUME NEW g \in tasks, SendInitial(g) PROVE WsInv'
    BY <2>8, SendInitialFits
  <2>9. ASSUME NEW g \in tasks, handleEntityCountCmd(g) PROVE WsInv'
    BY <2>9, CountFits
  <2>10. ASSUME NEW e \in ShortLived, DeleteRow(e) PROVE WsInv'
    BY <2>10, DeleteRowFits
  <2>11. CASE UNCHANGED wsVars
    BY <2>11, WsStutterFits
  <2> QED BY <2>1, <2>2, <2>3, <2>4, <2>5, <2>6, <2>7, <2>8, <2>9, <2>10, <2>11 DEF WsNext
<1> QED BY <1>1, WsInvInit, WsInvImplies, PTL DEF WsSpec
=============================================================================
