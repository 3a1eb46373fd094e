---------------------------- MODULE UsageReport ----------------------------
(***************************************************************************)
(* The usage counters (usage/): once a minute a snapshot publishes, for    *)
(* every tenant, how far the raw stream and its alarm consumer have moved  *)
(* since the top of the hour.  The position at the top of the hour is not  *)
(* known: hourBaseline takes the one of the first snapshot that finds the  *)
(* hour turned, or the sequences moved back.                               *)
(*                                                                         *)
(* A snapshot reads the clock and then the two sequences, one after the    *)
(* other, for each tenant anew.  Differences of sequences are unsigned.    *)
(***************************************************************************)
EXTENDS Naturals, FiniteSets, Functions

CONSTANTS
  UsageTenants,   \* tenants with an api_usage_state row
  Width,          \* sequences are numbers modulo 2^Width
  MaxHour, MaxSeq, MaxSnapshots, MaxFaults, \* bounds
  NotMeasured     \* no counter in the snapshot

ASSUME UsageAssumption ==
  /\ MaxHour \in Nat \ {0} /\ MaxSeq \in Nat
  /\ Width \in Nat /\ 2^Width \in Nat /\ 2^Width > MaxSeq

VARIABLES
  hour,        \* the wall clock
  msgSeq, ruleSeq, \* the last sequence of the stream, deliveries of the consumer
  baseline,    \* hourBaseline: [primed, hour, msg, rule]
  snapshot,    \* the one under way: [pc, tenants, hour, msg, rule]
  snapshots,   \* taken so far
  point,       \* the last counters published for each tenant: [hour, msgs, rules]
  states,      \* tenants that have a state row
  appended,    \* messages and evaluations of each hour (history)
  faults       \* restarts and recreated streams so far

usageVars == <<hour, msgSeq, ruleSeq, baseline, snapshot, snapshots, point, states, appended, faults>>

Minus(a, b) == (a + 2^Width - b) % 2^Width
Resting == [pc |-> "rest", tenants |-> {}, hour |-> 0, msg |-> 0]

-----------------------------------------------------------------------------
(* The stream.                                                             *)

\* Devices publish, the alarm consumer is given messages.
Append1(counter, h) == [appended EXCEPT ![h][counter] = @ + 1]
Arrived == FoldFunction(LAMBDA a, n : a.msgs + n, 0, appended)
MessageArrives ==
  /\ msgSeq < MaxSeq /\ Arrived < MaxSeq
  /\ msgSeq' = msgSeq + 1
  /\ appended' = Append1("msgs", hour)
  /\ UNCHANGED <<hour, ruleSeq, baseline, snapshot, snapshots, point, states, faults>>
RuleEvaluated ==
  /\ ruleSeq < msgSeq
  /\ ruleSeq' = ruleSeq + 1
  /\ appended' = Append1("rules", hour)
  /\ UNCHANGED <<hour, msgSeq, baseline, snapshot, snapshots, point, states, faults>>

\* A stream that is recreated, with its consumer, or a consumer alone.
Recreated ==
  /\ faults < MaxFaults /\ faults' = faults + 1
  /\ \/ msgSeq' = 0 /\ ruleSeq' = 0
     \/ ruleSeq' = 0 /\ UNCHANGED msgSeq
  /\ UNCHANGED <<hour, baseline, snapshot, snapshots, point, states, appended>>

NextHour ==
  /\ hour < MaxHour
  /\ hour' = hour + 1
  /\ UNCHANGED <<msgSeq, ruleSeq, baseline, snapshot, snapshots, point, states, appended, faults>>

-----------------------------------------------------------------------------
(* A snapshot.                                                             *)

\* A restart: ensureApiUsageStates adds rows for the tenants of then, and the
\* baseline, which is in memory, is gone.
Unprimed == [primed |-> FALSE, hour |-> 0, msg |-> 0, rule |-> 0]
Reboot ==
  /\ faults < MaxFaults /\ faults' = faults + 1
  /\ \E ts \in SUBSET UsageTenants : states' = states \cup ts
  /\ baseline' = Unprimed
  /\ snapshot' = Resting
  /\ UNCHANGED <<hour, msgSeq, ruleSeq, snapshots, point, appended>>

\* writeSnapshot: the tenants are listed, and for each the clock is read.
WriteSnapshot ==
  /\ snapshot.pc = "rest" /\ snapshots < MaxSnapshots /\ states # {}
  /\ snapshots' = snapshots + 1
  /\ snapshot' = [pc |-> "stream", tenants |-> states, hour |-> hour, msg |-> 0]
  /\ UNCHANGED <<hour, msgSeq, ruleSeq, baseline, point, states, appended, faults>>

\* Which of the tenants is next; the clock is read for each.
Onward(t) ==
  LET left == snapshot.tenants \ {t}
  IN  snapshot' = IF left = {} THEN Resting ELSE [pc |-> "stream", tenants |-> left, hour |-> hour, msg |-> 0]

\* dataPlanePoints: the stream, then the consumer; without one, no counters.
StreamLastSeq ==
  /\ snapshot.pc = "stream"
  /\ snapshot' = [snapshot EXCEPT !.pc = "consumer", !.msg = msgSeq]
  /\ UNCHANGED <<hour, msgSeq, ruleSeq, baseline, snapshots, point, states, appended, faults>>

NotMeasuredFor(t) ==
  /\ snapshot.pc \in {"stream", "consumer"} /\ t \in snapshot.tenants
  /\ point' = [point EXCEPT ![t] = NotMeasured]
  /\ Onward(t)
  /\ UNCHANGED <<hour, msgSeq, ruleSeq, baseline, snapshots, states, appended, faults>>

\* hourBaseline.since.  Mutant: a sequence is taken for one that only grows.
NeverBack(msg, rule) == FALSE
TurnsOver(h) == ~baseline.primed \/ baseline.hour # h
MovedBack(msg, rule) == msg < baseline.msg \/ rule < baseline.rule
Rebaselines(h, msg, rule) == TurnsOver(h) \/ MovedBack(msg, rule)

ConsumerDelivered(t) ==
  LET again == Rebaselines(snapshot.hour, snapshot.msg, ruleSeq)
  IN  /\ snapshot.pc = "consumer" /\ t \in snapshot.tenants
      /\ baseline' = IF again THEN [primed |-> TRUE, hour |-> snapshot.hour, msg |-> snapshot.msg, rule |-> ruleSeq]
                     ELSE baseline
      /\ point' = [point EXCEPT ![t] =
                     [hour |-> snapshot.hour,
                      msgs |-> IF again THEN 0 ELSE Minus(snapshot.msg, baseline.msg),
                      rules |-> IF again THEN 0 ELSE Minus(ruleSeq, baseline.rule)]]
      /\ Onward(t)
      /\ UNCHANGED <<hour, msgSeq, ruleSeq, snapshots, states, appended, faults>>

-----------------------------------------------------------------------------
UsageInit ==
  /\ hour = 1 /\ msgSeq = 0 /\ ruleSeq = 0
  /\ baseline = Unprimed /\ snapshot = Resting /\ snapshots = 0
  /\ point = [t \in UsageTenants |-> NotMeasured]
  /\ states \in (SUBSET UsageTenants) \ {{}} /\ faults = 0
  /\ appended = [h \in 1..MaxHour |-> [msgs |-> 0, rules |-> 0]]

UsageNext ==
  \/ MessageArrives \/ RuleEvaluated \/ Recreated \/ NextHour \/ Reboot
  \/ WriteSnapshot \/ StreamLastSeq
  \/ \E t \in UsageTenants : NotMeasuredFor(t) \/ ConsumerDelivered(t)

UsageSpec == UsageInit /\ [][UsageNext]_usageVars

-----------------------------------------------------------------------------
\* What has arrived since the top of each hour.
Since(counter) ==
  LET sum[h \in 1..MaxHour] == appended[h][counter] + IF h = MaxHour THEN 0 ELSE sum[h + 1]
  IN  sum

\* Whatever the order of snapshots, restarts, recreated streams and turns of the
\* hour: what is published for an hour never exceeds what arrived since that hour
\* began.  It is not "a number that is wrong by the stream's whole history", and
\* no difference wraps.
UsageIsMeasured ==
  \A t \in UsageTenants : point[t] # NotMeasured =>
    /\ point[t].msgs <= Since("msgs")[point[t].hour]
    /\ point[t].rules <= Since("rules")[point[t].hour]
=============================================================================
