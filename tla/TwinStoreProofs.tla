-------------------------- MODULE TwinStoreProofs --------------------------
(***************************************************************************)
(* Theorems about the twin store and its watch, for any number of          *)
(* requests, messages, keys, attempts and faults.                          *)
(***************************************************************************)
EXTENDS TwinWatch, SequenceTheorems, TLAPS

(* What the handlers rely on at each place of their code.                  *)
Handles ==
  \A w \in Writers :
    /\ req[w].pc \in {"save", "stamp", "publish"} => w \in Savers
    /\ req[w].pc \in {"get", "put"} => req[w].ts \in Stamps

(* A request about to write holds the document of the revision it read.    *)
Reads ==
  \A w \in Writers : req[w].pc = "put" =>
    /\ req[w].rev <= rev
    /\ req[w].rev = rev => req[w].base = doc

(* Without faults every lost attempt was overtaken by a write of its own.  *)
Counts ==
  \A w \in Writers : faults = 0 =>
    /\ req[w].attempt <= rev
    /\ req[w].pc = "put" => req[w].attempt <= req[w].rev

(* Every document in sight has a truthful updatedTs.                       *)
Docs ==
  /\ Kv!IsNewest(doc) /\ \A i \in 1 .. Len(sink.reads) : Kv!IsNewest(sink.reads[i])
  /\ \A w \in Writers : Kv!IsNewest(req[w].base)

-----------------------------------------------------------------------------
(* The merge.                                                              *)

LEMMA StampsAreNat == \A t \in Stamps : t \in Nat /\ t # 0
BY ConstantsAssumption DEF Stamps

LEMMA DocTimes ==
    ASSUME NEW d \in Kv!Doc
    PROVE  d.updatedTs \in Nat /\ \A k \in Keys : d.values[k].ts \in Nat
<1>1. d.updatedTs \in Stamps \cup {0}
  BY DEF Kv!Doc
<1>2. \A k \in Keys : d.values[k].ts \in Stamps \cup {0}
  BY DEF Kv!Doc, Kv!Value
<1> QED BY <1>1, <1>2, StampsAreNat

LEMMA EmptyType == Empty \in Kv!Doc /\ Kv!IsNewest(Empty)
<1>1. [ts |-> 0, val |-> Absent] \in Kv!Value
  BY DEF Kv!Value
<1> QED BY <1>1 DEF Empty, Kv!Empty, Kv!Doc, Kv!IsNewest

LEMMA NewerType ==
    ASSUME NEW a \in Nat, NEW b \in Nat
    PROVE  Newer(a, b) \in {a, b} /\ Newer(a, b) >= a /\ Newer(a, b) >= b
BY DEF Newer

LEMMA ApplyType ==
    ASSUME NEW d \in Kv!Doc, NEW K, NEW ts \in Stamps, NEW v \in Vals
    PROVE  Apply(d, K, ts, v) \in Kv!Doc
<1>1. [ts |-> ts, val |-> v] \in Kv!Value
  BY DEF Kv!Value
<1>2. d.updatedTs \in Nat /\ ts \in Nat
  BY StampsAreNat, DocTimes
<1>3. Newer(ts, d.updatedTs) \in Stamps \cup {0}
  BY <1>2, NewerType DEF Kv!Doc
<1>4. \A k \in Keys : d.values[k] \in Kv!Value
  BY DEF Kv!Doc
<1> QED BY <1>1, <1>3, <1>4 DEF Apply, Kv!Doc

(* A merge moves no key back, and each of its keys to its timestamp.       *)
LEMMA ApplyGrows ==
    ASSUME NEW d \in Kv!Doc, NEW K, NEW ts \in Stamps, NEW v \in Vals,
           NEW k \in Keys
    PROVE  /\ Apply(d, K, ts, v).values[k].ts >= d.values[k].ts
           /\ k \in K => Apply(d, K, ts, v).values[k].ts >= ts
<1>1. d.values[k].ts \in Nat /\ ts \in Nat
  BY StampsAreNat, DocTimes
<1>2. CASE k \in K /\ ~(d.values[k].ts > ts)
  BY <1>1, <1>2 DEF Apply, Entering, Stale
<1>3. CASE ~(k \in K /\ ~(d.values[k].ts > ts))
  BY <1>1, <1>3 DEF Apply, Entering, Stale
<1> QED BY <1>2, <1>3

LEMMA ApplyNewest ==
    ASSUME NEW d \in Kv!Doc, Kv!IsNewest(d),
           NEW K \in SUBSET Keys, NEW ts \in Stamps, NEW v \in Vals
    PROVE  Kv!IsNewest(Apply(d, K, ts, v))
<1> DEFINE E == Entering(d, K, ts)
           n == Apply(d, K, ts, v)
<1>1. /\ d.updatedTs \in Nat /\ ts \in Nat
      /\ \A k \in Keys : d.values[k].ts \in Nat
  BY StampsAreNat, DocTimes
<1>2. \A k \in Keys : n.values[k].ts = IF k \in E THEN ts ELSE d.values[k].ts
  BY DEF Apply
<1>3. n.updatedTs = IF E = {} THEN d.updatedTs ELSE Newer(ts, d.updatedTs)
  BY DEF Apply
<1>4. E \subseteq Keys
  BY DEF Entering
<1>5. \A k \in E : d.values[k].ts <= ts
  BY <1>1, <1>4 DEF Entering, Stale
<1>6. \A k \in Keys : d.values[k].ts <= d.updatedTs
  BY DEF Kv!IsNewest
<1> SUFFICES Kv!IsNewest(n)
  OBVIOUS
<1> HIDE DEF E, n
<1>7. CASE E = {}
  BY <1>2, <1>3, <1>7 DEF Kv!IsNewest
<1>8. CASE E # {} /\ ts > d.updatedTs
  <2>1. n.updatedTs = ts
    BY <1>3, <1>8 DEF Newer
  <2>2. PICK k \in E : TRUE
    BY <1>8
  <2>3. n.values[k].ts = n.updatedTs
    BY <2>1, <2>2, <1>2, <1>4
  <2>4. \A j \in Keys : n.values[j].ts <= n.updatedTs
    BY <2>1, <1>1, <1>2, <1>6, <1>8
  <2> QED BY <2>2, <2>3, <2>4, <1>4 DEF Kv!IsNewest
<1>9. CASE E # {} /\ ~(ts > d.updatedTs)
  <2>1. n.updatedTs = d.updatedTs
    BY <1>3, <1>9 DEF Newer
  <2>2. \A j \in Keys : n.values[j].ts <= n.updatedTs
    BY <2>1, <1>1, <1>2, <1>6, <1>9
  <2>3. ts # 0 /\ d.updatedTs # 0
    BY <1>1, <1>9, StampsAreNat
  <2>4. PICK k \in Keys : d.values[k].ts = d.updatedTs
    BY <2>3 DEF Kv!IsNewest
  <2>5. CASE k \in E
    BY <2>1, <2>2, <2>4, <2>5, <1>1, <1>2, <1>5, <1>9 DEF Kv!IsNewest
  <2>6. CASE k \notin E
    BY <2>1, <2>2, <2>4, <2>6, <1>2 DEF Kv!IsNewest
  <2> QED BY <2>5, <2>6
<1> QED BY <1>7, <1>8, <1>9

(* flow-core's loop over the keys is the abstract register, key by key.    *)
LEMMA ApplyIsMerge ==
    ASSUME NEW d \in Kv!Doc, NEW K, NEW ts \in Stamps, NEW v \in Vals
    PROVE  Apply(d, K, ts, v).values
             = [k \in Keys |-> Kv!Register(d.values[k], k \in K, ts, v)]
<1>1. \A k \in Keys : (k \in Entering(d, K, ts)) <=> (k \in K /\ ~(d.values[k].ts > ts))
  BY DEF Entering, Stale
<1> QED BY <1>1 DEF Apply, Kv!Register

(* The consumer's mapping computes the same document.                      *)
LEMMA SampleIsApply ==
    ASSUME NEW d \in Kv!Doc, Kv!IsNewest(d), NEW m \in Point
    PROVE  /\ ApplySample(d, m) \in Kv!Doc
           /\ Kv!IsNewest(ApplySample(d, m))
<1>0. m.ts \in Stamps /\ m.val \in Vals /\ m.keys \in SUBSET Keys
  BY DEF Point, NonEmpty, Vals, Keys
<1> DEFINE a == Apply(d, m.keys, m.ts, m.val)
<1>1. a \in Kv!Doc /\ Kv!IsNewest(a)
  BY <1>0, ApplyType, ApplyNewest
<1>2. CASE a.updatedTs = Newer(m.ts, d.updatedTs)
  BY <1>1, <1>2 DEF ApplySample, Kv!Doc, Kv!IsNewest
<1>3. CASE a.updatedTs # Newer(m.ts, d.updatedTs)
  <2>1. Entering(d, m.keys, m.ts) = {} /\ a.updatedTs = d.updatedTs
    BY <1>3 DEF Apply
  <2>2. d.updatedTs \in Nat /\ m.ts \in Nat
    BY <1>0, StampsAreNat, DocTimes
  <2>3. m.ts > d.updatedTs
    BY <1>3, <2>1, <2>2 DEF Newer
  <2>4. m.keys # {}
    BY DEF Point, NonEmpty
  <2>5. PICK k \in m.keys : k \in Keys
    BY <2>4, <1>0
  <2>6. d.values[k].ts <= d.updatedTs
    BY <2>5 DEF Kv!IsNewest
  <2>7. d.values[k].ts \in Nat
    BY <2>5, DocTimes
  <2>8. d.values[k].ts > m.ts
    BY <2>1, <2>5 DEF Entering, Stale
  <2> QED BY <2>2, <2>3, <2>6, <2>7, <2>8
<1> QED BY <1>2, <1>3

(* A message is a nonempty sequence of points, and so is the batch.        *)
LEMMA MessageType ==
    ASSUME NEW m \in Message
    PROVE  /\ Len(m) \in Nat \ {0} /\ DOMAIN m = 1 .. Len(m)
           /\ \A j \in 1 .. Len(m) : m[j] \in Point
<1>1. PICK n \in 1 .. MaxPoints : m \in [1 .. n -> Point]
  BY DEF Message
<1>2. n \in Nat /\ 1 \in 1 .. n
  BY <1>1, ConstantsAssumption
<1>3. m \in Seq(Point)
  BY <1>1, <1>2, SeqDef
<1>4. Len(m) \in Nat /\ DOMAIN m = 1 .. Len(m) /\ 1 .. n = 1 .. Len(m)
  BY <1>1, <1>3, LenProperties
<1>5. 1 \in 1 .. Len(m)
  BY <1>2, <1>4
<1> QED BY <1>1, <1>4, <1>5

LEMMA BatchType ==
    ASSUME TypeOK, acked < Len(stream)
    PROVE  /\ Points \in Message /\ Len(Points) \in Nat \ {0}
           /\ acked + 1 \in 1 .. Len(stream)
           /\ \A j \in 1 .. Len(Points) : Points[j] \in Point
<1>1. stream \in Seq(Message) /\ Len(stream) \in Nat /\ acked \in Nat
  BY DEF TypeOK
<1>2. acked + 1 \in 1 .. Len(stream)
  BY <1>1
<1>3. Points \in Message
  BY <1>1, <1>2 DEF Points
<1> QED BY <1>2, <1>3, MessageType

-----------------------------------------------------------------------------
(* Types.                                                                  *)

(* One request moves; the others, and what the handlers rely on, stay.     *)
LEMMA RequestMoves ==
    ASSUME req \in [Writers -> Request], Handles, NEW w \in Writers, NEW r \in Request,
           req' = [req EXCEPT ![w] = r],
           r.pc \in {"save", "stamp", "publish"} => w \in Savers,
           r.pc \in {"get", "put"} => r.ts \in Stamps
    PROVE  req' \in [Writers -> Request] /\ Handles'
BY DEF Handles

LEMMA InitType == Init => TypeOK /\ Handles
<1> SUFFICES ASSUME Init PROVE TypeOK /\ Handles
  OBVIOUS
<1> USE DEF Init
<1>1. Idle \in Request
  BY EmptyType DEF Idle, Request, PCs
<1>2. req \in [Writers -> Request] /\ Handles
  BY <1>1 DEF Handles, Idle
<1>3. clock \in Stamps
  BY ConstantsAssumption DEF Stamps
<1>4. stream \in Seq(Message) /\ Len(stream) = 0
  OBVIOUS
<1>5. SinkOK
  <2>1. sink.reads = <<>> /\ <<>> \in Seq(Kv!Doc) /\ sink.sets = 0
    BY DEF Waiting
  <2> QED BY <2>1 DEF SinkOK, Waiting
<1> QED BY <1>2, <1>3, <1>4, <1>5, EmptyType, ConstantsAssumption DEF TypeOK

LEMMA MergeReturnsType ==
    ASSUME TypeOK, Handles, NEW w \in Writers, NEW result \in {"yes", "error"},
           MergeReturns(w, result)
    PROVE  req' \in [Writers -> Request] /\ Handles'
<1> DEFINE r == [req[w] EXCEPT !.pc = AfterMerge(w), !.merged = result,
                               !.base = Empty, !.rev = 0]
<1>1. req[w] \in Request
  BY DEF TypeOK
<1>2. /\ AfterMerge(w) \in {"publish", "done"}
      /\ AfterMerge(w) = "publish" => w \in Savers
  BY DEF AfterMerge
<1>3. r \in Request /\ r.pc = AfterMerge(w)
  BY <1>1, <1>2, EmptyType DEF Request, PCs
<1>4. req' = [req EXCEPT ![w] = r]
  BY DEF MergeReturns, TypeOK
<1> HIDE DEF r
<1> QED BY <1>2, <1>3, <1>4, RequestMoves DEF TypeOK

LEMMA LostAttemptType ==
    ASSUME TypeOK, Handles, NEW w \in Writers, req[w].pc = "put", LostAttempt(w)
    PROVE  req' \in [Writers -> Request] /\ Handles'
<1>1. CASE MergeReturns(w, "error")
  BY <1>1, MergeReturnsType
<1>2. CASE req' = [req EXCEPT ![w].pc = AfterLostAttempt, ![w].attempt = @ + 1]
  <2> DEFINE r == [req[w] EXCEPT !.pc = "get", !.attempt = req[w].attempt + 1]
  <2>1. req[w] \in Request /\ req[w].ts \in Stamps
    BY DEF TypeOK, Handles
  <2>a. req[w].attempt + 1 \in Nat
    BY <2>1 DEF Request
  <2>2. r \in Request /\ r.pc = "get" /\ r.ts = req[w].ts
    BY <2>1, <2>a DEF Request, PCs
  <2>3. req' = [req EXCEPT ![w] = r]
    BY <1>2 DEF AfterLostAttempt, TypeOK
  <2> HIDE DEF r
  <2> QED BY <2>1, <2>2, <2>3, RequestMoves DEF TypeOK
<1> QED BY <1>1, <1>2 DEF LostAttempt

LEMMA WriteType ==
    ASSUME TypeOK, Handles, NEW w \in Writers, req[w].pc = "put",
           Write(Apply(req[w].base, req[w].keys, req[w].ts, w))
    PROVE  doc' \in Kv!Doc /\ rev' \in Nat
<1>1. req[w] \in Request /\ req[w].ts \in Stamps /\ w \in Vals
  BY DEF TypeOK, Handles, Vals
<1>2. req[w].base \in Kv!Doc
  BY <1>1 DEF Request
<1> QED BY <1>1, <1>2, ApplyType DEF Write, TypeOK

LEMMA RequestType ==
    ASSUME TypeOK, Handles, NEW w \in Writers, RequestStep(w) \/ RequestFault(w)
    PROVE  TypeOK' /\ Handles'
<1>a. req[w] \in Request
  BY DEF TypeOK
<1>b. faults' \in 0 .. MaxFaults /\ UNCHANGED <<clock, stream, acked, sink>>
  BY ConstantsAssumption DEF RequestStep, RequestFault, CommitAttributes, StampAttributes,
     PublishSaved, GetDoc, PutDoc, PutConflicts, AbortAttributes, GetFails, PutLost,
     PutUnacked, CrashRequest, Fault, TypeOK
<1> SUFFICES /\ req' \in [Writers -> Request] /\ Handles'
             /\ pg' \in [AttrKeys -> Savers \cup {Absent}]
             /\ doc' \in Kv!Doc /\ rev' \in Nat
             /\ journal' \in SUBSET Savers
  BY <1>b DEF TypeOK, SinkOK, Points
<1>1. CASE CommitAttributes(w)
  <2> DEFINE r == [req[w] EXCEPT !.pc = "stamp"]
  <2>1. r \in Request /\ r.pc = "stamp"
    BY <1>a DEF Request, PCs
  <2>2. req' = [req EXCEPT ![w] = r] /\ w \in Savers
    BY <1>1 DEF CommitAttributes, Goto, Handles, TypeOK
  <2>3. pg' \in [AttrKeys -> Savers \cup {Absent}]
    BY <1>1, <2>2 DEF CommitAttributes, Committed, TypeOK
  <2> HIDE DEF r
  <2> QED BY <1>1, <2>1, <2>2, <2>3, RequestMoves DEF CommitAttributes, TypeOK
<1>2. CASE StampAttributes(w)
  <2> DEFINE r == [req[w] EXCEPT !.pc = "get", !.ts = clock]
  <2>1. r \in Request /\ r.pc = "get" /\ r.ts \in Stamps
    BY <1>a DEF Request, PCs, TypeOK
  <2>2. req' = [req EXCEPT ![w] = r]
    BY <1>2 DEF StampAttributes, TypeOK
  <2> HIDE DEF r
  <2> QED BY <1>2, <2>1, <2>2, RequestMoves DEF StampAttributes, TypeOK
<1>3. CASE PublishSaved(w)
  <2> DEFINE r == [req[w] EXCEPT !.pc = "done"]
  <2>1. r \in Request /\ r.pc = "done"
    BY <1>a DEF Request, PCs
  <2>2. req' = [req EXCEPT ![w] = r] /\ w \in Savers
    BY <1>3 DEF PublishSaved, Goto, Handles, TypeOK
  <2> HIDE DEF r
  <2> QED BY <1>3, <2>1, <2>2, RequestMoves DEF PublishSaved, TypeOK
<1>4. CASE GetDoc(w)
  <2> DEFINE r == [req[w] EXCEPT !.pc = "put", !.base = doc, !.rev = rev]
  <2>1. r \in Request /\ r.pc = "put" /\ r.ts = req[w].ts
    BY <1>a DEF Request, PCs, TypeOK
  <2>2. req' = [req EXCEPT ![w] = r] /\ req[w].ts \in Stamps
    BY <1>4 DEF GetDoc, Handles, TypeOK
  <2> HIDE DEF r
  <2> QED BY <1>4, <2>1, <2>2, RequestMoves DEF GetDoc, TypeOK
<1>5. CASE PutDoc(w)
  BY <1>5, WriteType, MergeReturnsType DEF PutDoc, TypeOK
<1>6. CASE PutConflicts(w)
  BY <1>6, LostAttemptType DEF PutConflicts, TypeOK
<1>7. CASE AbortAttributes(w)
  <2> DEFINE r == [req[w] EXCEPT !.pc = "rejected"]
  <2>1. r \in Request /\ r.pc = "rejected"
    BY <1>a DEF Request, PCs
  <2>2. req' = [req EXCEPT ![w] = r]
    BY <1>7 DEF AbortAttributes, Goto, TypeOK
  <2> HIDE DEF r
  <2> QED BY <1>7, <2>1, <2>2, RequestMoves DEF AbortAttributes, TypeOK
<1>8. CASE GetFails(w)
  BY <1>8, MergeReturnsType DEF GetFails, TypeOK
<1>9. CASE PutLost(w)
  BY <1>9, LostAttemptType DEF PutLost, TypeOK
<1>10. CASE PutUnacked(w)
  BY <1>10, WriteType, LostAttemptType DEF PutUnacked, TypeOK
<1>11. CASE CrashRequest(w)
  <2> DEFINE r == [req[w] EXCEPT !.pc = "crashed", !.base = Empty, !.rev = 0]
  <2>1. r \in Request /\ r.pc = "crashed"
    BY <1>a, EmptyType DEF Request, PCs
  <2>2. req' = [req EXCEPT ![w] = r]
    BY <1>11 DEF CrashRequest, TypeOK
  <2> HIDE DEF r
  <2> QED BY <1>11, <2>1, <2>2, RequestMoves DEF CrashRequest, TypeOK
<1> QED BY <1>1, <1>2, <1>3, <1>4, <1>5, <1>6, <1>7, <1>8, <1>9, <1>10, <1>11
        DEF RequestStep, RequestFault

(* A message more leaves the batch under way as it is.                     *)
LEMMA LongerType ==
    ASSUME TypeOK, NEW m \in Message, stream' = Append(stream, m), UNCHANGED <<acked, sink>>
    PROVE  /\ stream' \in Seq(Message) /\ acked' \in 0 .. Len(stream') /\ SinkOK'
           /\ Len(stream) \in Nat /\ Len(stream') = Len(stream) + 1
           /\ \A i \in 1 .. Len(stream) : stream'[i] = stream[i]
           /\ acked < Len(stream) => Points' = Points
<1>1. stream \in Seq(Message) /\ Len(stream) \in Nat /\ acked \in 0 .. Len(stream)
  BY DEF TypeOK
<1>2. /\ stream' \in Seq(Message) /\ Len(stream') = Len(stream) + 1
      /\ \A i \in 1 .. Len(stream) : stream'[i] = stream[i]
  BY <1>1, AppendProperties
<1>3. acked < Len(stream) => Points' = Points
  <2>1. acked < Len(stream) => acked + 1 \in 1 .. Len(stream)
    BY <1>1
  <2> QED BY <2>1, <1>2 DEF Points
<1>4. sink.reads # <<>> => acked' < Len(stream') /\ Len(sink.reads) <= Len(Points')
  BY <1>1, <1>2, <1>3 DEF TypeOK, SinkOK
<1>5. sink.sets > 0 => /\ sink.reads # <<>> /\ Len(sink.reads) = Len(Points')
                       /\ sink.sets <= Len(Points')
  BY <1>3 DEF TypeOK, SinkOK
<1>6. SinkOK'
  BY <1>4, <1>5 DEF TypeOK, SinkOK
<1> QED BY <1>1, <1>2, <1>3, <1>6

LEMMA ArrivalType ==
    ASSUME TypeOK, Handles, Arrival PROVE TypeOK' /\ Handles'
<1>1. ASSUME NEW w \in Savers, NEW K \in NonEmpty(AttrKeys), SaveRequest(w, K)
      PROVE  TypeOK' /\ Handles'
  <2> DEFINE r == [req[w] EXCEPT !.pc = "save", !.keys = K]
  <2>1. w \in Writers /\ req[w] \in Request /\ K \in SUBSET Keys
    BY DEF TypeOK, Writers, NonEmpty, Keys
  <2>2. r \in Request /\ r.pc = "save"
    BY <2>1 DEF Request, PCs
  <2>3. req' = [req EXCEPT ![w] = r]
    BY <1>1 DEF SaveRequest, TypeOK
  <2> HIDE DEF r
  <2> QED BY <1>1, <2>1, <2>2, <2>3, RequestMoves DEF SaveRequest, TypeOK, SinkOK, Points
<1>2. ASSUME NEW w \in Posters, NEW K \in NonEmpty(TelKeys), NEW ts \in Stamps,
             TelemetryRequest(w, K, ts)
      PROVE  TypeOK' /\ Handles'
  <2> DEFINE r == [req[w] EXCEPT !.pc = "get", !.keys = K, !.ts = ts]
  <2>1. w \in Writers /\ req[w] \in Request /\ K \in SUBSET Keys
    BY DEF TypeOK, Writers, NonEmpty, Keys
  <2>2. r \in Request /\ r.pc = "get" /\ r.ts = ts
    BY <2>1 DEF Request, PCs
  <2>3. req' = [req EXCEPT ![w] = r]
    BY <1>2 DEF TelemetryRequest, TypeOK
  <2> HIDE DEF r
  <2> QED BY <1>2, <2>1, <2>2, <2>3, RequestMoves DEF TelemetryRequest, TypeOK, SinkOK, Points
<1>3. ASSUME NEW message \in Message, Ingest(message)
      PROVE  TypeOK' /\ Handles'
  <2>1. stream' = Append(stream, message) /\ UNCHANGED <<acked, sink>>
    BY <1>3 DEF Ingest
  <2>2. stream' \in Seq(Message) /\ acked' \in 0 .. Len(stream') /\ SinkOK'
    BY <2>1, LongerType
  <2> QED BY <1>3, <2>2 DEF Ingest, TypeOK, Handles
<1> QED BY <1>1, <1>2, <1>3 DEF Arrival

SinkRecord == [reads : Seq(Kv!Doc), sets : Nat, failed : {"no", "yes"}]
AllNewest(docs) == \A i \in 1 .. Len(docs) : Kv!IsNewest(docs[i])

(* One more get of the batch.                                              *)
LEMMA ReadEffect ==
    ASSUME TypeOK, Docs, NEW d \in Kv!Doc, Kv!IsNewest(d), NEW failed \in {"no", "yes"},
           ReadNext(d, failed), UNCHANGED <<acked, stream>>
    PROVE  /\ SinkOK' /\ AllNewest(sink'.reads)
           /\ sink'.reads = Append(sink.reads, d) /\ sink'.sets = 0 /\ sink.sets = 0
           /\ sink'.failed = failed
           /\ Len(sink.reads) \in Nat /\ Len(sink'.reads) = Len(sink.reads) + 1
           /\ \A i \in 1 .. Len(sink.reads) : sink'.reads[i] = sink.reads[i]
           /\ sink'.reads[Len(sink.reads) + 1] = d
<1> DEFINE reads == sink.reads
           n == Len(sink.reads)
<1>1. /\ sink \in SinkRecord /\ reads \in Seq(Kv!Doc) /\ n \in Nat
      /\ AllNewest(reads)
  BY DEF TypeOK, SinkOK, SinkRecord, Docs, AllNewest
<1>2. sink' = [sink EXCEPT !.reads = Append(reads, d), !.failed = failed]
  BY DEF ReadNext
<1>3. /\ sink'.reads = Append(reads, d) /\ sink'.sets = sink.sets
      /\ sink'.failed = failed
  BY <1>1, <1>2 DEF SinkRecord
<1>4. /\ Append(reads, d) \in Seq(Kv!Doc) /\ Len(Append(reads, d)) = n + 1
      /\ \A i \in 1 .. n : Append(reads, d)[i] = reads[i]
      /\ Append(reads, d)[n + 1] = d /\ Append(reads, d) # <<>>
  BY <1>1, AppendProperties
<1>5. AllNewest(sink'.reads)
  <2> SUFFICES ASSUME NEW i \in 1 .. n + 1 PROVE Kv!IsNewest(Append(reads, d)[i])
    BY <1>3, <1>4 DEF AllNewest
  <2>1. i \in 1 .. n \/ i = n + 1
    BY <1>1
  <2> QED BY <2>1, <1>1, <1>4 DEF AllNewest
<1>6. /\ acked < Len(stream) /\ Len(reads) < Len(Points) /\ Points' = Points
      /\ Len(Points) \in Nat
  BY BatchType DEF ReadNext, Points
<1>7. sink.sets = 0
  BY <1>1, <1>6 DEF TypeOK, SinkOK, SinkRecord
<1>8. sink' \in SinkRecord
  BY <1>1, <1>2, <1>4 DEF SinkRecord
<1>9. SinkOK'
  BY <1>1, <1>3, <1>4, <1>6, <1>7, <1>8 DEF SinkOK, SinkRecord
<1> QED BY <1>1, <1>3, <1>4, <1>5, <1>7, <1>9

(* One more point of the batch dealt with.                                 *)
LEMMA SetEffect ==
    ASSUME TypeOK, NEW failed \in {"no", "yes"}, SetNext(failed), UNCHANGED <<acked, stream>>
    PROVE  /\ SinkOK' /\ sink'.reads = sink.reads /\ sink'.sets = sink.sets + 1
           /\ sink'.failed = failed
           /\ acked < Len(stream) /\ sink.sets \in Nat
           /\ sink.sets + 1 \in 1 .. Len(sink.reads) /\ Len(sink.reads) = Len(Points)
           /\ sink.reads[sink.sets + 1] \in Kv!Doc /\ Points[sink.sets + 1] \in Point
<1>1. sink \in SinkRecord /\ sink.reads \in Seq(Kv!Doc) /\ Len(sink.reads) \in Nat
  BY DEF TypeOK, SinkOK, SinkRecord
<1>2. /\ acked < Len(stream) /\ Len(sink.reads) = Len(Points) /\ sink.sets < Len(Points)
      /\ sink' = [sink EXCEPT !.sets = sink.sets + 1, !.failed = failed]
  BY DEF SetNext
<1>a. sink.sets \in Nat /\ sink.sets + 1 \in Nat
  BY <1>1 DEF SinkRecord
<1>3. /\ sink' \in SinkRecord /\ sink'.reads = sink.reads /\ sink'.sets = sink.sets + 1
      /\ sink'.failed = failed /\ sink.sets \in Nat
  BY <1>1, <1>2, <1>a DEF SinkRecord
<1>4. Len(Points) \in Nat \ {0} /\ Points' = Points
  BY <1>2, BatchType DEF Points
<1>5. sink.reads # <<>>
  BY <1>1, <1>2, <1>4
<1>6. sink.sets + 1 \in 1 .. Len(sink.reads)
  BY <1>2, <1>3, <1>4
<1>7. SinkOK'
  BY <1>2, <1>3, <1>4, <1>5 DEF SinkOK, SinkRecord
<1>8. sink.reads[sink.sets + 1] \in Kv!Doc
  BY <1>1, <1>6
<1>9. Points[sink.sets + 1] \in Point
  BY <1>2, <1>6, BatchType
<1> QED BY <1>2, <1>3, <1>6, <1>7, <1>8, <1>9

(* The consumer waits for the message or its successor.                    *)
LEMMA WaitEffect ==
    ASSUME TypeOK, ToWait
    PROVE  SinkOK' /\ sink'.reads = <<>> /\ sink'.sets = 0 /\ sink'.failed = sink.failed
<1>1. sink \in SinkRecord
  BY DEF TypeOK, SinkOK, SinkRecord
<1>2. sink'.reads = <<>> /\ sink'.sets = 0 /\ sink'.failed = sink.failed
  BY <1>1 DEF ToWait, SinkRecord
<1>3. <<>> \in Seq(Kv!Doc)
  OBVIOUS
<1>4. sink' \in SinkRecord
  BY <1>1, <1>3 DEF ToWait, SinkRecord
<1> QED BY <1>2, <1>4 DEF SinkOK, SinkRecord

(* What a step of the consumer makes of its own state and of the document. *)
LEMMA SinkEffect ==
    ASSUME TypeOK, Docs, SinkStep \/ SinkFault
    PROVE  /\ SinkOK' /\ AllNewest(sink'.reads)
           /\ doc' \in Kv!Doc /\ Kv!IsNewest(doc')
<1>a. /\ doc \in Kv!Doc /\ Empty \in Kv!Doc /\ Kv!IsNewest(doc) /\ Kv!IsNewest(Empty)
      /\ AllNewest(sink.reads) /\ sink.failed \in {"no", "yes"}
  BY EmptyType DEF TypeOK, SinkOK, Docs, AllNewest
<1>1. CASE SampleGet
  BY <1>1, <1>a, ReadEffect DEF SampleGet
<1>2. CASE SampleGetFails
  BY <1>2, <1>a, ReadEffect DEF SampleGetFails
<1>3. CASE SampleSet
  <2>1. /\ SetNext(sink.failed) /\ UNCHANGED <<acked, stream>>
        /\ doc' = ApplySample(sink.reads[sink.sets + 1], Points[sink.sets + 1])
    BY <1>3 DEF SampleSet, Write
  <2>2. /\ SinkOK' /\ sink'.reads = sink.reads /\ sink.sets + 1 \in 1 .. Len(sink.reads)
        /\ sink.reads[sink.sets + 1] \in Kv!Doc /\ Points[sink.sets + 1] \in Point
    BY <2>1, <1>a, SetEffect
  <2>3. Kv!IsNewest(sink.reads[sink.sets + 1])
    BY <2>2, <1>a DEF AllNewest
  <2> QED BY <2>1, <2>2, <2>3, <1>a, SampleIsApply
<1>4. CASE SampleSetFails
  BY <1>4, <1>a, SetEffect DEF SampleSetFails
<1>5. CASE SampleAck \/ Redelivery
  <2>1. ToWait /\ doc' = doc
    BY <1>5 DEF SampleAck, Redelivery
  <2>2. SinkOK' /\ sink'.reads = <<>>
    BY <2>1, WaitEffect
  <2> QED BY <2>1, <2>2, <1>a DEF AllNewest
<1> QED BY <1>1, <1>2, <1>3, <1>4, <1>5 DEF SinkStep, SinkFault

LEMMA SinkType ==
    ASSUME TypeOK, Handles, Docs, SinkStep \/ SinkFault PROVE TypeOK' /\ Handles'
<1> USE ConstantsAssumption
<1>1. SinkOK' /\ doc' \in Kv!Doc
  BY SinkEffect
<1>2. /\ UNCHANGED <<clock, pg, req, journal, stream>>
      /\ faults' \in 0 .. MaxFaults /\ rev' \in Nat
  BY DEF SinkStep, SinkFault, SampleGet, SampleSet, SampleAck, SampleGetFails,
     SampleSetFails, Redelivery, Fault, Write, TypeOK
<1>3. acked' \in 0 .. Len(stream)
  <2>1. Len(stream) \in Nat /\ acked \in 0 .. Len(stream)
    BY DEF TypeOK
  <2> QED BY <2>1 DEF SinkStep, SinkFault, SampleGet, SampleSet, SampleAck, SampleGetFails,
     SampleSetFails, Redelivery
<1> QED BY <1>1, <1>2, <1>3 DEF TypeOK, Handles

LEMMA TickType ==
    ASSUME TypeOK, Handles, Tick PROVE TypeOK' /\ Handles'
BY ConstantsAssumption DEF Tick, TypeOK, SinkOK, Points, Handles, Stamps

-----------------------------------------------------------------------------
(* What one step does to documents, revisions and attempts.                *)

(* The write of w is applied to the very document w read.                  *)
Merges(w) ==
  /\ req[w].pc = "put" /\ req[w].rev = rev
  /\ rev' = rev + 1
  /\ doc' = Apply(req[w].base, req[w].keys, req[w].ts, w)

(* An attempt of w that another write overtook.                            *)
Overtaken(w) == req[w].pc = "put" /\ req[w].rev # rev

(* A lost attempt starts over, or is the last one.                         *)
LEMMA LostEffect ==
    ASSUME TypeOK, NEW w \in Writers, req[w].pc = "put", LostAttempt(w)
    PROVE  /\ \A x \in Writers \ {w} : req'[x] = req[x]
           /\ req'[w].pc # "put"
           /\ req'[w].base \in {req[w].base, Empty}
           /\ \/ req'[w].attempt = req[w].attempt + 1 /\ req'[w].merged = req[w].merged
              \/ /\ req'[w].attempt = req[w].attempt /\ req'[w].merged = "error"
                 /\ req[w].attempt + 1 >= MaxAttempts
<1>a. /\ req \in [Writers -> Request] /\ req[w] \in Request /\ req[w].attempt \in Nat
      /\ MaxAttempts \in Nat
  BY ConstantsAssumption DEF TypeOK, Request
<1>1. CASE req[w].attempt + 1 < MaxAttempts
  <2> DEFINE r == [req[w] EXCEPT !.pc = "get", !.attempt = req[w].attempt + 1]
  <2>1. req' = [req EXCEPT ![w] = r]
    BY <1>a, <1>1 DEF LostAttempt, AfterLostAttempt
  <2>2. /\ r.pc = "get" /\ r.base = req[w].base /\ r.merged = req[w].merged
        /\ r.attempt = req[w].attempt + 1
    BY <1>a DEF Request
  <2> HIDE DEF r
  <2> QED BY <1>a, <2>1, <2>2
<1>2. CASE ~(req[w].attempt + 1 < MaxAttempts)
  <2> DEFINE r == [req[w] EXCEPT !.pc = AfterMerge(w), !.merged = "error",
                                 !.base = Empty, !.rev = 0]
  <2>1. req' = [req EXCEPT ![w] = r]
    BY <1>a, <1>2 DEF LostAttempt, MergeReturns
  <2>2. /\ r.pc # "put" /\ r.base = Empty /\ r.merged = "error"
        /\ r.attempt = req[w].attempt
    BY <1>a DEF Request, AfterMerge
  <2>3. req[w].attempt + 1 >= MaxAttempts
    BY <1>a, <1>2
  <2> HIDE DEF r
  <2> QED BY <1>a, <2>1, <2>2, <2>3
<1> QED BY <1>1, <1>2

LEMMA RequestEffect ==
    ASSUME TypeOK, NEW w \in Writers, RequestStep(w) \/ RequestFault(w)
    PROVE  /\ \A x \in Writers \ {w} : req'[x] = req[x]
           /\ UNCHANGED <<doc, rev>> \/ Merges(w)
           /\ req'[w].base \in {req[w].base, doc, Empty}
           /\ req'[w].pc = "put" =>
                /\ req'[w].rev = rev /\ req'[w].base = doc
                /\ UNCHANGED <<doc, rev>> /\ req'[w].attempt = req[w].attempt
           /\ \/ faults' > 0
              \/ faults' = faults /\ req'[w].attempt = req[w].attempt
              \/ faults' = faults /\ Overtaken(w) /\ req'[w].attempt = req[w].attempt + 1
           /\ \/ req'[w].merged = req[w].merged
              \/ req'[w].merged = "yes" /\ Merges(w)
              \/ req'[w].merged = "error" /\ faults' > 0
              \/ req'[w].merged = "error" /\ Overtaken(w) /\ req[w].attempt + 1 >= MaxAttempts
<1> USE DEF TypeOK
<1>a. /\ req \in [Writers -> Request] /\ req[w].attempt \in Nat /\ faults \in Nat
      /\ MaxAttempts \in Nat
  BY ConstantsAssumption DEF Request
<1>1. CASE CommitAttributes(w)
  BY <1>a, <1>1 DEF CommitAttributes, Goto
<1>2. CASE StampAttributes(w)
  BY <1>a, <1>2 DEF StampAttributes
<1>3. CASE PublishSaved(w)
  BY <1>a, <1>3 DEF PublishSaved, Goto
<1>4. CASE GetDoc(w)
  BY <1>a, <1>4 DEF GetDoc
<1>5. CASE PutDoc(w)
  <2>1. /\ Merges(w) /\ UNCHANGED faults
        /\ req[w].pc = "put" /\ MergeReturns(w, "yes")
    BY <1>5 DEF PutDoc, RevisionHolds, Write, Merges
  <2>2. /\ req'[w].pc # "put" /\ req'[w].base = Empty /\ req'[w].merged = "yes"
        /\ req'[w].attempt = req[w].attempt
        /\ \A x \in Writers \ {w} : req'[x] = req[x]
    BY <1>a, <2>1 DEF MergeReturns, AfterMerge, Request
  <2> QED BY <2>1, <2>2
<1>6. CASE PutConflicts(w)
  <2>1. Overtaken(w) /\ req[w].pc = "put" /\ LostAttempt(w) /\ UNCHANGED <<doc, rev, faults>>
    BY <1>6 DEF PutConflicts, RevisionHolds, Overtaken
  <2> QED BY <2>1, LostEffect
<1>7. CASE AbortAttributes(w)
  BY <1>a, <1>7 DEF AbortAttributes, Fault, Goto
<1>8. CASE GetFails(w)
  BY <1>a, <1>8 DEF GetFails, Fault, MergeReturns, AfterMerge
<1>9. CASE PutLost(w)
  <2>1. req[w].pc = "put" /\ LostAttempt(w) /\ UNCHANGED <<doc, rev>> /\ faults' > 0
    BY <1>a, <1>9 DEF PutLost, Fault
  <2> QED BY <2>1, LostEffect
<1>10. CASE PutUnacked(w)
  <2>1. req[w].pc = "put" /\ LostAttempt(w) /\ Merges(w) /\ faults' > 0
    BY <1>a, <1>10 DEF PutUnacked, Fault, RevisionHolds, Write, Merges
  <2> QED BY <2>1, LostEffect
<1>11. CASE CrashRequest(w)
  BY <1>a, <1>11 DEF CrashRequest, Fault
<1> QED BY <1>1, <1>2, <1>3, <1>4, <1>5, <1>6, <1>7, <1>8, <1>9, <1>10, <1>11
        DEF RequestStep, RequestFault

(* Clock, arrivals and the consumer leave what requests hold alone.        *)
LEMMA OtherEffect ==
    ASSUME TypeOK, Tick \/ Arrival \/ SinkStep \/ SinkFault
    PROVE  /\ \A x \in Writers :
                /\ req'[x].base = req[x].base /\ req'[x].attempt = req[x].attempt
                /\ req'[x].merged = req[x].merged
                /\ req'[x].pc = "put" => req'[x] = req[x]
           /\ \/ UNCHANGED <<doc, rev>>
              \/ SampleSet /\ rev' = rev + 1
           /\ faults' = faults \/ faults' > 0
<1> DEFINE Held == /\ \A x \in Writers :
                        /\ req'[x].base = req[x].base /\ req'[x].attempt = req[x].attempt
                        /\ req'[x].merged = req[x].merged
                        /\ req'[x].pc = "put" => req'[x] = req[x]
                   /\ UNCHANGED <<doc, rev, faults>>
<1> USE DEF TypeOK
<1>a. faults \in Nat
  BY ConstantsAssumption
<1>1. CASE Tick
  BY <1>1 DEF Tick
<1>2. CASE Arrival
  <2>1. ASSUME NEW w \in Savers, NEW K, SaveRequest(w, K) PROVE Held
    BY <2>1 DEF SaveRequest, Writers
  <2>2. ASSUME NEW w \in Posters, NEW K, NEW ts, TelemetryRequest(w, K, ts) PROVE Held
    BY <2>2 DEF TelemetryRequest, Writers
  <2>3. ASSUME NEW message, Ingest(message) PROVE Held
    BY <2>3 DEF Ingest
  <2> QED BY <1>2, <2>1, <2>2, <2>3 DEF Arrival
<1>3. CASE SinkStep
  BY <1>3 DEF SinkStep, SampleGet, SampleSet, SampleAck, Write
<1>4. CASE SinkFault
  BY <1>a, <1>4 DEF SinkFault, SampleGetFails, SampleSetFails, Redelivery, Fault
<1> QED BY <1>1, <1>2, <1>3, <1>4

-----------------------------------------------------------------------------
(* The invariant.                                                          *)

LEMMA RequestInv ==
    ASSUME TypeOK, Handles, Reads, Counts, Docs,
           NEW w \in Writers, RequestStep(w) \/ RequestFault(w)
    PROVE  Reads' /\ Counts' /\ Docs'
<1>a. /\ rev \in Nat /\ faults \in Nat /\ rev' \in Nat /\ faults' \in Nat
      /\ \A x \in Writers : req[x].rev \in Nat /\ req[x].attempt \in Nat
  BY RequestType, ConstantsAssumption DEF TypeOK, Request
<1>b. (rev' = rev /\ doc' = doc) \/ (rev' = rev + 1 /\ Merges(w))
  BY RequestEffect DEF Merges
<1>1. Reads'
  <2> SUFFICES ASSUME NEW x \in Writers, req'[x].pc = "put"
               PROVE  /\ req'[x].rev <= rev'
                      /\ req'[x].rev = rev' => req'[x].base = doc'
    BY DEF Reads
  <2>1. CASE x = w
    BY <2>1, <1>a, RequestEffect
  <2>2. CASE x # w
    <3>1. req'[x] = req[x]
      BY <2>2, RequestEffect
    <3>2. req[x].rev <= rev /\ (req[x].rev = rev => req[x].base = doc)
      BY <3>1 DEF Reads
    <3> QED BY <3>1, <3>2, <1>a, <1>b
  <2> QED BY <2>1, <2>2
<1>2. Counts'
  <2> SUFFICES ASSUME NEW x \in Writers, faults' = 0
               PROVE  /\ req'[x].attempt <= rev'
                      /\ req'[x].pc = "put" => req'[x].attempt <= req'[x].rev
    BY DEF Counts
  <2>0. faults = 0
    BY <1>a, RequestEffect
  <2>1. /\ req[x].attempt <= rev
        /\ req[x].pc = "put" => req[x].attempt <= req[x].rev /\ req[x].rev <= rev
    BY <2>0 DEF Counts, Reads
  <2>2. CASE x # w
    <3>1. req'[x] = req[x]
      BY <2>2, RequestEffect
    <3> QED BY <3>1, <2>1, <1>a, <1>b
  <2>3. CASE x = w
    <3>1. CASE req'[w].attempt = req[w].attempt
      BY <2>1, <2>3, <3>1, <1>a, <1>b, RequestEffect
    <3>2. CASE Overtaken(w) /\ req'[w].attempt = req[w].attempt + 1
      <4>1. req'[w].pc # "put"
        BY <3>2, <1>a, RequestEffect
      <4>2. req[w].attempt + 1 <= rev
        BY <2>1, <2>3, <3>2, <1>a DEF Overtaken
      <4> QED BY <2>3, <3>2, <4>1, <4>2, <1>a, <1>b
    <3> QED BY <3>1, <3>2, <1>a, RequestEffect
  <2> QED BY <2>2, <2>3
<1>3. Docs'
  <2>1. Kv!IsNewest(doc')
    <3>1. CASE Merges(w)
      <4>1. /\ req[w].base \in Kv!Doc /\ req[w].keys \in SUBSET Keys
            /\ req[w].ts \in Stamps /\ w \in Vals /\ Kv!IsNewest(req[w].base)
        BY <3>1 DEF Merges, TypeOK, Request, Handles, Vals, Docs
      <4> QED BY <3>1, <4>1, ApplyNewest DEF Merges
    <3> QED BY <3>1, <1>b DEF Docs
  <2>2. \A x \in Writers : Kv!IsNewest(req'[x].base)
    <3>1. req'[w].base \in {req[w].base, doc, Empty}
      BY RequestEffect
    <3>2. \A x \in Writers \ {w} : req'[x] = req[x]
      BY RequestEffect
    <3> QED BY <3>1, <3>2, EmptyType DEF Docs
  <2>3. sink' = sink
    BY DEF RequestStep, RequestFault, CommitAttributes, StampAttributes,
       PublishSaved, GetDoc, PutDoc, PutConflicts, AbortAttributes, GetFails, PutLost,
       PutUnacked, CrashRequest
  <2> QED BY <2>1, <2>2, <2>3 DEF Docs
<1> QED BY <1>1, <1>2, <1>3

LEMMA OtherInv ==
    ASSUME TypeOK, Handles, Reads, Counts, Docs,
           Tick \/ Arrival \/ SinkStep \/ SinkFault
    PROVE  TypeOK' /\ Handles' /\ Reads' /\ Counts' /\ Docs'
<1>1. TypeOK' /\ Handles'
  BY TickType, ArrivalType, SinkType
<1>a. /\ rev \in Nat /\ faults \in Nat /\ rev' \in Nat /\ faults' \in Nat
      /\ \A x \in Writers : req[x].rev \in Nat /\ req[x].attempt \in Nat
  BY <1>1, ConstantsAssumption DEF TypeOK, Request
<1>b. (rev' = rev /\ doc' = doc) \/ rev' = rev + 1
  BY OtherEffect
<1>2. Reads'
  <2> SUFFICES ASSUME NEW x \in Writers, req'[x].pc = "put"
               PROVE  /\ req'[x].rev <= rev'
                      /\ req'[x].rev = rev' => req'[x].base = doc'
    BY DEF Reads
  <2>1. req'[x] = req[x]
    BY OtherEffect
  <2>2. req[x].rev <= rev /\ (req[x].rev = rev => req[x].base = doc)
    BY <2>1 DEF Reads
  <2> QED BY <2>1, <2>2, <1>a, <1>b
<1>3. Counts'
  <2> SUFFICES ASSUME NEW x \in Writers, faults' = 0
               PROVE  /\ req'[x].attempt <= rev'
                      /\ req'[x].pc = "put" => req'[x].attempt <= req'[x].rev
    BY DEF Counts
  <2>1. faults = 0 /\ req'[x].attempt = req[x].attempt
    BY <1>a, OtherEffect
  <2>2. req[x].attempt <= rev /\ (req[x].pc = "put" => req[x].attempt <= req[x].rev)
    BY <2>1 DEF Counts
  <2>3. req'[x].pc = "put" => req'[x] = req[x]
    BY OtherEffect
  <2> QED BY <2>1, <2>2, <2>3, <1>a, <1>b
<1>4. Docs'
  <2>1. \A x \in Writers : req'[x].base = req[x].base
    BY OtherEffect
  <2>2. Kv!IsNewest(doc') /\ AllNewest(sink'.reads)
    <3>1. CASE Tick \/ Arrival
      BY <3>1 DEF Docs, AllNewest, Tick, Arrival, SaveRequest, TelemetryRequest, Ingest
    <3>2. CASE SinkStep \/ SinkFault
      BY <3>2, SinkEffect
    <3> QED BY <3>1, <3>2
  <2> QED BY <2>1, <2>2 DEF Docs, AllNewest
<1> QED BY <1>1, <1>2, <1>3, <1>4

Inv == TypeOK /\ Handles /\ Reads /\ Counts /\ Docs

LEMMA InvInit == Init => Inv
<1> SUFFICES ASSUME Init PROVE Inv
  OBVIOUS
<1>1. TypeOK /\ Handles
  BY InitType
<1>2. \A w \in Writers : req[w] = Idle
  BY DEF Init
<1>3. Reads /\ Counts
  BY <1>2 DEF Reads, Counts, Idle, Init
<1>4. Docs
  BY <1>2, EmptyType DEF Docs, Idle, Waiting, Init
<1> QED BY <1>1, <1>3, <1>4 DEF Inv

LEMMA InvStep == Inv /\ [Next]_vars => Inv'
<1> SUFFICES ASSUME Inv, [Next]_vars PROVE Inv'
  OBVIOUS
<1>1. CASE Tick \/ Arrival \/ SinkStep \/ SinkFault
  BY <1>1, OtherInv DEF Inv
<1>2. ASSUME NEW w \in Writers, RequestStep(w) \/ RequestFault(w) PROVE Inv'
  BY <1>2, RequestType, RequestInv DEF Inv
<1>3. CASE UNCHANGED vars
  BY <1>3 DEF Inv, TypeOK, SinkOK, Points, Handles, Reads, Counts, Docs, vars
<1> QED BY <1>1, <1>2, <1>3 DEF Next

LEMMA Invariance == Spec => []Inv
BY InvInit, InvStep, PTL DEF Spec

(* Every variable keeps its type, and the consumer never acknowledges more *)
(* than the stream holds.                                                  *)
THEOREM TypeCorrect == Spec => []TypeOK
<1>1. Inv => TypeOK
  BY DEF Inv
<1> QED BY <1>1, Invariance, PTL

(* updatedTs is the newest timestamp of the document, whoever wrote it and *)
(* whatever failed: flow-core's "if ts > next.UpdatedTS" and the           *)
(* consumer's upd agree about it.                                          *)
THEOREM NewestCorrect == Spec => []UpdatedTsIsNewest
<1>1. Inv => UpdatedTsIsNewest
  BY DEF Inv, Docs, UpdatedTsIsNewest
<1> QED BY <1>1, Invariance, PTL

(* Without faults, a merge reports a conflict only when MaxAttempts other  *)
(* writes were applied: fewer writers than attempts never fail (the loop   *)
(* of NATSStore.merge).                                                    *)
THEOREM ConflictCorrect == Spec => []ConflictNeedsOtherWrites
<1>1. Init => ConflictNeedsOtherWrites
  BY DEF Init, Idle, ConflictNeedsOtherWrites
<1>2. Inv /\ [Next]_vars /\ ConflictNeedsOtherWrites => ConflictNeedsOtherWrites'
  <2> SUFFICES ASSUME Inv, [Next]_vars, ConflictNeedsOtherWrites, NEW x \in Writers,
                      faults' = 0, req'[x].merged = "error"
               PROVE  rev' >= MaxAttempts
    BY DEF ConflictNeedsOtherWrites
  <2>a. /\ rev \in Nat /\ faults \in Nat /\ rev' \in Nat /\ MaxAttempts \in Nat
        /\ req[x].attempt \in Nat /\ req[x].rev \in Nat
    <3>1. TypeOK /\ TypeOK'
      BY InvStep DEF Inv
    <3> QED BY <3>1, ConstantsAssumption DEF TypeOK, Request
  <2>b. faults = 0 /\ req[x].merged = "error" => rev >= MaxAttempts
    BY DEF ConflictNeedsOtherWrites
  <2>1. CASE Tick \/ Arrival \/ SinkStep \/ SinkFault
    <3>1. /\ req'[x].merged = req[x].merged /\ rev' >= rev
          /\ faults' = faults \/ faults' > 0
      BY <2>1, <2>a, OtherEffect DEF Inv
    <3> QED BY <3>1, <2>a, <2>b
  <2>2. ASSUME NEW w \in Writers, RequestStep(w) \/ RequestFault(w)
        PROVE  rev' >= MaxAttempts
    <3>1. rev' >= rev /\ faults = 0
      BY <2>2, <2>a, RequestEffect DEF Inv, Merges
    <3>2. CASE req'[x].merged = req[x].merged
      BY <3>1, <3>2, <2>a, <2>b
    <3>3. CASE x = w /\ Overtaken(w) /\ req[w].attempt + 1 >= MaxAttempts
      <4>1. req[x].attempt <= req[x].rev /\ req[x].rev <= rev /\ req[x].rev # rev
        BY <3>1, <3>3 DEF Inv, Counts, Reads, Overtaken
      <4> QED BY <3>1, <3>3, <4>1, <2>a
    <3>4. x # w => req'[x].merged = req[x].merged
      BY <2>2, RequestEffect DEF Inv
    <3>5. x = w => \/ req'[x].merged = req[x].merged
                   \/ Overtaken(w) /\ req[w].attempt + 1 >= MaxAttempts
      BY <2>2, RequestEffect DEF Inv
    <3> QED BY <3>2, <3>3, <3>4, <3>5
  <2>3. CASE UNCHANGED vars
    BY <2>3, <2>b DEF vars
  <2> QED BY <2>1, <2>2, <2>3 DEF Next
<1> QED BY <1>1, <1>2, Invariance, PTL DEF Spec

-----------------------------------------------------------------------------
(* The optimistic merge alone: no data-plane consumer.                     *)

LEMMA NoSamples ==
    ASSUME Samples = {}, TypeOK PROVE ~SampleSet
<1>1. Message = {}
  <2> SUFFICES ASSUME NEW m \in Message PROVE FALSE
    OBVIOUS
  <2>1. 1 \in 1 .. Len(m)
    BY MessageType
  <2>2. m[1] \in Point
    BY <2>1, MessageType
  <2> QED BY <2>2 DEF Point
<1>2. ~(acked < Len(stream))
  BY <1>1, BatchType
<1> QED BY <1>2 DEF SampleSet, SetNext

(* Every change of the document is the merge of one request, applied to    *)
(* the document as it is now.                                              *)
LEMMA DocChanges ==
    ASSUME Samples = {}, Inv, [Next]_vars
    PROVE  \/ UNCHANGED <<doc, rev>>
           \/ \E w \in Writers :
                /\ (RequestStep(w) \/ RequestFault(w)) /\ Merges(w)
                /\ doc' = Apply(doc, req[w].keys, req[w].ts, w)
<1>1. CASE Tick \/ Arrival \/ SinkStep \/ SinkFault
  BY <1>1, OtherEffect, NoSamples DEF Inv
<1>2. ASSUME NEW w \in Writers, RequestStep(w) \/ RequestFault(w)
      PROVE  \/ UNCHANGED <<doc, rev>>
             \/ Merges(w) /\ doc' = Apply(doc, req[w].keys, req[w].ts, w)
  BY <1>2, RequestEffect DEF Inv, Merges, Reads
<1>3. CASE UNCHANGED vars
  BY <1>3 DEF vars
<1> QED BY <1>1, <1>2, <1>3 DEF Next

(* flow-core's merges, from any number of replicas and with any fault, are *)
(* atomic per-key last-writer-wins merges: the read-merge-check-write loop *)
(* of NATSStore.merge refines LwwStore.                                    *)
THEOREM MergesAreAtomic == ASSUME Samples = {} PROVE Spec => Kv!Spec /\ ImplementsLww
<1>1. Init => Kv!Init
  BY DEF Init, Kv!Init, Empty
<1>2. Inv /\ Inv' /\ [Next]_vars => [Kv!Next]_doc
  <2> SUFFICES ASSUME Inv, Inv', [Next]_vars, doc' # doc PROVE Kv!Next
    OBVIOUS
  <2>1. PICK w \in Writers :
          Merges(w) /\ doc' = Apply(doc, req[w].keys, req[w].ts, w)
    BY DocChanges
  <2>2. /\ req[w].keys \in SUBSET Keys /\ req[w].ts \in Stamps /\ w \in Vals
        /\ doc \in Kv!Doc
    BY <2>1 DEF Inv, TypeOK, Request, Handles, Merges, Vals
  <2>3. doc' \in Kv!Doc /\ Kv!IsNewest(doc')
    BY DEF Inv, TypeOK, Docs
  <2>4. doc'.values = [k \in Keys |->
          Kv!Register(doc.values[k], k \in req[w].keys, req[w].ts, w)]
    BY <2>1, <2>2, ApplyIsMerge
  <2>5. Kv!MergeOf(req[w].keys, req[w].ts, w)
    BY <2>3, <2>4 DEF Kv!MergeOf
  <2> QED BY <2>2, <2>5 DEF Kv!Next
<1>3. [Kv!Next]_doc => [Kv!Next \/ LaterPoint]_doc
  OBVIOUS
<1> QED BY <1>1, <1>2, <1>3, Invariance, PTL DEF Spec, ImplementsLww, Kv!Spec

(* A request that has not finished its merge has no result of it yet.      *)
Fresh ==
  \A w \in Writers :
    req[w].pc \in {"idle", "save", "stamp", "get", "put"} => req[w].merged = "no"

(* Once a merge reported success its request names the same keys and       *)
(* timestamp for ever.                                                     *)
LEMMA FreshStep ==
    ASSUME Inv, Fresh, [Next]_vars, NEW x \in Writers
    PROVE  /\ req'[x].pc \in {"idle", "save", "stamp", "get", "put"} => req'[x].merged = "no"
           /\ req'[x].merged = "yes" =>
                req'[x].keys = req[x].keys /\ req'[x].ts = req[x].ts
<1> DEFINE Kept == /\ req'[x].pc \in {"idle", "save", "stamp", "get", "put"}
                        => req'[x].merged = "no"
                   /\ req'[x].merged = "yes" =>
                        req'[x].keys = req[x].keys /\ req'[x].ts = req[x].ts
<1> SUFFICES Kept
  OBVIOUS
<1>a. req \in [Writers -> Request] /\ req[x] \in Request
  BY DEF Inv, TypeOK
<1>b. req[x].pc \in {"idle", "save", "stamp", "get", "put"} => req[x].merged = "no"
  BY DEF Fresh
<1>s. req'[x] = req[x] => Kept
  BY <1>b
<1>1. CASE Tick \/ SinkStep \/ SinkFault
  BY <1>1, <1>s DEF Tick, SinkStep, SinkFault, SampleGet, SampleSet, SampleAck,
     SampleGetFails, SampleSetFails, Redelivery
<1>2. CASE Arrival
  <2>1. ASSUME NEW w \in Savers, NEW K, SaveRequest(w, K) PROVE Kept
    BY <2>1, <1>a, <1>b DEF SaveRequest, Request
  <2>2. ASSUME NEW w \in Posters, NEW K, NEW ts, TelemetryRequest(w, K, ts) PROVE Kept
    BY <2>2, <1>a, <1>b DEF TelemetryRequest, Request
  <2>3. ASSUME NEW message, Ingest(message) PROVE Kept
    BY <2>3, <1>s DEF Ingest
  <2> QED BY <1>2, <2>1, <2>2, <2>3 DEF Arrival
<1>3. ASSUME NEW w \in Writers, RequestStep(w) \/ RequestFault(w), x = w PROVE Kept
  <2>1. CASE CommitAttributes(w) \/ StampAttributes(w) \/ GetDoc(w)
    BY <2>1, <1>3, <1>a, <1>b DEF CommitAttributes, StampAttributes, GetDoc, Goto, Request
  <2>2. CASE PublishSaved(w) \/ AbortAttributes(w)
    BY <2>2, <1>3, <1>a, <1>b DEF PublishSaved, AbortAttributes, Goto, Request
  <2>3. CASE CrashRequest(w)
    BY <2>3, <1>3, <1>a, <1>b DEF CrashRequest, Request
  <2>4. ASSUME NEW result, MergeReturns(w, result) PROVE Kept
    BY <2>4, <1>3, <1>a, <1>b DEF MergeReturns, AfterMerge, Request
  <2>5. CASE PutDoc(w) \/ GetFails(w)
    BY <2>5, <2>4 DEF PutDoc, GetFails
  <2>6. CASE PutConflicts(w) \/ PutLost(w) \/ PutUnacked(w)
    <3>1. LostAttempt(w) /\ req[w].pc = "put"
      BY <2>6 DEF PutConflicts, PutLost, PutUnacked
    <3>2. CASE req' = [req EXCEPT ![w].pc = AfterLostAttempt, ![w].attempt = @ + 1]
      <4> DEFINE r == [req[w] EXCEPT !.pc = "get", !.attempt = req[w].attempt + 1]
      <4>1. req' = [req EXCEPT ![w] = r]
        BY <3>2, <1>a DEF AfterLostAttempt
      <4>2. r.pc = "get" /\ r.merged = req[w].merged /\ r.keys = req[w].keys /\ r.ts = req[w].ts
        BY <1>3, <1>a DEF Request
      <4> HIDE DEF r
      <4>3. req'[x] = r
        BY <4>1, <1>3, <1>a
      <4> QED BY <4>2, <4>3, <3>1, <1>3, <1>b
    <3> QED BY <3>1, <3>2, <2>4 DEF LostAttempt
  <2> QED BY <2>1, <2>2, <2>3, <2>5, <2>6, <1>3 DEF RequestStep, RequestFault
<1>4. ASSUME NEW w \in Writers, RequestStep(w) \/ RequestFault(w), x # w PROVE Kept
  BY <1>4, <1>s, RequestEffect DEF Inv
<1>5. CASE UNCHANGED vars
  BY <1>5, <1>s DEF vars
<1> HIDE DEF Kept
<1> QED BY <1>1, <1>2, <1>3, <1>4, <1>5 DEF Next

(* A merge that reported success is never undone: each of its keys holds   *)
(* its value or one at least as new, whoever else writes through the store *)
(* and whatever write was lost or answered late.                           *)
THEOREM MergedCorrect == ASSUME Samples = {} PROVE Spec => []MergedIsKept
<1>1. Init => Fresh /\ MergedIsKept
  BY DEF Init, Idle, Fresh, MergedIsKept
<1>2. Inv /\ Inv' /\ [Next]_vars /\ Fresh /\ MergedIsKept => (Fresh /\ MergedIsKept)'
  <2> SUFFICES ASSUME Inv, Inv', [Next]_vars, Fresh, MergedIsKept
               PROVE  Fresh' /\ MergedIsKept'
    OBVIOUS
  <2>1. Fresh'
    BY FreshStep DEF Fresh
  <2>2. MergedIsKept'
    <3> SUFFICES ASSUME NEW x \in Writers, req'[x].merged = "yes", NEW k \in req'[x].keys
                 PROVE  doc'.values[k].ts >= req'[x].ts
      BY DEF MergedIsKept
    <3>a. /\ k \in Keys /\ doc \in Kv!Doc /\ doc' \in Kv!Doc /\ req'[x].ts \in Nat
          /\ doc.values[k].ts \in Nat /\ doc'.values[k].ts \in Nat
      <4>1. doc \in Kv!Doc /\ doc' \in Kv!Doc /\ req'[x] \in Request
        BY DEF Inv, TypeOK
      <4>2. k \in Keys /\ req'[x].ts \in Stamps \cup {0}
        BY <4>1 DEF Request
      <4> QED BY <4>1, <4>2, DocTimes, StampsAreNat
    <3>b. doc'.values[k].ts >= doc.values[k].ts
      <4>1. ASSUME NEW w \in Writers, Merges(w), doc' = Apply(doc, req[w].keys, req[w].ts, w)
            PROVE  doc'.values[k].ts >= doc.values[k].ts
        BY <4>1, <3>a, ApplyGrows DEF Inv, Handles, Merges, Vals
      <4> QED BY <4>1, <3>a, DocChanges
    <3>c. k \in req[x].keys /\ req'[x].ts = req[x].ts
      BY FreshStep
    <3>1. CASE req[x].merged = "yes"
      <4>1. doc.values[k].ts >= req[x].ts
        BY <3>1, <3>c DEF MergedIsKept
      <4> QED BY <4>1, <3>a, <3>b, <3>c
    <3>2. CASE req[x].merged # "yes"
      <4>1. ~(Tick \/ Arrival \/ SinkStep \/ SinkFault)
        BY <3>2, OtherEffect DEF Inv
      <4>2. PICK w \in Writers : RequestStep(w) \/ RequestFault(w)
        BY <3>2, <4>1 DEF Next, vars
      <4>3. x = w /\ Merges(w)
        BY <3>2, <4>2, RequestEffect DEF Inv
      <4>4. /\ req[w].base = doc /\ req[w].ts \in Stamps /\ w \in Vals
            /\ doc' = Apply(req[w].base, req[w].keys, req[w].ts, w)
        BY <4>3 DEF Inv, Merges, Reads, Handles, Vals
      <4> QED BY <4>3, <4>4, <3>a, <3>c, ApplyGrows
    <3> QED BY <3>1, <3>2
  <2> QED BY <2>1, <2>2
<1> QED BY <1>1, <1>2, Invariance, PTL DEF Spec

-----------------------------------------------------------------------------
(* Postgres and the document, with saves one after the other.              *)

Running(w) == req[w].pc # "idle" /\ ~Ended(w)
Merging(w) == req[w].pc \in {"get", "put"}

(* Where one request goes from where it is.                                *)
LEMMA RequestPath ==
    ASSUME TypeOK, NEW w \in Writers, RequestStep(w) \/ RequestFault(w)
    PROVE  /\ req'[w].keys = req[w].keys /\ clock' = clock
           /\ Running(w) /\ req'[w].pc \notin {"idle", "save"}
           /\ \/ /\ req[w].pc = "save" /\ req'[w].pc = "stamp" /\ pg' = Committed(w)
                 /\ UNCHANGED <<doc, rev>> /\ req'[w].merged = req[w].merged
              \/ /\ req[w].pc = "stamp" /\ req'[w].pc = "get" /\ req'[w].ts = clock
                 /\ UNCHANGED <<pg, doc, rev>> /\ req'[w].merged = req[w].merged
              \/ /\ pg' = pg /\ req'[w].ts = req[w].ts /\ req'[w].pc # "stamp"
                 /\ Merging(w)' => Merging(w)
<1> DEFINE Path == /\ req'[w].keys = req[w].keys /\ clock' = clock
                   /\ Running(w) /\ req'[w].pc \notin {"idle", "save"}
                   /\ \/ /\ req[w].pc = "save" /\ req'[w].pc = "stamp" /\ pg' = Committed(w)
                         /\ UNCHANGED <<doc, rev>> /\ req'[w].merged = req[w].merged
                      \/ /\ req[w].pc = "stamp" /\ req'[w].pc = "get" /\ req'[w].ts = clock
                         /\ UNCHANGED <<pg, doc, rev>> /\ req'[w].merged = req[w].merged
                      \/ /\ pg' = pg /\ req'[w].ts = req[w].ts /\ req'[w].pc # "stamp"
                         /\ Merging(w)' => Merging(w)
<1> SUFFICES Path
  OBVIOUS
<1>a. req \in [Writers -> Request] /\ req[w] \in Request
  BY DEF TypeOK
<1>1. CASE CommitAttributes(w)
  BY <1>a, <1>1 DEF CommitAttributes, Goto, Running, Ended, Request
<1>2. CASE StampAttributes(w)
  BY <1>a, <1>2 DEF StampAttributes, Running, Ended, Request
<1>3. CASE PublishSaved(w)
  BY <1>a, <1>3 DEF PublishSaved, Goto, Running, Ended, Merging, Request
<1>4. CASE AbortAttributes(w)
  BY <1>a, <1>4 DEF AbortAttributes, Goto, Running, Ended, Merging, Request
<1>5. CASE CrashRequest(w)
  BY <1>a, <1>5 DEF CrashRequest, Running, Merging, Request
<1>6. CASE GetDoc(w)
  BY <1>a, <1>6 DEF GetDoc, Running, Ended, Merging, Request
<1>7. ASSUME Merging(w), NEW result, MergeReturns(w, result), UNCHANGED <<pg, clock>> PROVE Path
  BY <1>7, <1>a DEF MergeReturns, AfterMerge, Running, Ended, Merging, Request
<1>8. CASE PutDoc(w) \/ GetFails(w)
  BY <1>7, <1>8 DEF PutDoc, GetFails, Merging
<1>9. CASE PutConflicts(w) \/ PutLost(w) \/ PutUnacked(w)
  <2>1. LostAttempt(w) /\ Merging(w) /\ UNCHANGED <<pg, clock>>
    BY <1>9 DEF PutConflicts, PutLost, PutUnacked, Merging
  <2>2. CASE req' = [req EXCEPT ![w].pc = AfterLostAttempt, ![w].attempt = @ + 1]
    <3> DEFINE r == [req[w] EXCEPT !.pc = "get", !.attempt = req[w].attempt + 1]
    <3>1. req' = [req EXCEPT ![w] = r]
      BY <2>2, <1>a DEF AfterLostAttempt
    <3>2. r.pc = "get" /\ r.keys = req[w].keys /\ r.ts = req[w].ts
      BY <1>a DEF Request
    <3> HIDE DEF r
    <3>3. req'[w].pc = "get" /\ req'[w].keys = req[w].keys /\ req'[w].ts = req[w].ts
      BY <3>1, <3>2, <1>a
    <3> QED BY <2>1, <3>3 DEF Running, Ended, Merging
  <2> QED BY <1>7, <2>1, <2>2 DEF LostAttempt
<1> HIDE DEF Path
<1> QED BY <1>1, <1>2, <1>3, <1>4, <1>5, <1>6, <1>8, <1>9 DEF RequestStep, RequestFault

(* The new arrivals, the clock and the consumer.                           *)
LEMMA OtherPath ==
    ASSUME TypeOK, Tick \/ Arrival \/ SinkStep \/ SinkFault
    PROVE  /\ pg' = pg /\ clock' \in Nat /\ clock' >= clock
           /\ \/ req' = req
              \/ \E w \in Writers :
                   /\ req[w].pc = "idle" /\ \A x \in Writers \ {w} : req'[x] = req[x]
                   /\ req'[w].merged = req[w].merged
                   /\ \/ /\ w \in Savers /\ req'[w].pc = "save" /\ req'[w].keys \subseteq AttrKeys
                         /\ Overlap \/ Alone(w)
                      \/ w \in Posters /\ req'[w].pc = "get" /\ req'[w].keys \subseteq TelKeys
<1>a. req \in [Writers -> Request] /\ clock \in Nat
  BY StampsAreNat DEF TypeOK
<1>1. CASE Tick
  BY <1>a, <1>1 DEF Tick
<1>2. CASE Arrival
  <2>1. ASSUME NEW w \in Savers, NEW K \in NonEmpty(AttrKeys), SaveRequest(w, K)
        PROVE  /\ UNCHANGED <<pg, clock>>
               /\ w \in Writers /\ req[w].pc = "idle" /\ \A x \in Writers \ {w} : req'[x] = req[x]
               /\ req'[w].merged = req[w].merged
               /\ req'[w].pc = "save" /\ req'[w].keys \subseteq AttrKeys /\ (Overlap \/ Alone(w))
    BY <2>1, <1>a DEF SaveRequest, Request, NonEmpty, Writers
  <2>2. ASSUME NEW w \in Posters, NEW K \in NonEmpty(TelKeys), NEW ts, TelemetryRequest(w, K, ts)
        PROVE  /\ UNCHANGED <<pg, clock>>
               /\ w \in Writers /\ req[w].pc = "idle" /\ \A x \in Writers \ {w} : req'[x] = req[x]
               /\ req'[w].merged = req[w].merged
               /\ req'[w].pc = "get" /\ req'[w].keys \subseteq TelKeys
    BY <2>2, <1>a DEF TelemetryRequest, Request, NonEmpty, Writers
  <2>3. ASSUME NEW message, Ingest(message) PROVE UNCHANGED <<pg, clock, req>>
    BY <2>3 DEF Ingest
  <2> QED BY <1>2, <1>a, <2>1, <2>2, <2>3 DEF Arrival
<1>3. CASE SinkStep
  BY <1>a, <1>3 DEF SinkStep, SampleGet, SampleSet, SampleAck
<1>4. CASE SinkFault
  BY <1>a, <1>4 DEF SinkFault, SampleGetFails, SampleSetFails, Redelivery
<1> QED BY <1>1, <1>2, <1>3, <1>4

(* One save at a time; attributes and telemetry have keys of their own.    *)
Sequential == \A u, v \in Savers : Running(u) /\ Running(v) => u = v

KeysFit ==
  \A w \in Writers : /\ w \in Savers => req[w].keys \subseteq AttrKeys
                     /\ w \in Posters => req[w].keys \subseteq TelKeys

(* Postgres names the last save that committed a key ...                   *)
Owned ==
  \A k \in AttrKeys : pg[k] # Absent =>
    req[pg[k]].pc \notin {"idle", "save"} /\ k \in req[pg[k]].keys

(* ... which is the running one until it has merged.                       *)
Wrote ==
  \A w \in Savers : req[w].pc \in {"stamp", "get", "put"} =>
    \A k \in req[w].keys : pg[k] = w

(* Time has passed since every attribute of the document was stamped, so   *)
(* the save that merges now finds none newer than itself.                  *)
Stamped ==
  \A k \in AttrKeys :
    /\ doc.values[k].ts <= clock
    /\ \A w \in Savers : Merging(w) =>
         req[w].ts <= clock /\ doc.values[k].ts <= req[w].ts

Agreed ==
  \A k \in AttrKeys :
    (pg[k] = Absent \/ req[pg[k]].merged = "yes") => doc.values[k].val = pg[k]

SaveInv == Sequential /\ KeysFit /\ Owned /\ Wrote /\ Stamped /\ Agreed

(* A merge of a save replaces each of its attributes, a merge of telemetry *)
(* none.                                                                   *)
LEMMA AttributesMerge ==
    ASSUME Inv, SaveInv, NEW w \in Writers, Merges(w), NEW k \in AttrKeys
    PROVE  IF w \in Savers /\ k \in req[w].keys
           THEN doc'.values[k].ts = req[w].ts /\ doc'.values[k].val = w
           ELSE doc'.values[k] = doc.values[k]
<1>1. doc' = Apply(doc, req[w].keys, req[w].ts, w) /\ k \in Keys
  BY DEF Inv, Merges, Reads, Keys
<1>2. doc'.values[k] = IF k \in Entering(doc, req[w].keys, req[w].ts)
                       THEN [ts |-> req[w].ts, val |-> w] ELSE doc.values[k]
  BY <1>1 DEF Apply
<1>3. CASE w \in Savers
  <2>1. doc.values[k].ts <= req[w].ts
    BY <1>3 DEF SaveInv, Stamped, Merging, Merges
  <2>2. doc.values[k].ts \in Nat /\ req[w].ts \in Nat
    BY <1>1, StampsAreNat, DocTimes DEF Inv, TypeOK, Handles, Merges
  <2>3. ~Stale(doc.values[k], req[w].ts)
    BY <2>1, <2>2 DEF Stale
  <2> QED BY <1>2, <1>3, <2>3 DEF Entering
<1>4. CASE w \in Posters
  <2>1. k \notin req[w].keys
    BY <1>4, ConstantsAssumption DEF SaveInv, KeysFit
  <2> QED BY <1>2, <1>4, <2>1, ConstantsAssumption DEF Entering
<1> QED BY <1>3, <1>4 DEF Writers

LEMMA SaveInit == Init => SaveInv
<1> SUFFICES ASSUME Init PROVE SaveInv
  OBVIOUS
<1>1. /\ \A w \in Writers : req[w] = Idle
      /\ \A k \in AttrKeys : pg[k] = Absent
      /\ \A k \in AttrKeys : doc.values[k] = [ts |-> 0, val |-> Absent]
      /\ clock = 1
  BY DEF Init, Empty, Kv!Empty, Keys
<1>2. Savers \subseteq Writers
  BY DEF Writers
<1> QED BY <1>1, <1>2 DEF SaveInv, Sequential, KeysFit, Owned, Wrote, Stamped, Agreed,
           Running, Merging, Idle

(* A request's own step.                                                   *)
LEMMA SaveRequestStep ==
    ASSUME Overlap = FALSE, Inv, Inv', Fresh, SaveInv,
           NEW w \in Writers, RequestStep(w) \/ RequestFault(w)
    PROVE  SaveInv'
<1>a. /\ req \in [Writers -> Request] /\ clock' = clock /\ clock \in Nat
      /\ \A x \in Writers \ {w} : req'[x] = req[x]
      /\ req'[w].keys = req[w].keys /\ Running(w) /\ req'[w].pc \notin {"idle", "save"}
      /\ pg \in [AttrKeys -> Savers \cup {Absent}]
      /\ Savers \subseteq Writers
  BY RequestEffect, RequestPath, StampsAreNat DEF Inv, TypeOK, Writers
<1>b. \A x \in Savers \ {w} : w \in Savers => ~Running(x)
  BY <1>a DEF SaveInv, Sequential
<1>1. Sequential'
  <2> SUFFICES ASSUME NEW u \in Savers, NEW v \in Savers, Running(u)', Running(v)'
               PROVE  u = v
    BY DEF Sequential
  <2>1. \A x \in Savers : Running(x)' => Running(x)
    BY <1>a DEF Running, Ended
  <2> QED BY <2>1 DEF SaveInv, Sequential
<1>2. KeysFit'
  BY <1>a DEF SaveInv, KeysFit
<1>d. /\ \A k \in Keys : doc.values[k].ts \in Nat /\ doc'.values[k].ts \in Nat
      /\ \A x \in Writers : req[x].ts \in Nat /\ req'[x].ts \in Nat
  <2>1. doc \in Kv!Doc /\ doc' \in Kv!Doc /\ req' \in [Writers -> Request]
    BY DEF Inv, TypeOK
  <2>2. \A x \in Writers : req[x].ts \in Stamps \cup {0} /\ req'[x].ts \in Stamps \cup {0}
    BY <1>a, <2>1 DEF Request
  <2> QED BY <2>1, <2>2, DocTimes, StampsAreNat
<1>3. CASE /\ req[w].pc = "save" /\ req'[w].pc = "stamp" /\ pg' = Committed(w)
           /\ UNCHANGED <<doc, rev>> /\ req'[w].merged = req[w].merged
  <2>1. w \in Savers /\ req[w].keys \subseteq AttrKeys /\ req'[w].merged = "no"
    BY <1>3, <1>a DEF Inv, Handles, SaveInv, KeysFit, Fresh
  <2>2. \A k \in AttrKeys : pg'[k] = IF k \in req[w].keys THEN w ELSE pg[k]
    BY <1>3 DEF Committed
  <2>3. \A k \in AttrKeys : pg[k] # w
    BY <1>3, <2>1, ConstantsAssumption DEF SaveInv, Owned, Vals, Writers
  <2>4. Owned'
    BY <1>a, <2>1, <2>2, <2>3 DEF SaveInv, Owned
  <2>5. Wrote'
    <3> SUFFICES ASSUME NEW x \in Savers, req'[x].pc \in {"stamp", "get", "put"},
                        NEW k \in req'[x].keys
                 PROVE  pg'[k] = x
      BY DEF Wrote
    <3>1. x = w
      BY <1>a, <1>b, <2>1 DEF Running, Ended
    <3> QED BY <3>1, <1>a, <2>1, <2>2
  <2>6. Stamped'
    BY <1>a, <1>3 DEF SaveInv, Stamped, Merging
  <2>7. Agreed'
    <3> SUFFICES ASSUME NEW k \in AttrKeys, pg'[k] = Absent \/ req'[pg'[k]].merged = "yes"
                 PROVE  doc'.values[k].val = pg'[k]
      BY DEF Agreed
    <3>1. w # Absent
      BY <2>1, ConstantsAssumption DEF Vals, Writers
    <3>2. pg'[k] = pg[k] /\ pg[k] # w
      BY <2>1, <2>2, <2>3, <3>1
    <3>3. pg[k] = Absent \/ req[pg[k]].merged = "yes"
      BY <3>2, <1>a
    <3> QED BY <3>2, <3>3, <1>3 DEF SaveInv, Agreed
  <2> QED BY <1>1, <1>2, <2>4, <2>5, <2>6, <2>7 DEF SaveInv
<1>4. CASE /\ req[w].pc = "stamp" /\ req'[w].pc = "get" /\ req'[w].ts = clock
           /\ UNCHANGED <<pg, doc, rev>> /\ req'[w].merged = req[w].merged
  <2>1. Owned'
    BY <1>a, <1>4 DEF SaveInv, Owned
  <2>2. Wrote'
    BY <1>a, <1>4 DEF SaveInv, Wrote
  <2>3. Stamped'
    BY <1>a, <1>4 DEF SaveInv, Stamped, Merging
  <2>4. Agreed'
    BY <1>a, <1>4 DEF SaveInv, Agreed
  <2> QED BY <1>1, <1>2, <2>1, <2>2, <2>3, <2>4 DEF SaveInv
<1>5. CASE /\ pg' = pg /\ req'[w].ts = req[w].ts /\ req'[w].pc # "stamp"
           /\ Merging(w)' => Merging(w)
  <2>1. Owned'
    BY <1>a, <1>5 DEF SaveInv, Owned
  <2>2. Wrote'
    <3> SUFFICES ASSUME NEW x \in Savers, req'[x].pc \in {"stamp", "get", "put"}
                 PROVE  \A k \in req'[x].keys : pg'[k] = x
      BY DEF Wrote
    <3>1. req[x].pc \in {"stamp", "get", "put"} /\ req'[x].keys = req[x].keys
      BY <1>a, <1>5 DEF Merging
    <3> QED BY <3>1, <1>5 DEF SaveInv, Wrote
  <2>3. UNCHANGED doc \/ Merges(w)
    BY RequestEffect DEF Inv
  <2>4. Stamped'
    <3> SUFFICES ASSUME NEW k \in AttrKeys
                 PROVE  /\ doc'.values[k].ts <= clock'
                        /\ \A x \in Savers : Merging(x)' =>
                             req'[x].ts <= clock' /\ doc'.values[k].ts <= req'[x].ts
      BY DEF Stamped
    <3>1. /\ doc.values[k].ts <= clock
          /\ \A x \in Savers : Merging(x) =>
               req[x].ts <= clock /\ doc.values[k].ts <= req[x].ts
      BY DEF SaveInv, Stamped
    <3>2. \A x \in Savers : /\ Merging(x)' => Merging(x)
                            /\ req'[x].ts = req[x].ts
      BY <1>a, <1>5 DEF Merging
    <3>3. CASE doc'.values[k] = doc.values[k]
      BY <3>1, <3>2, <3>3, <1>a
    <3>4. CASE doc'.values[k] # doc.values[k]
      <4>1. w \in Savers /\ Merging(w) /\ doc'.values[k].ts = req[w].ts
        BY <2>3, <3>4, AttributesMerge DEF Merging, Merges
      <4>2. \A x \in Savers : Merging(x)' => x = w
        BY <3>2, <4>1, <1>b DEF Merging, Running, Ended
      <4>3. req'[w].ts <= clock /\ doc'.values[k].ts <= req'[w].ts
        BY <3>1, <4>1, <1>5, <1>a, <1>d
      <4> QED BY <4>1, <4>2, <4>3, <1>a, <1>5
    <3> QED BY <3>3, <3>4
  <2>5. Agreed'
    <3> SUFFICES ASSUME NEW k \in AttrKeys, pg'[k] = Absent \/ req'[pg'[k]].merged = "yes"
                 PROVE  doc'.values[k].val = pg'[k]
      BY DEF Agreed
    <3>0. pg'[k] = pg[k] /\ pg[k] \in Writers \cup {Absent}
      BY <1>5, <1>a
    <3>1. CASE UNCHANGED doc /\ (pg[k] = w => req'[w].merged = req[w].merged \/ req'[w].merged # "yes")
      <4>1. pg[k] = Absent \/ req[pg[k]].merged = "yes"
        BY <3>0, <3>1, <1>a
      <4> QED BY <3>0, <3>1, <4>1 DEF SaveInv, Agreed
    <3>2. CASE Merges(w)
      <4>1. CASE w \in Savers /\ k \in req[w].keys
        <5>1. doc'.values[k].val = w
          BY <3>2, <4>1, AttributesMerge
        <5>2. pg[k] = w
          BY <3>2, <4>1 DEF Merges, SaveInv, Wrote
        <5> QED BY <3>0, <5>1, <5>2
      <4>2. CASE ~(w \in Savers /\ k \in req[w].keys)
        <5>1. doc'.values[k] = doc.values[k]
          BY <3>2, <4>2, AttributesMerge
        <5>2. pg[k] # w
          <6>1. pg[k] = w => w # Absent /\ w \in Savers
            BY <1>a, ConstantsAssumption DEF Vals
          <6> QED BY <4>2, <6>1 DEF SaveInv, Owned
        <5>3. pg[k] = Absent \/ req[pg[k]].merged = "yes"
          BY <3>0, <5>2, <1>a
        <5> QED BY <3>0, <5>1, <5>3 DEF SaveInv, Agreed
      <4> QED BY <4>1, <4>2
    <3>3. req'[w].merged = req[w].merged \/ req'[w].merged # "yes" \/ Merges(w)
      BY RequestEffect DEF Inv
    <3> QED BY <3>1, <3>2, <3>3, <2>3
  <2> QED BY <1>1, <1>2, <2>1, <2>2, <2>4, <2>5 DEF SaveInv
<1>6. pg' = pg \/ pg' = Committed(w)
  BY RequestPath DEF Inv
<1> QED BY <1>3, <1>4, <1>5, RequestPath DEF Inv

(* The clock and new requests.                                             *)
LEMMA SaveOtherStep ==
    ASSUME Overlap = FALSE, Inv, Fresh, SaveInv, UNCHANGED doc,
           Tick \/ Arrival \/ SinkStep \/ SinkFault
    PROVE  SaveInv'
<1>a. /\ pg' = pg /\ clock' \in Nat /\ clock \in Nat /\ clock' >= clock
      /\ Savers \subseteq Writers /\ Posters \subseteq Writers
      /\ pg \in [AttrKeys -> Savers \cup {Absent}]
  BY OtherPath, StampsAreNat DEF Inv, TypeOK, Writers
<1>b. \A k \in AttrKeys : doc.values[k].ts \in Nat
  BY DocTimes DEF Inv, TypeOK, Keys
<1>c. \A x \in Writers : req[x].ts \in Nat
  <2>1. \A x \in Writers : req[x].ts \in Stamps \cup {0}
    BY DEF Inv, TypeOK, Request
  <2> QED BY <2>1, StampsAreNat
<1>1. CASE req' = req
  <2>1. Stamped'
    <3> SUFFICES ASSUME NEW k \in AttrKeys
                 PROVE  /\ doc'.values[k].ts <= clock'
                        /\ \A x \in Savers : Merging(x)' =>
                             req'[x].ts <= clock' /\ doc'.values[k].ts <= req'[x].ts
      BY DEF Stamped
    <3>1. /\ doc.values[k].ts <= clock
          /\ \A x \in Savers : Merging(x) =>
               req[x].ts <= clock /\ doc.values[k].ts <= req[x].ts
      BY DEF SaveInv, Stamped
    <3> QED BY <3>1, <1>1, <1>a, <1>b, <1>c DEF Merging
  <2> QED BY <2>1, <1>1, <1>a DEF SaveInv, Sequential, KeysFit, Owned, Wrote, Agreed,
             Running, Ended
<1>2. ASSUME NEW w \in Writers, req[w].pc = "idle", \A x \in Writers \ {w} : req'[x] = req[x],
             req'[w].merged = req[w].merged, clock' = clock,
             \/ /\ w \in Savers /\ req'[w].pc = "save" /\ req'[w].keys \subseteq AttrKeys
                /\ Overlap \/ Alone(w)
             \/ w \in Posters /\ req'[w].pc = "get" /\ req'[w].keys \subseteq TelKeys
      PROVE  SaveInv'
  <2>a. Savers \cap Posters = {}
    BY ConstantsAssumption
  <2>b. \A k \in AttrKeys : pg[k] # w
    BY <1>2, <1>a, <2>a, ConstantsAssumption DEF SaveInv, Owned, Vals
  <2>1. Sequential'
    <3> SUFFICES ASSUME NEW u \in Savers, NEW v \in Savers, Running(u)', Running(v)'
                 PROVE  u = v
      BY DEF Sequential
    <3>1. CASE w \in Savers
      <4>1. \A x \in Savers \ {w} : ~Running(x)'
        BY <3>1, <1>2, <1>a, <2>a DEF Alone, Running, Ended
      <4> QED BY <4>1
    <3>2. CASE w \notin Savers
      <4>1. Running(u) /\ Running(v)
        BY <3>2, <1>2, <1>a DEF Running, Ended
      <4> QED BY <4>1 DEF SaveInv, Sequential
    <3> QED BY <3>1, <3>2
  <2>2. KeysFit'
    BY <1>2, <2>a DEF SaveInv, KeysFit
  <2>3. Owned'
    BY <1>2, <1>a, <2>b DEF SaveInv, Owned
  <2>4. Wrote'
    <3> SUFFICES ASSUME NEW x \in Savers, req'[x].pc \in {"stamp", "get", "put"}
                 PROVE  \A k \in req'[x].keys : pg'[k] = x
      BY DEF Wrote
    <3>1. x # w
      BY <1>2, <2>a
    <3> QED BY <3>1, <1>2, <1>a DEF SaveInv, Wrote
  <2>5. Stamped'
    <3> SUFFICES ASSUME NEW k \in AttrKeys
                 PROVE  /\ doc'.values[k].ts <= clock'
                        /\ \A x \in Savers : Merging(x)' =>
                             req'[x].ts <= clock' /\ doc'.values[k].ts <= req'[x].ts
      BY DEF Stamped
    <3>1. /\ doc.values[k].ts <= clock
          /\ \A x \in Savers : Merging(x) =>
               req[x].ts <= clock /\ doc.values[k].ts <= req[x].ts
      BY DEF SaveInv, Stamped
    <3>2. \A x \in Savers : Merging(x)' => Merging(x) /\ req'[x] = req[x]
      BY <1>2, <1>a, <2>a DEF Merging
    <3> QED BY <3>1, <3>2, <1>2
  <2>6. Agreed'
    <3>1. \A k \in AttrKeys : pg[k] # Absent => req'[pg[k]] = req[pg[k]]
      BY <1>2, <1>a, <2>b
    <3> QED BY <3>1, <1>a DEF SaveInv, Agreed
  <2> QED BY <2>1, <2>2, <2>3, <2>4, <2>5, <2>6 DEF SaveInv
<1>3. Arrival => clock' = clock
  BY DEF Arrival, SaveRequest, TelemetryRequest, Ingest
<1>4. CASE Arrival
  BY <1>1, <1>2, <1>3, <1>4, OtherPath DEF Inv
<1>5. CASE Tick \/ SinkStep \/ SinkFault
  BY <1>1, <1>5 DEF Tick, SinkStep, SampleGet, SampleSet, SampleAck,
     SinkFault, SampleGetFails, SampleSetFails, Redelivery
<1> QED BY <1>4, <1>5

(* attribute_kv and the twin document hold the same value of every         *)
(* attribute whose last committed save merged ("so the two stores always   *)
(* agree", tenant/attributes.go), whatever failed before, if saves come    *)
(* one after the other and no data-plane consumer overwrites the document. *)
(* Without the first the run twin_concurrent_saves violates it; without    *)
(* the second a set of the consumer, which checks no revision, can undo a  *)
(* merge.                                                                  *)
THEOREM StoresAgree ==
    ASSUME Samples = {}, Overlap = FALSE PROVE Spec => []StoresAgreeWhenIdle
<1>1. Init => Fresh /\ SaveInv
  BY SaveInit DEF Init, Idle, Fresh
<1>2. Inv /\ Inv' /\ [Next]_vars /\ Fresh /\ SaveInv => (Fresh /\ SaveInv)'
  <2> SUFFICES ASSUME Inv, Inv', [Next]_vars, Fresh, SaveInv PROVE Fresh' /\ SaveInv'
    OBVIOUS
  <2>1. Fresh'
    BY FreshStep DEF Fresh
  <2>2. CASE Tick \/ Arrival \/ SinkStep \/ SinkFault
    <3>1. UNCHANGED doc
      BY <2>2, OtherEffect, NoSamples DEF Inv
    <3> QED BY <2>1, <2>2, <3>1, SaveOtherStep
  <2>3. ASSUME NEW w \in Writers, RequestStep(w) \/ RequestFault(w) PROVE SaveInv'
    BY <2>3, SaveRequestStep
  <2>4. CASE UNCHANGED vars
    BY <2>1, <2>4 DEF vars, SaveInv, Sequential, KeysFit, Owned, Wrote, Stamped, Agreed,
       Running, Merging, Ended
  <2> QED BY <2>1, <2>2, <2>3, <2>4 DEF Next
<1>3. SaveInv => StoresAgreeWhenIdle
  BY DEF SaveInv, Agreed, StoresAgreeWhenIdle
<1> QED BY <1>1, <1>2, <1>3, Invariance, PTL DEF Spec

-----------------------------------------------------------------------------
(* The data-plane consumer, with attribute saves beside it.                *)

\* Winner, of any stream.
Newest(s, i) == s[i][Len(s[i])]

WinnerOf(s, k, i) ==
  /\ k \in Newest(s, i).keys
  /\ \A j \in DOMAIN s : \A x \in DOMAIN s[j] : k \in s[j][x].keys =>
       s[j][x].ts < Newest(s, i).ts \/ (s[j][x].ts = Newest(s, i).ts /\ j <= i)

(* Document d holds what wins among the last points of n messages, ...     *)
Merged(s, d, n) ==
  \A k \in TelKeys, i \in 1 .. n : WinnerOf(s, k, i) =>
    d.values[k] = [ts |-> Newest(s, i).ts, val |-> Newest(s, i).val]

(* ... and the timestamp of a point of the stream under each telemetry key *)
(* it knows.                                                               *)
OfStream(s, d) ==
  \A k \in TelKeys : d.values[k].ts = 0 \/
    \E j \in DOMAIN s : \E x \in DOMAIN s[j] :
      k \in s[j][x].keys /\ d.values[k].ts = s[j][x].ts

(* A point of message n + 1 disturbs no winner of the messages before it,  *)
(* and the last one takes its place if it wins.                            *)
LEMMA ApplyPoint ==
    ASSUME NEW s \in Seq(Message), NEW d \in Kv!Doc, NEW n \in Nat, n < Len(s),
           NEW x \in 1 .. Len(s[n + 1]), Merged(s, d, n), OfStream(s, d)
    PROVE  /\ Merged(s, ApplySample(d, s[n + 1][x]), n)
           /\ OfStream(s, ApplySample(d, s[n + 1][x]))
           /\ x = Len(s[n + 1]) => Merged(s, ApplySample(d, s[n + 1][x]), n + 1)
<1> DEFINE m == s[n + 1][x]
           e == ApplySample(d, m)
<1>1. /\ Len(s) \in Nat /\ DOMAIN s = 1 .. Len(s) /\ n + 1 \in 1 .. Len(s)
      /\ \A i \in 1 .. Len(s) : s[i] \in Message
  OBVIOUS
<1>2. /\ \A i \in 1 .. Len(s) : /\ DOMAIN s[i] = 1 .. Len(s[i]) /\ Len(s[i]) \in DOMAIN s[i]
                                /\ \A j \in DOMAIN s[i] : s[i][j] \in Point
  BY <1>1, MessageType
<1>3. \A i \in DOMAIN s : \A j \in DOMAIN s[i] : s[i][j].ts \in Nat /\ s[i][j].ts # 0
  BY <1>1, <1>2, StampsAreNat DEF Point
<1>4. x \in DOMAIN s[n + 1] /\ n + 1 \in DOMAIN s /\ m.ts \in Nat /\ m.ts # 0
  BY <1>1, <1>2, <1>3
<1>5. \A k \in TelKeys : d.values[k].ts \in Nat
  BY DocTimes DEF Keys
<1>6. ASSUME NEW k \in TelKeys
      PROVE  e.values[k] = IF k \in m.keys /\ ~(d.values[k].ts > m.ts)
                           THEN [ts |-> m.ts, val |-> m.val] ELSE d.values[k]
  BY DEF ApplySample, Apply, Entering, Stale, Keys
<1>m. m = s[n + 1][x]
  OBVIOUS
<1> HIDE DEF m, e
<1>7. Merged(s, e, n)
  <2> SUFFICES ASSUME NEW k \in TelKeys, NEW i \in 1 .. n, WinnerOf(s, k, i)
               PROVE  e.values[k] = [ts |-> Newest(s, i).ts, val |-> Newest(s, i).val]
    BY DEF Merged
  <2>1. d.values[k] = [ts |-> Newest(s, i).ts, val |-> Newest(s, i).val]
    BY DEF Merged
  <2>2. CASE k \in m.keys
    <3>1. m.ts < Newest(s, i).ts \/ (m.ts = Newest(s, i).ts /\ n + 1 <= i)
      BY <2>2, <1>4, <1>m DEF WinnerOf
    <3>2. m.ts < d.values[k].ts
      BY <3>1, <2>1
    <3> QED BY <3>2, <2>1, <1>4, <1>5, <1>6
  <2>3. CASE k \notin m.keys
    BY <2>1, <2>3, <1>6
  <2> QED BY <2>2, <2>3
<1>8. OfStream(s, e)
  <2> SUFFICES ASSUME NEW k \in TelKeys
               PROVE  e.values[k].ts = 0 \/
                        \E j \in DOMAIN s : \E y \in DOMAIN s[j] :
                          k \in s[j][y].keys /\ e.values[k].ts = s[j][y].ts
    BY DEF OfStream
  <2>1. CASE k \in m.keys /\ ~(d.values[k].ts > m.ts)
    <3>1. e.values[k].ts = m.ts
      BY <2>1, <1>6
    <3> QED BY <3>1, <2>1, <1>4, <1>m
  <2>2. CASE ~(k \in m.keys /\ ~(d.values[k].ts > m.ts))
    BY <2>2, <1>6 DEF OfStream
  <2> QED BY <2>1, <2>2
<1>9. ASSUME x = Len(s[n + 1]) PROVE Merged(s, e, n + 1)
  <2> SUFFICES ASSUME NEW k \in TelKeys, NEW i \in 1 .. n + 1, WinnerOf(s, k, i)
               PROVE  e.values[k] = [ts |-> Newest(s, i).ts, val |-> Newest(s, i).val]
    BY DEF Merged
  <2>1. CASE i \in 1 .. n
    BY <2>1, <1>7 DEF Merged
  <2>2. CASE i = n + 1
    <3>1. Newest(s, i) = m /\ k \in m.keys
      BY <2>2, <1>9, <1>m DEF Newest, WinnerOf
    <3>2. ASSUME NEW j \in DOMAIN s, NEW y \in DOMAIN s[j], k \in s[j][y].keys
          PROVE  s[j][y].ts <= m.ts
      BY <3>1, <3>2, <1>3, <1>4 DEF WinnerOf
    <3>3. d.values[k].ts = 0 \/ d.values[k].ts <= m.ts
      BY <3>2 DEF OfStream
    <3>4. ~(d.values[k].ts > m.ts)
      BY <3>3, <1>4, <1>5
    <3> QED BY <3>1, <3>4, <1>6
  <2>3. i \in 1 .. n \/ i = n + 1
    OBVIOUS
  <2> QED BY <2>1, <2>2, <2>3
<1> QED BY <1>7, <1>8, <1>9 DEF m, e

(* A stream grows; telemetry keys of a document decide what it holds.      *)
LEMMA MergedOn ==
    ASSUME NEW s \in Seq(Message), NEW t \in Seq(Message), NEW d, NEW e,
           Len(t) >= Len(s), \A i \in 1 .. Len(s) : t[i] = s[i],
           \A k \in TelKeys : e.values[k] = d.values[k]
    PROVE  /\ \A n \in 0 .. Len(s) : Merged(s, d, n) => Merged(t, e, n)
           /\ OfStream(s, d) => OfStream(t, e)
<1>1. /\ Len(s) \in Nat /\ DOMAIN s = 1 .. Len(s)
      /\ Len(t) \in Nat /\ DOMAIN t = 1 .. Len(t) /\ DOMAIN s \subseteq DOMAIN t
  OBVIOUS
<1>2. \A i \in DOMAIN s : t[i] = s[i] /\ Newest(t, i) = Newest(s, i)
  BY <1>1 DEF Newest
<1>3. ASSUME NEW k, NEW i \in DOMAIN s, WinnerOf(t, k, i) PROVE WinnerOf(s, k, i)
  <2>1. k \in Newest(s, i).keys
    BY <1>2, <1>3 DEF WinnerOf
  <2>2. ASSUME NEW j \in DOMAIN s, NEW x \in DOMAIN s[j], k \in s[j][x].keys
        PROVE  s[j][x].ts < Newest(s, i).ts \/ (s[j][x].ts = Newest(s, i).ts /\ j <= i)
    <3>1. j \in DOMAIN t /\ t[j] = s[j] /\ Newest(t, i) = Newest(s, i)
      BY <1>1, <1>2
    <3> QED BY <3>1, <2>2, <1>3 DEF WinnerOf
  <2> QED BY <2>1, <2>2 DEF WinnerOf
<1>4. ASSUME NEW n \in 0 .. Len(s), Merged(s, d, n) PROVE Merged(t, e, n)
  <2> SUFFICES ASSUME NEW k \in TelKeys, NEW i \in 1 .. n, WinnerOf(t, k, i)
               PROVE  e.values[k] = [ts |-> Newest(t, i).ts, val |-> Newest(t, i).val]
    BY DEF Merged
  <2>1. i \in DOMAIN s
    BY <1>1
  <2>2. d.values[k] = [ts |-> Newest(s, i).ts, val |-> Newest(s, i).val]
    BY <2>1, <1>3, <1>4 DEF Merged
  <2> QED BY <2>1, <2>2, <1>2
<1>5. ASSUME OfStream(s, d) PROVE OfStream(t, e)
  <2> SUFFICES ASSUME NEW k \in TelKeys, d.values[k].ts # 0
               PROVE  \E j \in DOMAIN t : \E x \in DOMAIN t[j] :
                        k \in t[j][x].keys /\ d.values[k].ts = t[j][x].ts
    BY DEF OfStream
  <2>1. PICK j \in DOMAIN s : \E x \in DOMAIN s[j] :
              k \in s[j][x].keys /\ d.values[k].ts = s[j][x].ts
    BY <1>5 DEF OfStream
  <2>2. j \in DOMAIN t /\ t[j] = s[j]
    BY <1>1, <1>2
  <2> QED BY <2>1, <2>2
<1> QED BY <1>4, <1>5

(* What the consumer read and what it wrote keep the winners of the        *)
(* messages acknowledged, and after the last set of a message its own.     *)
UpToDate(d) == Merged(stream, d, acked) /\ OfStream(stream, d)

AllSet == acked < Len(stream) /\ sink.sets = Len(Points)

Drains ==
  sink.failed = "no" =>
    /\ UpToDate(doc)
    /\ \A i \in 1 .. Len(sink.reads) : UpToDate(sink.reads[i])
    /\ AllSet => Merged(stream, doc, acked + 1)

LEMMA KeysFitStep == Inv /\ KeysFit /\ [Next]_vars => KeysFit'
<1> SUFFICES ASSUME Inv, KeysFit, [Next]_vars PROVE KeysFit'
  OBVIOUS
<1> USE ConstantsAssumption DEF KeysFit, Writers
<1>1. CASE Tick \/ Arrival \/ SinkStep \/ SinkFault
  BY <1>1, OtherPath DEF Inv
<1>2. ASSUME NEW w \in Writers, RequestStep(w) \/ RequestFault(w) PROVE KeysFit'
  BY <1>2, RequestPath, RequestEffect DEF Inv
<1>3. CASE UNCHANGED vars
  BY <1>3 DEF vars
<1> QED BY <1>1, <1>2, <1>3 DEF Next

LEMMA DrainInit == Init => KeysFit /\ Drains
<1> SUFFICES ASSUME Init PROVE KeysFit /\ Drains
  OBVIOUS
<1>1. \A w \in Writers : req[w].keys = {}
  BY DEF Init, Idle
<1>2. acked = 0 /\ Len(stream) = 0 /\ Len(sink.reads) = 0 /\ ~(acked < Len(stream))
  BY DEF Init, Waiting
<1>3. \A k \in TelKeys : doc.values[k].ts = 0
  BY DEF Init, Empty, Kv!Empty, Keys
<1>4. UpToDate(doc)
  BY <1>2, <1>3 DEF UpToDate, Merged, OfStream
<1> QED BY <1>1, <1>2, <1>4 DEF KeysFit, Drains, AllSet

(* A longer stream, and a document with the same telemetry, drain as well. *)
LEMMA DrainsOn ==
    ASSUME TypeOK, Drains, UNCHANGED <<sink, acked>>, stream' \in Seq(Message),
           Len(stream') >= Len(stream), \A i \in 1 .. Len(stream) : stream'[i] = stream[i],
           \A k \in TelKeys : doc'.values[k] = doc.values[k]
    PROVE  Drains'
<1>a. /\ stream \in Seq(Message) /\ Len(stream) \in Nat /\ acked \in 0 .. Len(stream)
      /\ Len(stream') \in Nat
  BY DEF TypeOK
<1>1. ASSUME NEW d, NEW e, NEW n \in 0 .. Len(stream),
             \A k \in TelKeys : e.values[k] = d.values[k]
      PROVE  /\ Merged(stream, d, n) => Merged(stream', e, n)
             /\ OfStream(stream, d) => OfStream(stream', e)
  BY <1>1, <1>a, MergedOn
<1>2. ASSUME NEW d, NEW e, \A k \in TelKeys : e.values[k] = d.values[k], UpToDate(d)
      PROVE  Merged(stream', e, acked) /\ OfStream(stream', e)
  BY <1>1, <1>2, <1>a DEF UpToDate
<1> SUFFICES ASSUME sink.failed = "no"
             PROVE  /\ UpToDate(doc)'
                    /\ \A i \in 1 .. Len(sink.reads) : UpToDate(sink.reads[i])'
                    /\ AllSet' => Merged(stream', doc', acked + 1)
  BY DEF Drains
<1>3. UpToDate(doc)'
  BY <1>2 DEF Drains, UpToDate
<1>4. \A i \in 1 .. Len(sink.reads) : UpToDate(sink.reads[i])'
  BY <1>2 DEF Drains, UpToDate
<1>5. ASSUME AllSet' PROVE Merged(stream', doc', acked + 1)
  <2>1. acked < Len(stream') /\ sink.sets = Len(stream'[acked + 1])
    BY <1>5 DEF AllSet, Points
  <2>2. stream'[acked + 1] \in Message /\ sink.sets > 0
    <3>1. stream'[acked + 1] \in Message
      BY <2>1, <1>a
    <3> QED BY <3>1, <2>1, MessageType
  <2>3. acked < Len(stream)
    BY <2>2 DEF TypeOK, SinkOK
  <2>4. acked + 1 \in 1 .. Len(stream)
    BY <2>3, <1>a
  <2>5. AllSet
    BY <2>1, <2>3, <2>4 DEF AllSet, Points
  <2> QED BY <2>4, <2>5, <1>1, <1>a DEF Drains
<1> QED BY <1>3, <1>4, <1>5

(* The consumer: gets, merges and sets of one message, acknowledgement.    *)
LEMMA DrainSink ==
    ASSUME TypeOK, Docs, Drains, SinkStep \/ SinkFault
    PROVE  Drains'
<1>a. /\ stream \in Seq(Message) /\ Len(stream) \in Nat /\ acked \in Nat /\ stream' = stream
      /\ sink.reads \in Seq(Kv!Doc) /\ Len(sink.reads) \in Nat
  BY DEF TypeOK, SinkOK, SinkStep, SinkFault, SampleGet, SampleSet, SampleAck,
     SampleGetFails, SampleSetFails, Redelivery
<1>b. acked < Len(stream) => Len(Points) \in Nat \ {0} /\ acked + 1 \in 1 .. Len(stream)
  BY BatchType
<1>0. doc \in Kv!Doc /\ Kv!IsNewest(doc)
  BY DEF TypeOK, Docs
<1>1. CASE SampleGet
  <2>1. ReadNext(doc, sink.failed) /\ UNCHANGED <<acked, stream, doc>>
    BY <1>1 DEF SampleGet
  <2>2. /\ sink'.sets = 0 /\ sink'.failed = sink.failed
        /\ Len(sink'.reads) = Len(sink.reads) + 1
        /\ \A i \in 1 .. Len(sink.reads) : sink'.reads[i] = sink.reads[i]
        /\ sink'.reads[Len(sink.reads) + 1] = doc
    BY <2>1, <1>0, ReadEffect DEF TypeOK, SinkOK
  <2>3. ASSUME sink.failed = "no", NEW i \in 1 .. Len(sink'.reads) PROVE UpToDate(sink'.reads[i])
    <3>1. i \in 1 .. Len(sink.reads) \/ i = Len(sink.reads) + 1
      BY <2>2, <1>a
    <3> QED BY <3>1, <2>2, <2>3 DEF Drains
  <2>4. ~AllSet'
    BY <2>1, <2>2, <1>b DEF AllSet, Points
  <2> QED BY <2>1, <2>2, <2>3, <2>4 DEF Drains, UpToDate
<1>2. CASE SampleSet
  <2> DEFINE d == sink.reads[sink.sets + 1]
             x == sink.sets + 1
  <2>1. /\ SetNext(sink.failed) /\ UNCHANGED <<acked, stream>>
        /\ doc' = ApplySample(d, stream[acked + 1][x])
    BY <1>2 DEF SampleSet, Write, Points
  <2>2. /\ sink'.reads = sink.reads /\ sink'.sets = x /\ sink'.failed = sink.failed
        /\ acked < Len(stream) /\ x \in 1 .. Len(sink.reads) /\ x \in 1 .. Len(stream[acked + 1])
        /\ d \in Kv!Doc
    BY <2>1, SetEffect DEF TypeOK, SinkOK, Points
  <2> HIDE DEF d, x
  <2>3. ASSUME sink.failed = "no"
        PROVE  /\ Merged(stream, doc', acked) /\ OfStream(stream, doc')
               /\ x = Len(stream[acked + 1]) => Merged(stream, doc', acked + 1)
    <3>1. Merged(stream, d, acked) /\ OfStream(stream, d)
      BY <2>2, <2>3 DEF Drains, UpToDate, d, x
    <3> QED BY <3>1, <2>1, <2>2, <1>a, ApplyPoint
  <2> QED BY <2>1, <2>2, <2>3 DEF Drains, UpToDate, AllSet, Points
<1>3. CASE SampleAck
  <2>1. /\ AllSet /\ acked' = acked + 1 /\ doc' = doc /\ ToWait
    BY <1>3 DEF SampleAck, AllSet
  <2>2. sink'.reads = <<>> /\ sink'.sets = 0 /\ sink'.failed = sink.failed
    BY <2>1, WaitEffect
  <2>3. ~AllSet'
    <3> SUFFICES ASSUME acked + 1 < Len(stream) PROVE Len(stream[acked + 2]) # 0
      BY <2>1, <2>2, <1>a DEF AllSet, Points
    <3>1. stream[acked + 2] \in Message
      BY <1>a
    <3> QED BY <3>1, MessageType
  <2>4. Len(sink'.reads) = 0
    BY <2>2
  <2> QED BY <2>1, <2>2, <2>3, <2>4, <1>a DEF Drains, UpToDate
<1>4. CASE Redelivery
  <2>1. /\ acked' = acked /\ doc' = doc /\ ToWait
    BY <1>4 DEF Redelivery
  <2>2. sink'.reads = <<>> /\ sink'.sets = 0 /\ sink'.failed = sink.failed
    BY <2>1, WaitEffect
  <2>3. ~AllSet'
    BY <2>1, <2>2, <1>a, <1>b DEF AllSet, Points
  <2>4. Len(sink'.reads) = 0
    BY <2>2
  <2> QED BY <2>1, <2>2, <2>3, <2>4, <1>a DEF Drains, UpToDate
<1>5. CASE SampleGetFails \/ SampleSetFails
  <2>1. sink'.failed = "yes"
    BY <1>5, EmptyType, ReadEffect, SetEffect DEF SampleGetFails, SampleSetFails
  <2> QED BY <2>1 DEF Drains
<1> QED BY <1>1, <1>2, <1>3, <1>4, <1>5 DEF SinkStep, SinkFault

(* The drained document is the merge of the stream: for every telemetry    *)
(* key the newest point, the later of two with the same timestamp, if it   *)
(* was the last point of its message, however often messages came again,   *)
(* however many points they carried and whatever attributes were saved     *)
(* meanwhile, unless a get or set of the consumer failed or telemetry came *)
(* over REST as well (bento-nats-latest-kv.yaml "Replay is idempotent").   *)
(* The earlier points of a message are lost with no fault at all: their    *)
(* sets are undone by the sets after them.                                 *)
THEOREM DrainedCorrect == ASSUME Posters = {} PROVE Spec => []DrainedDocIsTheMerge
<1>1. Init => KeysFit /\ Drains
  BY DrainInit
<1>2. Inv /\ [Next]_vars /\ KeysFit /\ Drains => (KeysFit /\ Drains)'
  <2> SUFFICES ASSUME Inv, [Next]_vars, KeysFit, Drains PROVE Drains'
    BY KeysFitStep
  <2>a. Len(stream) \in Nat /\ stream \in Seq(Message) /\ TypeOK /\ Docs
    BY DEF Inv, TypeOK
  <2>1. CASE SinkStep \/ SinkFault
    BY <2>1, <2>a, DrainSink
  <2>2. CASE Tick
    BY <2>2, <2>a, DrainsOn DEF Tick
  <2>3. CASE Arrival
    <3>1. ASSUME NEW w, NEW K, SaveRequest(w, K) PROVE Drains'
      BY <3>1, <2>a, DrainsOn DEF SaveRequest
    <3>2. ASSUME NEW w, NEW K, NEW ts, TelemetryRequest(w, K, ts) PROVE Drains'
      BY <3>2, <2>a, DrainsOn DEF TelemetryRequest
    <3>3. ASSUME NEW message \in Message, Ingest(message) PROVE Drains'
      <4>1. stream' = Append(stream, message) /\ UNCHANGED <<acked, sink, doc>>
        BY <3>3 DEF Ingest
      <4>2. /\ Len(stream') = Len(stream) + 1 /\ stream' \in Seq(Message)
            /\ \A i \in 1 .. Len(stream) : stream'[i] = stream[i]
        BY <4>1, <2>a, LongerType
      <4> QED BY <4>1, <4>2, <2>a, DrainsOn
    <3> QED BY <2>3, <3>1, <3>2, <3>3 DEF Arrival
  <2>4. ASSUME NEW w \in Writers, RequestStep(w) \/ RequestFault(w) PROVE Drains'
    <3>1. UNCHANGED <<sink, stream, acked>>
      BY <2>4 DEF RequestStep, RequestFault, CommitAttributes, StampAttributes,
         PublishSaved, GetDoc, PutDoc, PutConflicts, AbortAttributes, GetFails, PutLost,
         PutUnacked, CrashRequest
    <3>2. \A k \in TelKeys : doc'.values[k] = doc.values[k]
      <4>1. UNCHANGED doc \/ Merges(w)
        BY <2>4, <2>a, RequestEffect
      <4>2. ASSUME Merges(w), NEW k \in TelKeys PROVE doc'.values[k] = doc.values[k]
        <5>1. k \notin req[w].keys /\ k \in Keys
          BY ConstantsAssumption DEF KeysFit, Writers, Keys
        <5>2. doc' = Apply(doc, req[w].keys, req[w].ts, w)
          BY <4>2 DEF Inv, Merges, Reads
        <5> QED BY <5>1, <5>2 DEF Apply, Entering
      <4> QED BY <4>1, <4>2
    <3> QED BY <3>1, <3>2, <2>a, DrainsOn
  <2>5. CASE UNCHANGED vars
    BY <2>5, <2>a, DrainsOn DEF vars
  <2> QED BY <2>1, <2>2, <2>3, <2>4, <2>5 DEF Next
<1>3. Inv /\ Drains => DrainedDocIsTheMerge
  <2> SUFFICES ASSUME Inv, Drains, sink.failed = "no", acked = Len(stream),
                      NEW k \in TelKeys, NEW i \in DOMAIN stream, Winner(k, i)
               PROVE  doc.values[k] = [ts |-> LastPoint(i).ts, val |-> LastPoint(i).val]
    BY DEF DrainedDocIsTheMerge
  <2>1. stream \in Seq(Message) /\ i \in 1 .. acked
    BY DEF Inv, TypeOK
  <2>2. WinnerOf(stream, k, i)
    BY DEF Winner, WinnerOf, LastPoint, Newest
  <2>3. Merged(stream, doc, acked)
    BY DEF Drains, UpToDate
  <2> QED BY <2>1, <2>2, <2>3 DEF Merged, LastPoint, Newest
<1> QED BY <1>1, <1>2, <1>3, Invariance, PTL DEF Spec

-----------------------------------------------------------------------------
(* The consumer alone, with every get that answers.                        *)

\* Until the first set of a message, each of its gets read what still is.
Untouched == sink.sets = 0 => \A i \in 1 .. Len(sink.reads) : sink.reads[i] = doc

LEMMA UntouchedStep ==
    ASSUME Writers = {}, "sampleGetError" \notin FaultKinds, Inv, [Next]_vars, Untouched
    PROVE  Untouched'
<1>a. /\ TypeOK /\ Docs /\ doc \in Kv!Doc /\ Kv!IsNewest(doc) /\ sink.sets \in Nat
      /\ sink.failed \in {"no", "yes"}
  BY DEF Inv, TypeOK, SinkOK, Docs
<1>1. CASE Tick \/ Arrival
  BY <1>1 DEF Untouched, Tick, Arrival, SaveRequest, TelemetryRequest, Ingest
<1>2. CASE SampleGet
  <2>1. /\ sink.sets = 0 /\ Len(sink.reads) \in Nat /\ Len(sink'.reads) = Len(sink.reads) + 1
        /\ \A i \in 1 .. Len(sink.reads) : sink'.reads[i] = sink.reads[i]
        /\ sink'.reads[Len(sink.reads) + 1] = doc /\ doc' = doc
    BY <1>2, <1>a, ReadEffect DEF SampleGet
  <2>2. ASSUME NEW i \in 1 .. Len(sink'.reads) PROVE sink'.reads[i] = doc
    <3>1. i \in 1 .. Len(sink.reads) \/ i = Len(sink.reads) + 1
      BY <2>1
    <3> QED BY <3>1, <2>1 DEF Untouched
  <2> QED BY <2>1, <2>2 DEF Untouched
<1>3. CASE SampleSet \/ SampleSetFails
  <2>1. sink'.sets = sink.sets + 1
    BY <1>3, <1>a, SetEffect DEF SampleSet, SampleSetFails
  <2> QED BY <2>1, <1>a DEF Untouched
<1>4. CASE SampleAck \/ Redelivery
  <2>1. Len(sink'.reads) = 0
    BY <1>4, <1>a, WaitEffect DEF SampleAck, Redelivery
  <2> QED BY <2>1 DEF Untouched
<1>5. ~SampleGetFails
  BY DEF SampleGetFails, Fault
<1>6. CASE UNCHANGED vars
  BY <1>6 DEF vars, Untouched
<1> QED BY <1>1, <1>2, <1>3, <1>4, <1>5, <1>6 DEF Next, SinkStep, SinkFault

\* Every change of the document is a set, and the first one of a message merges
\* its point into the document as it is.
LEMMA SetMerges ==
    ASSUME Writers = {}, Inv, Inv', [Next]_vars, Untouched, doc' # doc
    PROVE  SampleSet /\ (sink.sets = 0 => Kv!Next)
<1>1. SampleSet
  BY OtherEffect DEF Inv, Next, vars
<1>2. ASSUME sink.sets = 0 PROVE Kv!Next
  <2> DEFINE m == Points[1]
  <2>0. sink.sets + 1 = 1
    BY <1>2
  <2>1. /\ SetNext(sink.failed) /\ UNCHANGED <<acked, stream>>
        /\ doc' = ApplySample(sink.reads[1], m)
    BY <1>1, <2>0 DEF SampleSet, Write
  <2>2. 1 \in 1 .. Len(sink.reads) /\ m \in Point
    <3>1. TypeOK /\ sink.failed \in {"no", "yes"}
      BY DEF Inv, TypeOK, SinkOK
    <3> QED BY <3>1, <2>0, <2>1, SetEffect
  <2>3. doc' = ApplySample(doc, m)
    BY <2>1, <2>2, <1>2 DEF Untouched
  <2> HIDE DEF m
  <2>4. m.keys \in SUBSET Keys /\ m.ts \in Stamps /\ m.val \in Vals
    BY <2>2 DEF Point, NonEmpty, Vals, Keys
  <2>5. doc' \in Kv!Doc /\ Kv!IsNewest(doc') /\ doc \in Kv!Doc
    BY DEF Inv, TypeOK, Docs
  <2>6. doc'.values = [k \in Keys |-> Kv!Register(doc.values[k], k \in m.keys, m.ts, m.val)]
    BY <2>3, <2>4, <2>5, ApplyIsMerge DEF ApplySample
  <2> QED BY <2>4, <2>5, <2>6 DEF Kv!Next, Kv!MergeOf
<1> QED BY <1>1, <1>2

LEMMA UntouchedInit == Init => Kv!Init /\ Untouched
BY DEF Init, Kv!Init, Empty, Waiting, Untouched

(* The consumer alone writes what it has read, so the first set of every   *)
(* message is one atomic merge into the document, through crashes between  *)
(* its gets and sets and redeliveries, if no other process writes the      *)
(* document and the mapping's catch never mistakes a failed get for an     *)
(* absent document; only the sets of the message's later points, which     *)
(* merge into what was read before the first, are none.                    *)
THEOREM SinkIsAtomic ==
    ASSUME Writers = {}, "sampleGetError" \notin FaultKinds PROVE Spec => ImplementsLww
<1>1. Inv /\ Inv' /\ [Next]_vars /\ Untouched => [Kv!Next \/ LaterPoint]_doc
  <2> SUFFICES ASSUME Inv, Inv', [Next]_vars, Untouched, doc' # doc PROVE Kv!Next \/ LaterPoint
    OBVIOUS
  <2>1. SampleSet /\ (sink.sets = 0 => Kv!Next)
    BY SetMerges
  <2>2. sink.sets = 0 \/ sink.sets > 0
    BY DEF Inv, TypeOK, SinkOK
  <2> QED BY <2>1, <2>2 DEF LaterPoint
<1>2. Inv /\ [Next]_vars /\ Untouched => Untouched'
  BY UntouchedStep
<1> QED BY <1>1, <1>2, UntouchedInit, Invariance, PTL DEF Spec, ImplementsLww

(* And where a message carries one point, as the HTTP ingest publishes     *)
(* them (bento-http-ingest-nats.yaml), every set is an atomic merge: the   *)
(* consumer implements LwwStore without exception ("the read-modify-write  *)
(* is atomic w.r.t. this consumer").                                       *)
THEOREM PointsAreAtomic ==
    ASSUME Writers = {}, "sampleGetError" \notin FaultKinds, MaxPoints = 1 PROVE Spec => Kv!Spec
<1>1. Inv /\ Inv' /\ [Next]_vars /\ Untouched => [Kv!Next]_doc
  <2> SUFFICES ASSUME Inv, Inv', [Next]_vars, Untouched, doc' # doc PROVE Kv!Next
    OBVIOUS
  <2>1. SampleSet /\ (sink.sets = 0 => Kv!Next)
    BY SetMerges
  <2>2. sink.sets \in Nat /\ sink.sets < Len(Points) /\ acked < Len(stream)
    BY <2>1 DEF SampleSet, SetNext, Inv, TypeOK, SinkOK
  <2>3. Len(Points) = 1
    <3>1. Points \in Message
      BY <2>2, BatchType DEF Inv
    <3>2. PICK n \in 1 .. 1 : Points \in [1 .. n -> Point]
      BY <3>1 DEF Message
    <3>3. n = 1 /\ DOMAIN Points = 1 .. 1
      BY <3>2
    <3> QED BY <3>1, <3>3, MessageType
  <2> QED BY <2>1, <2>2, <2>3
<1>2. Inv /\ [Next]_vars /\ Untouched => Untouched'
  BY UntouchedStep
<1> QED BY <1>1, <1>2, UntouchedInit, Invariance, PTL DEF Spec, Kv!Spec

-----------------------------------------------------------------------------
(* The live view, for any number of requests, samples, keys and faults,    *)
(* and any length of the changes channel.                                  *)
(*                                                                         *)
(* The argument: a request commits once, so a value that is in a document  *)
(* will not be committed again (Sourced), and what the session's initial   *)
(* payload read stays true of it (Old).  Of every value the watch compared *)
(* since the session registered, the session was pushed it or it is old    *)
(* (Shown), and once the channel is empty the watch compared the document  *)
(* as it is (Caught).                                                      *)

\* A saver that will not commit any more, and values of such.
Past(v) == v \in Savers /\ req[v].pc \notin {"idle", "save"}
Saved(values) == \A k \in AttrKeys : values[k].val # Absent => Past(values[k].val)

\* The same after a step, of a value of either state.
PastNext(v) == v \in Savers /\ req'[v].pc \notin {"idle", "save"}
SavedNext(values) == \A k \in AttrKeys : values[k].val # Absent => PastNext(values[k].val)

SourcedStore ==
  /\ Saved(doc.values) /\ \A i \in 1 .. Len(sink.reads) : Saved(sink.reads[i].values)
  /\ \A w \in Writers : Saved(req[w].base.values)

Sourced ==
  /\ Saved(last)
  /\ \A i \in 1 .. Len(changes) : Saved(changes[i].values)

Channel ==
  /\ changes \in Seq(Kv!Doc) /\ seen \in Nat /\ seen <= rev
  /\ seen = rev /\ changes # <<>> => changes[Len(changes)] = doc

\* The initial payload has the value, if it is the one Postgres holds.
Old(k, v) == sub \in {"read", "sent"} /\ pg[k] = v => snapshot[k] = v
ShownOrOld(k, v) == watched[k] = v \/ Old(k, v)
ShownNext(k, v) == watched'[k] = v \/ (sub' \in {"read", "sent"} /\ pg'[k] = v => snapshot'[k] = v)

Shown == Registered => \A k \in AttrKeys : last[k].val # Absent => ShownOrOld(k, last[k].val)

Caught ==
  (Registered /\ changes = <<>> /\ seen = rev) =>
    \A k \in AttrKeys : doc.values[k].val # Absent => ShownOrOld(k, doc.values[k].val)

StoreInv == Inv /\ KeysFit /\ SourcedStore
LiveInv == StoreInv /\ Sourced /\ Channel /\ Shown /\ Caught

------------------------------------------------------------------------------
(* What a step of the store does to attributes.                            *)

StoreStep ==
  /\ \A v : Past(v) => PastNext(v)
  /\ \A k \in AttrKeys : pg'[k] = pg[k] \/ ~Past(pg'[k])
  /\ UNCHANGED <<doc, rev>> \/ rev' = rev + 1

LEMMA EmptySaved == \A k \in AttrKeys : Empty.values[k].val = Absent
BY DEF Empty, Kv!Empty, Keys

(* A request keeps its keys and never commits again.                       *)
LEMMA RequestKeeps ==
  ASSUME TypeOK, NEW w \in Writers, RequestStep(w) \/ RequestFault(w)
  PROVE  /\ req'[w].keys = req[w].keys
         /\ req'[w].pc \notin {"idle", "save"}
         /\ pg' = pg \/ (req[w].pc = "save" /\ pg' = Committed(w))
BY RequestPath

LEMMA RequestStore ==
  ASSUME StoreInv, NEW w \in Writers, RequestStep(w) \/ RequestFault(w)
  PROVE  StoreStep /\ KeysFit' /\ SourcedStore'
<1> USE DEF StoreInv, Inv
<1>1. /\ req'[w].keys = req[w].keys /\ req'[w].pc \notin {"idle", "save"}
      /\ pg' = pg \/ (req[w].pc = "save" /\ pg' = Committed(w))
      /\ \A x \in Writers \ {w} : req'[x] = req[x]
      /\ UNCHANGED <<doc, rev>> \/ Merges(w)
      /\ req'[w].base \in {req[w].base, doc, Empty}
  BY RequestKeeps, RequestEffect
<1>2. \A v : Past(v) => PastNext(v)
  BY <1>1 DEF Past, PastNext, Writers
<1>3. \A k \in AttrKeys : pg'[k] = pg[k] \/ ~Past(pg'[k])
  BY <1>1 DEF Past, Committed
<1>4. UNCHANGED <<doc, rev>> \/ rev' = rev + 1
  BY <1>1 DEF Merges
<1>5. KeysFit'
  BY <1>1 DEF KeysFit
<1>6. UNCHANGED sink
  BY DEF RequestStep, RequestFault, CommitAttributes, StampAttributes, PublishSaved, GetDoc, PutDoc,
     PutConflicts, AbortAttributes, GetFails, PutLost, PutUnacked, CrashRequest
<1>7. SavedNext(doc'.values)
  <2>1. CASE UNCHANGED doc
    BY <1>2, <2>1 DEF SourcedStore, Saved, SavedNext
  <2>2. CASE Merges(w)
    <3> DEFINE new == Apply(req[w].base, req[w].keys, req[w].ts, w).values
    <3>1. ASSUME NEW k \in AttrKeys, new[k].val # Absent
          PROVE  PastNext(new[k].val)
      <4>1. k \in Keys
        BY DEF Keys
      <4>2. CASE new[k] = req[w].base.values[k]
        BY <1>2, <3>1, <4>2 DEF SourcedStore, Saved
      <4>3. CASE k \in req[w].keys /\ new[k].val = w
        <5>1. w \in Savers
          BY <4>3, ConstantsAssumption DEF KeysFit, Writers
        <5> QED BY <1>1, <4>3, <5>1 DEF PastNext
      <4> QED BY <4>1, <4>2, <4>3 DEF Apply, Entering
    <3>2. doc'.values = new
      BY <2>2 DEF Merges
    <3> HIDE DEF new
    <3> QED BY <3>1, <3>2 DEF SavedNext
  <2> QED BY <1>1, <2>1, <2>2
<1>8. \A x \in Writers : SavedNext(req'[x].base.values)
  BY <1>1, <1>2, EmptySaved DEF SourcedStore, Saved, SavedNext
<1>9. \A i \in 1 .. Len(sink'.reads) : SavedNext(sink'.reads[i].values)
  BY <1>2, <1>6 DEF SourcedStore, Saved, SavedNext
<1> QED BY <1>2, <1>3, <1>4, <1>5, <1>7, <1>8, <1>9 DEF StoreStep, SourcedStore, Saved, SavedNext, Past, PastNext

LEMMA ArrivalStore ==
  ASSUME StoreInv, Tick \/ Arrival
  PROVE  StoreStep /\ KeysFit' /\ SourcedStore'
<1> USE DEF StoreInv, Inv
<1>1. UNCHANGED <<pg, doc, rev, sink>>
  BY DEF Tick, Arrival, SaveRequest, TelemetryRequest, Ingest
<1>2. /\ \A x \in Writers : req'[x].base = req[x].base
      /\ KeysFit'
      /\ \A x \in Writers : req[x].pc \notin {"idle", "save"} => req'[x].pc = req[x].pc
  <2>1. CASE UNCHANGED req
    BY <2>1 DEF KeysFit
  <2>2. ASSUME NEW w \in Savers, NEW K \in NonEmpty(AttrKeys), SaveRequest(w, K)
        PROVE  <1>2!:
    <3>1. w \in Writers /\ K \subseteq AttrKeys /\ req \in [Writers -> Request] /\ req[w] \in Request
      BY DEF Writers, NonEmpty, TypeOK
    <3>2. /\ req'[w].keys = K /\ req'[w].base = req[w].base /\ req[w].pc = "idle"
          /\ \A x \in Writers \ {w} : req'[x] = req[x]
      BY <2>2, <3>1 DEF SaveRequest, Request
    <3> QED BY <3>1, <3>2, ConstantsAssumption DEF KeysFit
  <2>3. ASSUME NEW w \in Posters, NEW K \in NonEmpty(TelKeys), NEW ts \in Stamps, TelemetryRequest(w, K, ts)
        PROVE  <1>2!:
    <3>1. /\ w \in Writers /\ K \subseteq TelKeys /\ w \notin Savers
          /\ req \in [Writers -> Request] /\ req[w] \in Request
      BY ConstantsAssumption DEF Writers, NonEmpty, TypeOK
    <3>2. /\ req'[w].keys = K /\ req'[w].base = req[w].base /\ req[w].pc = "idle"
          /\ \A x \in Writers \ {w} : req'[x] = req[x]
      BY <2>3, <3>1 DEF TelemetryRequest, Request
    <3> QED BY <3>1, <3>2 DEF KeysFit
  <2> QED BY <2>1, <2>2, <2>3 DEF Tick, Arrival, Ingest
<1>3. \A v : Past(v) => PastNext(v)
  BY <1>2 DEF Past, PastNext, Writers
<1>4. /\ SavedNext(doc'.values) /\ \A i \in 1 .. Len(sink'.reads) : SavedNext(sink'.reads[i].values)
      /\ \A w \in Writers : SavedNext(req'[w].base.values)
  BY <1>1, <1>2, <1>3 DEF SourcedStore, Saved, SavedNext
<1> QED BY <1>1, <1>2, <1>3, <1>4 DEF StoreStep, SourcedStore, Saved, SavedNext, Past, PastNext

LEMMA SinkStore ==
  ASSUME StoreInv, SinkStep \/ SinkFault
  PROVE  StoreStep /\ KeysFit' /\ SourcedStore'
<1> USE DEF StoreInv, Inv
<1>a. /\ TypeOK /\ Docs /\ doc \in Kv!Doc /\ Kv!IsNewest(doc)
      /\ Empty \in Kv!Doc /\ Kv!IsNewest(Empty) /\ sink.failed \in {"no", "yes"}
  BY EmptyType DEF TypeOK, SinkOK, Docs
<1>1. UNCHANGED <<pg, req>> /\ (UNCHANGED <<doc, rev>> \/ SampleSet)
  BY DEF SinkStep, SinkFault, SampleGet, SampleSet, SampleAck, SampleGetFails, SampleSetFails, Redelivery
<1>2. \A v : Past(v) <=> PastNext(v)
  BY <1>1 DEF Past, PastNext
<1>3. \A i \in 1 .. Len(sink'.reads) : Saved(sink'.reads[i].values)
  <2>1. ASSUME NEW d \in {doc, Empty},
               /\ Len(sink.reads) \in Nat /\ Len(sink'.reads) = Len(sink.reads) + 1
               /\ \A i \in 1 .. Len(sink.reads) : sink'.reads[i] = sink.reads[i]
               /\ sink'.reads[Len(sink.reads) + 1] = d
        PROVE  <1>3
    <3> SUFFICES ASSUME NEW i \in 1 .. Len(sink'.reads) PROVE Saved(sink'.reads[i].values)
      OBVIOUS
    <3>1. i \in 1 .. Len(sink.reads) \/ i = Len(sink.reads) + 1
      BY <2>1
    <3>2. Saved(d.values)
      BY <2>1, EmptySaved DEF SourcedStore, Saved
    <3> QED BY <3>1, <3>2, <2>1 DEF SourcedStore
  <2>2. CASE SampleGet
    BY <2>1, <2>2, <1>a, ReadEffect DEF SampleGet
  <2>3. CASE SampleGetFails
    BY <2>1, <2>3, <1>a, ReadEffect DEF SampleGetFails
  <2>4. CASE SampleSet \/ SampleSetFails
    <3>1. sink'.reads = sink.reads
      BY <2>4, <1>a, SetEffect DEF SampleSet, SampleSetFails
    <3> QED BY <3>1 DEF SourcedStore
  <2>5. CASE SampleAck \/ Redelivery
    <3>1. Len(sink'.reads) = 0
      BY <2>5, <1>a, WaitEffect DEF SampleAck, Redelivery
    <3> QED BY <3>1
  <2> QED BY <2>2, <2>3, <2>4, <2>5 DEF SinkStep, SinkFault
<1>4. CASE UNCHANGED <<doc, rev>>
  BY <1>1, <1>2, <1>3, <1>4 DEF StoreStep, SourcedStore, Saved, KeysFit, Past, PastNext
<1>5. CASE SampleSet
  <2> DEFINE m == Points[sink.sets + 1]
             d == sink.reads[sink.sets + 1]
  <2>1. /\ SetNext(sink.failed) /\ UNCHANGED <<acked, stream>>
        /\ doc' = ApplySample(d, m) /\ rev' = rev + 1
    BY <1>5 DEF SampleSet, Write
  <2>2. sink.sets + 1 \in 1 .. Len(sink.reads) /\ m \in Point
    BY <2>1, <1>a, SetEffect
  <2>3. Saved(d.values)
    BY <2>2 DEF SourcedStore
  <2> HIDE DEF m, d
  <2>4. \A k \in AttrKeys : k \notin m.keys /\ k \in Keys
    BY <2>2, ConstantsAssumption DEF Point, NonEmpty, Keys
  <2>5. \A k \in AttrKeys : doc'.values[k] = d.values[k]
    BY <2>1, <2>4 DEF ApplySample, Apply, Entering
  <2>6. Saved(doc'.values)
    BY <2>3, <2>5 DEF Saved
  <2> QED BY <1>1, <1>2, <1>3, <2>1, <2>6 DEF StoreStep, SourcedStore, Saved, KeysFit, Past, PastNext
<1> QED BY <1>1, <1>4, <1>5

LEMMA NextStore ==
  ASSUME StoreInv, [Next]_vars
  PROVE  StoreStep /\ StoreInv'
<1>1. Inv'
  BY InvStep DEF StoreInv
<1>2. CASE UNCHANGED vars
  BY <1>1, <1>2 DEF vars, StoreInv, StoreStep, KeysFit, SourcedStore, Saved, Past, PastNext
<1>3. CASE Tick \/ Arrival
  BY <1>1, <1>3, ArrivalStore DEF StoreInv
<1>4. CASE SinkStep \/ SinkFault
  BY <1>1, <1>4, SinkStore DEF StoreInv
<1>5. ASSUME NEW w \in Writers, RequestStep(w) \/ RequestFault(w)
      PROVE  StoreStep /\ StoreInv'
  BY <1>1, <1>5, RequestStore DEF StoreInv
<1> QED BY <1>2, <1>3, <1>4, <1>5 DEF Next

------------------------------------------------------------------------------
(* The watch and the session.                                              *)

LEMMA LiveInitInv == LiveInit => LiveInv
<1> SUFFICES ASSUME LiveInit PROVE LiveInv
  OBVIOUS
<1> USE DEF LiveInit
<1>1. Inv
  BY InvInit
<1>2. KeysFit /\ SourcedStore
  BY EmptySaved DEF Init, KeysFit, SourcedStore, Saved, Idle, Waiting
<1>3. Sourced
  BY EmptySaved DEF Sourced, Saved, NoBase
<1>4. Channel
  BY <1>1 DEF Channel, Inv, TypeOK, Init
<1> QED BY <1>1, <1>2, <1>3, <1>4 DEF LiveInv, StoreInv, Shown, Caught, Registered

\* A step of the store: what was old stays old, and the watch is behind.
LEMMA StoreLive ==
  ASSUME LiveInv, [Next]_vars, UNCHANGED watchVars
  PROVE  LiveInv'
<1> USE DEF watchVars
<1>1. StoreStep /\ StoreInv'
  BY NextStore DEF LiveInv
<1>2. Sourced'
  BY <1>1 DEF LiveInv, Sourced, Saved, StoreStep, Past, PastNext
<1>3. rev \in Nat /\ seen \in Nat /\ seen <= rev /\ changes \in Seq(Kv!Doc)
  BY DEF LiveInv, StoreInv, Inv, TypeOK, Channel
<1>4. Channel' /\ (seen' = rev' => UNCHANGED <<doc, rev>>)
  BY <1>1, <1>3 DEF LiveInv, Channel, StoreStep
<1>5. ASSUME NEW k \in AttrKeys, NEW v, Past(v), ShownOrOld(k, v)
      PROVE  ShownNext(k, v)
  BY <1>1, <1>5 DEF StoreStep, ShownOrOld, Old, ShownNext
<1>6. Shown'
  BY <1>5 DEF LiveInv, Sourced, Saved, Shown, Registered, ShownOrOld, Old, ShownNext
<1>7. Caught'
  BY <1>4, <1>5 DEF LiveInv, StoreInv, SourcedStore, Saved, Caught, Registered, ShownOrOld, Old, ShownNext
<1> QED BY <1>1, <1>2, <1>4, <1>6, <1>7 DEF LiveInv

\* A fault of the watch or the journal is counted; the store stays.
LEMMA FaultStore ==
  ASSUME StoreInv, NEW kind, WatchFault(kind)
  PROVE  StoreInv' /\ UNCHANGED <<pg, doc, rev, req, sink>>
<1>1. UNCHANGED <<clock, pg, doc, rev, req, journal, stream, acked, sink>>
  BY DEF WatchFault
<1>2. faults' \in 0 .. MaxFaults /\ faults' > 0
  BY ConstantsAssumption DEF WatchFault, StoreInv, Inv, TypeOK
<1>3. TypeOK' /\ Handles' /\ Reads' /\ Docs'
  BY <1>1, <1>2 DEF StoreInv, Inv, TypeOK, SinkOK, Points, Handles, Reads, Docs
<1>4. Counts'
  BY <1>2 DEF Counts
<1> QED BY <1>1, <1>3, <1>4 DEF StoreInv, Inv, KeysFit, SourcedStore, Saved, Past

LEMMA Unmoved ==
  ASSUME StoreInv, UNCHANGED vars
  PROVE  StoreInv' /\ UNCHANGED <<pg, doc, rev, req, sink>>
BY NextStore DEF vars

LEMMA DeliverLive ==
  ASSUME LiveInv, Deliver
  PROVE  LiveInv'
<1>1. StoreInv' /\ UNCHANGED <<pg, doc, rev, req, last, sub, snapshot, watched>>
  BY Unmoved DEF Deliver, LiveInv
<1>2. doc \in Kv!Doc /\ changes \in Seq(Kv!Doc) /\ rev \in Nat
  BY DEF LiveInv, StoreInv, Inv, TypeOK, Channel
<1>3. changes' = Append(changes, doc) /\ seen' = rev
  BY DEF Deliver
<1>4. /\ changes' \in Seq(Kv!Doc) /\ changes' # <<>> /\ Len(changes') = Len(changes) + 1
      /\ changes'[Len(changes')] = doc
      /\ \A i \in 1 .. Len(changes') : changes'[i] = doc \/ (i \in 1 .. Len(changes) /\ changes'[i] = changes[i])
  BY <1>2, <1>3
<1>5. Channel'
  BY <1>1, <1>2, <1>3, <1>4 DEF Channel
<1>6. Sourced'
  BY <1>1, <1>4 DEF LiveInv, StoreInv, SourcedStore, Sourced, Saved, Past
<1>7. Shown' /\ Caught'
  BY <1>1, <1>4 DEF LiveInv, Shown, Caught, Registered, ShownOrOld, Old
<1> QED BY <1>1, <1>5, <1>6, <1>7 DEF LiveInv

LEMMA ApplyLive ==
  ASSUME LiveInv, ApplyTwinChange
  PROVE  LiveInv'
<1> DEFINE d == changes[1]
<1>1. StoreInv' /\ UNCHANGED <<pg, doc, rev, req, sub, snapshot, seen>>
  BY Unmoved DEF ApplyTwinChange, LiveInv
<1>2. /\ changes \in Seq(Kv!Doc) /\ changes # <<>> /\ changes' = Tail(changes) /\ Head(changes) = d
      /\ seen \in Nat /\ seen <= rev
  BY DEF ApplyTwinChange, LiveInv, Channel
<1>3. /\ changes' \in Seq(Kv!Doc) /\ Len(changes) \in Nat /\ Len(changes) # 0
      /\ Len(changes') = Len(changes) - 1
      /\ \A i \in 1 .. Len(changes') : i + 1 \in 1 .. Len(changes) /\ changes'[i] = changes[i + 1]
  BY <1>2
<1>4. Channel'
  <2>1. seen = rev /\ changes' # <<>> => changes'[Len(changes')] = doc
    BY <1>2, <1>3 DEF LiveInv, Channel
  <2> QED BY <1>1, <1>2, <1>3, <2>1 DEF Channel
<1>5. Saved(d.values)
  BY <1>3 DEF LiveInv, Sourced
<1>6. /\ \A k \in AttrKeys : last'[k] = IF d.values[k].val # Absent THEN d.values[k] ELSE last[k]
      /\ Registered => \A k \in AttrKeys :
           watched'[k] = IF d.values[k].val # Absent /\ last[k] # d.values[k] THEN d.values[k].val ELSE watched[k]
  BY <1>2 DEF ApplyTwinChange, Folded, Changed, Present, Keys
<1>7. Sourced'
  <2>1. Saved(last')
    BY <1>5, <1>6 DEF LiveInv, Sourced, Saved
  <2>2. \A i \in 1 .. Len(changes') : Saved(changes'[i].values)
    BY <1>3 DEF LiveInv, Sourced
  <2> QED BY <1>1, <2>1, <2>2 DEF Sourced, Saved, Past
<1>8. ASSUME Registered, NEW k \in AttrKeys, last'[k].val # Absent
      PROVE  ShownNext(k, last'[k].val)
  <2>1. CASE d.values[k].val # Absent /\ last[k] # d.values[k]
    BY <1>6, <1>8, <2>1 DEF ShownNext
  <2>2. CASE ~(d.values[k].val # Absent /\ last[k] # d.values[k])
    <3>1. last'[k] = last[k] /\ watched'[k] = watched[k]
      BY <1>6, <1>8, <2>2
    <3> QED BY <1>1, <1>8, <3>1 DEF LiveInv, Shown, ShownOrOld, Old, ShownNext
  <2> QED BY <2>1, <2>2
<1>9. Shown'
  BY <1>1, <1>8 DEF Shown, Registered, ShownOrOld, Old, ShownNext
<1>10. Caught'
  <2> SUFFICES ASSUME Registered, changes' = <<>>, seen = rev, NEW k \in AttrKeys, doc.values[k].val # Absent
               PROVE  ShownNext(k, doc.values[k].val)
    BY <1>1 DEF Caught, Registered, ShownOrOld, Old, ShownNext
  <2>1. d = doc
    <3>1. Len(changes') = 0 /\ Len(changes) = 1
      BY <1>3
    <3> QED BY <1>2, <3>1 DEF LiveInv, Channel
  <2>2. last'[k] = doc.values[k]
    BY <1>6, <2>1
  <2> QED BY <1>8, <2>2
<1> QED BY <1>1, <1>4, <1>7, <1>9, <1>10 DEF LiveInv

\* Subscriptions of the watch, and evictions from its map.
LEMMA GapLive ==
  ASSUME LiveInv, WatchCloses \/ Resubscribe \/ Forget
  PROVE  LiveInv'
<1>1. StoreInv' /\ UNCHANGED <<pg, doc, rev, req, sink>>
  BY Unmoved, FaultStore DEF LiveInv, WatchCloses, Resubscribe, Forget
<1>2. UNCHANGED <<changes, sub, snapshot, watched>>
  BY DEF WatchCloses, Resubscribe, Forget
<1>3. rev \in Nat /\ seen \in Nat /\ seen <= rev
  BY DEF LiveInv, StoreInv, Inv, TypeOK, Channel
<1>4. seen' = seen \/ (seen' = 0 /\ changes = <<>>)
  BY DEF WatchCloses, Resubscribe, Forget
<1>5. seen' \in Nat /\ seen' <= rev /\ (seen' = rev => seen' = seen)
  BY <1>3, <1>4
<1>6. last' = last \/ last' = Empty.values
  BY DEF WatchCloses, Resubscribe, Forget, NoBase
<1>7. \A k \in AttrKeys : last'[k].val # Absent => last'[k] = last[k]
  BY <1>6, EmptySaved
<1>8. Sourced'
  BY <1>1, <1>2, <1>7 DEF LiveInv, Sourced, Saved, Past
<1>9. Channel'
  BY <1>1, <1>2, <1>5 DEF LiveInv, Channel
<1>10. Shown'
  BY <1>1, <1>2, <1>7 DEF LiveInv, Shown, Registered, ShownOrOld, Old
<1>11. Caught'
  BY <1>1, <1>2, <1>5 DEF LiveInv, Caught, Registered, ShownOrOld, Old
<1> QED BY <1>1, <1>8, <1>9, <1>10, <1>11 DEF LiveInv

\* What the initial payload read is old from then on.
LEMMA SessionLive ==
  ASSUME LiveInv, Subscribe \/ SnapshotStep \/ ReadAttributesFails
  PROVE  LiveInv'
<1>1. StoreInv' /\ UNCHANGED <<pg, doc, rev, req, sink>>
  BY Unmoved, FaultStore DEF LiveInv, Subscribe, SnapshotStep, ReadAttributes, SendInitialAttributes,
     ReadAttributesFails
<1>2. UNCHANGED <<changes, seen, last, watched>>
  BY DEF Subscribe, SnapshotStep, ReadAttributes, SendInitialAttributes, ReadAttributesFails
<1>3. Sourced' /\ Channel'
  BY <1>1, <1>2 DEF LiveInv, Sourced, Channel, Saved, Past
<1>4. ASSUME Subscribe PROVE Shown' /\ Caught'
  BY <1>4 DEF Subscribe, Shown, Caught, ShownOrOld, Old
<1>5. ASSUME ReadAttributes PROVE Shown' /\ Caught'
  BY <1>1, <1>5 DEF ReadAttributes, Shown, Caught, ShownOrOld, Old
<1>6. ASSUME SendInitialAttributes PROVE Shown' /\ Caught'
  BY <1>1, <1>2, <1>6 DEF SendInitialAttributes, LiveInv, Shown, Caught, Registered, ShownOrOld, Old
<1>7. ASSUME ReadAttributesFails PROVE Shown' /\ Caught'
  BY <1>1, <1>7 DEF ReadAttributesFails, Shown, Caught, ShownOrOld, Old
<1>8. Shown' /\ Caught'
  BY <1>4, <1>5, <1>6, <1>7 DEF SnapshotStep
<1> QED BY <1>1, <1>3, <1>8 DEF LiveInv

\* The journal is the other channel.
LEMMA JournalLive ==
  ASSUME LiveInv, NEW w \in Savers, RouteJournalEvent(w) \/ JournalGap(w)
  PROVE  LiveInv'
<1>1. StoreInv' /\ UNCHANGED <<pg, doc, rev, req, sink>>
  BY Unmoved, FaultStore DEF LiveInv, RouteJournalEvent, JournalGap
<1>2. UNCHANGED <<changes, seen, last, watched, sub, snapshot>>
  BY DEF RouteJournalEvent, JournalGap
<1> QED BY <1>1, <1>2 DEF LiveInv, Sourced, Channel, Saved, Past, Shown, Caught, Registered, ShownOrOld, Old

LEMMA LiveStep == LiveInv /\ [LiveNext]_liveVars => LiveInv'
<1> SUFFICES ASSUME LiveInv, [LiveNext]_liveVars PROVE LiveInv'
  OBVIOUS
<1>1. CASE UNCHANGED liveVars
  BY <1>1, StoreLive DEF liveVars
<1>2. CASE Next /\ UNCHANGED watchVars
  BY <1>2, StoreLive
<1>3. CASE WatchStep \/ WatchCloses \/ Forget
  BY <1>3, DeliverLive, ApplyLive, GapLive DEF WatchStep
<1>4. CASE Subscribe \/ SnapshotStep \/ ReadAttributesFails
  BY <1>4, SessionLive
<1>5. CASE \E w \in Savers : RouteJournalEvent(w) \/ JournalGap(w)
  BY <1>5, JournalLive
<1> QED BY <1>1, <1>2, <1>3, <1>4, <1>5 DEF LiveNext

------------------------------------------------------------------------------
\* sendInitialAttributes reads after the session is registered, and the watch
\* compares every document with the one before: whatever revisions it skips or
\* repeats, once it has caught up the session was sent every attribute value that
\* both stores hold, in the initial payload or as the last push of its key.
THEOREM NothingIsMissed == LiveSpec => []NothingMissed
<1>1. LiveInv => NothingMissed
  <2> SUFFICES ASSUME LiveInv, WatchIdle, sub = "sent", NEW k \in AttrKeys,
                      pg[k] # Absent, doc.values[k].val = pg[k]
               PROVE  pg[k] \in {snapshot[k], watched[k]}
    BY DEF NothingMissed
  <2>1. ShownOrOld(k, pg[k])
    BY DEF LiveInv, Caught, WatchIdle, Registered
  <2> QED BY <2>1 DEF ShownOrOld, Old
<1> QED BY LiveInitInv, LiveStep, <1>1, PTL DEF LiveSpec
=============================================================================
