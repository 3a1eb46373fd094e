----------------------------- MODULE TwinStore -----------------------------
(***************************************************************************)
(* The state of one twin entity and everything that writes it:             *)
(*                                                                         *)
(*  - attribute saves (savers): one transaction on Postgres attribute_kv,  *)
(*    then a merge into the entity's document in the NATS KV bucket, then  *)
(*    the journal event (internal/tenant/attributes.go);                   *)
(*  - REST telemetry (posters): the merge alone (api.go);                  *)
(*  - the latest-kv data-plane consumer: a message of the stream is a      *)
(*    batch of points; one get per point, then per point a local merge     *)
(*    into what its get returned and one unconditional set                 *)
(*    (k8s/helm/thingsflow/files/bento-nats-latest-kv.yaml).               *)
(*                                                                         *)
(* flow-core's merge is optimistic: read the document with its revision,   *)
(* merge locally, write only if the revision is still the same, and start  *)
(* over at most MaxAttempts times (internal/twinstore/nats.go).            *)
(*                                                                         *)
(* Requests run in goroutines of any number of replicas, so their steps    *)
(* interleave freely.  Wall clocks are assumed to agree and to move        *)
(* forward; two requests may read the same millisecond.                    *)
(***************************************************************************)
EXTENDS Naturals, Sequences, FiniteSets

CONSTANTS
  Savers,       \* requests that save attributes
  Posters,      \* requests that write telemetry over REST
  Samples,      \* telemetry points the device sends
  AttrKeys,     \* attribute keys of the entity, all scopes
  TelKeys,      \* telemetry keys of the entity
  Absent,       \* what is stored under a key nobody wrote
  MaxPoints,    \* bound: points of one message (a JSON array of them)
  MaxAttempts,  \* optimistic attempts of one merge (8 in the code)
  MaxClock,     \* bound: the last millisecond of the model
  MaxFaults,    \* bound: faults of one behaviour
  FaultKinds,   \* which faults the environment may inject
  Overlap       \* FALSE: a save starts only when the one before it ended

AllFaults == {"pgAbort", "cancel", "getError", "putLost", "putUnacked",
              "crash", "sampleGetError", "sampleSetError", "redelivery"}

Writers == Savers \cup Posters
Keys    == AttrKeys \cup TelKeys
Vals    == Writers \cup Samples
Stamps  == 1 .. MaxClock

ASSUME ConstantsAssumption ==
  /\ MaxPoints \in Nat \ {0}
  /\ MaxAttempts \in Nat \ {0} /\ MaxClock \in Nat \ {0} /\ MaxFaults \in Nat
  /\ FaultKinds \subseteq AllFaults
  /\ Overlap \in BOOLEAN
  /\ Absent \notin Vals
  /\ Savers \cap Posters = {} /\ AttrKeys \cap TelKeys = {}
  /\ IsFiniteSet(Samples)

VARIABLES
  clock,   \* wall clock, milliseconds
  pg,      \* Postgres attribute_kv: key -> value
  doc,     \* the entity's document in the KV bucket
  rev,     \* its revision, 0 while the key does not exist
  req,     \* per request: where it is and what it holds
  journal, \* savers whose attribute-saved event was published
  stream,  \* messages of the telemetry stream
  acked,   \* how many of them the consumer has acknowledged
  sink,    \* the consumer: the documents its gets of the message returned,
           \* how many of its points it has set, and whether a get or set
           \* ever failed (history: no step reads it)
  faults   \* faults injected so far

vars == <<clock, pg, doc, rev, req, journal, stream, acked, sink, faults>>

(* What the store promises: LwwStore over the same document.               *)
Kv == INSTANCE LwwStore WITH Keys <- Keys, Vals <- Vals, Stamps <- Stamps, Absent <- Absent, doc <- doc

Empty == Kv!Empty

Fault(kind) == /\ kind \in FaultKinds
               /\ faults < MaxFaults
               /\ faults' = faults + 1

------------------------------------------------------------------------------
(* The merge: staleness is judged key by key, a new key always enters      *)
(* (store.go MergeTelemetry and MergeAttributes).                          *)

StaleOrSame(existing, ts) == existing.ts >= ts                    \* mutant
Stale(existing, ts) == existing.ts > ts

EnteringIfDocOlder(d, K, ts) == {k \in K : d.updatedTs <= ts}     \* mutant
Entering(d, K, ts) == {k \in K : ~Stale(d.values[k], ts)}

Latest(a, b) == a                                                 \* mutant
Newer(a, b) == IF a > b THEN a ELSE b

Apply(d, K, ts, val) ==
  LET entering == Entering(d, K, ts)
  IN  [values    |-> [k \in Keys |-> IF k \in entering
                                     THEN [ts |-> ts, val |-> val]
                                     ELSE d.values[k]],
       updatedTs |-> IF entering = {} THEN d.updatedTs
                     ELSE Newer(ts, d.updatedTs)]

(* The consumer's mapping: same rule per key; updatedTs is computed from   *)
(* the point whether or not a key of it entered.                           *)
ApplySample(d, m) ==
  [values    |-> Apply(d, m.keys, m.ts, m.val).values,
   updatedTs |-> Newer(m.ts, d.updatedTs)]

------------------------------------------------------------------------------
Idle == [pc |-> "idle", keys |-> {}, ts |-> 0, attempt |-> 0, rev |-> 0,
         base |-> Empty, merged |-> "no"]

Waiting == [reads |-> <<>>, sets |-> 0, failed |-> "no"]

Init ==
  /\ clock = 1
  /\ pg = [k \in AttrKeys |-> Absent]
  /\ doc = Empty /\ rev = 0
  /\ req = [w \in Writers |-> Idle]
  /\ journal = {}
  /\ stream = <<>> /\ acked = 0 /\ sink = Waiting
  /\ faults = 0

Tick == /\ clock < MaxClock
        /\ clock' = clock + 1
        /\ UNCHANGED <<pg, doc, rev, req, journal, stream, acked, sink, faults>>

Ended(w) == req[w].pc \in {"done", "rejected", "crashed"}

Alone(w) == \A x \in Savers \ {w} : req[x].pc = "idle" \/ Ended(x)

Goto(w, pc) == req' = [req EXCEPT ![w].pc = pc]

------------------------------------------------------------------------------
(* Attribute save: validated, then one transaction upserts every key.      *)
SaveRequest(w, K) ==
  /\ w \in Savers /\ req[w].pc = "idle" /\ (Overlap \/ Alone(w))
  /\ req' = [req EXCEPT ![w].pc = "save", ![w].keys = K]
  /\ UNCHANGED <<clock, pg, doc, rev, journal, stream, acked, sink, faults>>

Committed(w) == [k \in AttrKeys |-> IF k \in req[w].keys THEN w ELSE pg[k]]

CommitAttributes(w) ==
  /\ req[w].pc = "save"
  /\ pg' = Committed(w)
  /\ Goto(w, "stamp")
  /\ UNCHANGED <<clock, doc, rev, journal, stream, acked, sink, faults>>

(* The transaction fails (lost connection, deadlock victim: the keys are   *)
(* upserted in map order): the request answers 500 and writes nothing.     *)
AbortAttributes(w) ==
  /\ req[w].pc = "save"
  /\ Fault("pgAbort")
  /\ Goto(w, "rejected")
  /\ UNCHANGED <<clock, pg, doc, rev, journal, stream, acked, sink>>

(* currentTimeMillis() is an argument of the merge call: it is read after  *)
(* the commit.                                                             *)
StampAttributes(w) ==
  /\ req[w].pc = "stamp"
  /\ req' = [req EXCEPT ![w].pc = "get", ![w].ts = clock]
  /\ UNCHANGED <<clock, pg, doc, rev, journal, stream, acked, sink, faults>>

(* A saver answers 200 and journals whatever became of its merge.          *)
AfterMerge(w) == IF w \in Savers THEN "publish" ELSE "done"

PublishSaved(w) ==
  /\ req[w].pc = "publish"
  /\ journal' = journal \cup {w}
  /\ Goto(w, "done")
  /\ UNCHANGED <<clock, pg, doc, rev, stream, acked, sink, faults>>

(* REST telemetry: the timestamp is the payload's, or now.                 *)
TelemetryRequest(w, K, ts) ==
  /\ w \in Posters /\ req[w].pc = "idle"
  /\ req' = [req EXCEPT ![w].pc = "get", ![w].keys = K, ![w].ts = ts]
  /\ UNCHANGED <<clock, pg, doc, rev, journal, stream, acked, sink, faults>>

------------------------------------------------------------------------------
(* NATSStore.merge.                                                        *)

ReturnEarlyOnError(w, result) ==                                  \* mutant
  req' = [req EXCEPT ![w].pc = IF result = "yes" THEN AfterMerge(w) ELSE "done",
                     ![w].merged = result, ![w].base = Empty, ![w].rev = 0]

MergeReturns(w, result) ==
  req' = [req EXCEPT ![w].pc = AfterMerge(w), ![w].merged = result,
                     ![w].base = Empty, ![w].rev = 0]

GetDoc(w) ==
  /\ req[w].pc = "get"
  /\ req' = [req EXCEPT ![w].pc = "put", ![w].base = doc, ![w].rev = rev]
  /\ UNCHANGED <<clock, pg, doc, rev, journal, stream, acked, sink, faults>>

(* The request's context is done, or the read fails: the merge returns.    *)
GetFails(w) ==
  /\ req[w].pc = "get"
  /\ Fault("cancel") \/ Fault("getError")
  /\ MergeReturns(w, "error")
  /\ UNCHANGED <<clock, pg, doc, rev, journal, stream, acked, sink>>

(* Create when the key was absent, else Update with the revision read.     *)
AnyRevision(w) == TRUE                                            \* mutant
RevisionHolds(w) == req[w].rev = rev

Write(d) == doc' = d /\ rev' = rev + 1

PutDoc(w) ==
  /\ req[w].pc = "put" /\ RevisionHolds(w)
  /\ Write(Apply(req[w].base, req[w].keys, req[w].ts, w))
  /\ MergeReturns(w, "yes")
  /\ UNCHANGED <<clock, pg, journal, stream, acked, sink, faults>>

(* Any error of the write is a lost attempt; the loop reads again.         *)
ReuseRead == "put"                                                \* mutant
AfterLostAttempt == "get"


LostAttempt(w) ==
  IF req[w].attempt + 1 < MaxAttempts
  THEN req' = [req EXCEPT ![w].pc = AfterLostAttempt, ![w].attempt = @ + 1]
  ELSE MergeReturns(w, "error")

PutConflicts(w) ==
  /\ req[w].pc = "put" /\ ~RevisionHolds(w)
  /\ LostAttempt(w)
  /\ UNCHANGED <<clock, pg, doc, rev, journal, stream, acked, sink, faults>>

(* The write times out, before or after the server applied it.             *)
PutLost(w) ==
  /\ req[w].pc = "put"
  /\ Fault("putLost")
  /\ LostAttempt(w)
  /\ UNCHANGED <<clock, pg, doc, rev, journal, stream, acked, sink>>

PutUnacked(w) ==
  /\ req[w].pc = "put" /\ RevisionHolds(w)
  /\ Fault("putUnacked")
  /\ Write(Apply(req[w].base, req[w].keys, req[w].ts, w))
  /\ LostAttempt(w)
  /\ UNCHANGED <<clock, pg, journal, stream, acked, sink>>

(* The replica that serves the request dies.                               *)
CrashRequest(w) ==
  /\ req[w].pc \notin {"idle"} /\ ~Ended(w)
  /\ Fault("crash")
  /\ req' = [req EXCEPT ![w].pc = "crashed", ![w].base = Empty, ![w].rev = 0]
  /\ UNCHANGED <<clock, pg, doc, rev, journal, stream, acked, sink>>

------------------------------------------------------------------------------
(* The data plane.  A message reaches the stream with the timestamps its   *)
(* device gave the points, in any order of timestamps.                     *)
NonEmpty(S) == (SUBSET S) \ {{}}

Point   == [keys : NonEmpty(TelKeys), ts : Stamps, val : Samples]
Message == UNION {[1 .. n -> Point] : n \in 1 .. MaxPoints}

Sent == UNION {{stream[i][j].val : j \in DOMAIN stream[i]} : i \in DOMAIN stream}

Ingest(message) ==
  /\ \A j \in DOMAIN message : message[j].val \notin Sent
  /\ \A i, j \in DOMAIN message : message[i].val = message[j].val => i = j
  /\ stream' = Append(stream, message)
  /\ UNCHANGED <<clock, pg, doc, rev, req, journal, acked, sink, faults>>

(* The batch: every processor of the pipeline runs over all its points     *)
(* before the next one does.  max_ack_pending 1: the next message comes    *)
(* after the ack of this one.                                              *)
Points == stream[acked + 1]

ReadNext(d, failed) ==
  /\ acked < Len(stream) /\ Len(sink.reads) < Len(Points)
  /\ sink' = [sink EXCEPT !.reads = Append(@, d), !.failed = failed]

SetNext(failed) ==
  /\ acked < Len(stream) /\ Len(sink.reads) = Len(Points) /\ sink.sets < Len(Points)
  /\ sink' = [sink EXCEPT !.sets = @ + 1, !.failed = failed]

ToWait == sink' = [sink EXCEPT !.reads = <<>>, !.sets = 0]

SampleGet ==
  /\ ReadNext(doc, sink.failed)
  /\ UNCHANGED <<clock, pg, doc, rev, req, journal, stream, acked, faults>>

(* The catch recovers every error of the get as an empty document.         *)
SampleGetFails ==
  /\ ReadNext(Empty, "yes")
  /\ Fault("sampleGetError")
  /\ UNCHANGED <<clock, pg, doc, rev, req, journal, stream, acked>>

SampleSet ==
  /\ SetNext(sink.failed)
  /\ Write(ApplySample(sink.reads[sink.sets + 1], Points[sink.sets + 1]))
  /\ UNCHANGED <<clock, pg, req, journal, stream, acked, faults>>

(* A failed processor flags the point and passes it on: the points after   *)
(* it are set, and the message reaches the drop output and is acked.       *)
SampleSetFails ==
  /\ SetNext("yes")
  /\ Fault("sampleSetError")
  /\ UNCHANGED <<clock, pg, doc, rev, req, journal, stream, acked>>

SampleAck ==
  /\ acked < Len(stream) /\ sink.sets = Len(Points)
  /\ acked' = acked + 1
  /\ ToWait
  /\ UNCHANGED <<clock, pg, doc, rev, req, journal, stream, faults>>

(* The consumer restarts, or its ack is lost: the message comes again.     *)
Redelivery ==
  /\ sink.reads # <<>>
  /\ Fault("redelivery")
  /\ ToWait
  /\ UNCHANGED <<clock, pg, doc, rev, req, journal, stream, acked>>

------------------------------------------------------------------------------
RequestStep(w) ==
  \/ CommitAttributes(w) \/ StampAttributes(w) \/ PublishSaved(w)
  \/ GetDoc(w) \/ PutDoc(w) \/ PutConflicts(w)

RequestFault(w) ==
  AbortAttributes(w) \/ GetFails(w) \/ PutLost(w) \/ PutUnacked(w) \/ CrashRequest(w)

Arrival ==
  \/ \E w \in Savers, K \in NonEmpty(AttrKeys) : SaveRequest(w, K)
  \/ \E w \in Posters, K \in NonEmpty(TelKeys), ts \in Stamps : TelemetryRequest(w, K, ts)
  \/ \E message \in Message : Ingest(message)

SinkStep == SampleGet \/ SampleSet \/ SampleAck
SinkFault == SampleGetFails \/ SampleSetFails \/ Redelivery

Next == \/ Tick \/ Arrival \/ SinkStep \/ SinkFault
        \/ \E w \in Writers : RequestStep(w) \/ RequestFault(w)

Spec == Init /\ [][Next]_vars

(* A goroutine that can run does, and so does the consumer; clients,       *)
(* devices, the clock and faults owe nothing.                              *)
Fairness == /\ \A w \in Writers : WF_vars(RequestStep(w))
            /\ WF_vars(SinkStep)

FairSpec == Spec /\ Fairness

------------------------------------------------------------------------------
(* Type invariant.                                                         *)
PCs == {"idle", "save", "stamp", "get", "put", "publish",
        "done", "rejected", "crashed"}

Request == [pc : PCs, keys : SUBSET Keys, ts : Stamps \cup {0}, attempt : Nat,
            rev : Nat, base : Kv!Doc, merged : {"no", "yes", "error"}]

\* It gets each point of a message, then sets each.
SinkOK ==
  /\ sink \in [reads : Seq(Kv!Doc), sets : Nat, failed : {"no", "yes"}]
  /\ sink.reads # <<>> => acked < Len(stream) /\ Len(sink.reads) <= Len(Points)
  /\ sink.sets > 0 => sink.reads # <<>> /\ Len(sink.reads) = Len(Points) /\ sink.sets <= Len(Points)

TypeOK ==
  /\ clock \in Stamps
  /\ pg \in [AttrKeys -> Savers \cup {Absent}]
  /\ doc \in Kv!Doc /\ rev \in Nat
  /\ req \in [Writers -> Request]
  /\ journal \in SUBSET Savers
  /\ stream \in Seq(Message)
  /\ acked \in 0 .. Len(stream)
  /\ SinkOK
  /\ faults \in 0 .. MaxFaults

(* The optimistic loop and the consumer's writes implement one atomic      *)
(* per-key merge: no write is torn and none undoes what another wrote      *)
(* since it read the document (nats.go merge; the consumer's "Merge        *)
(* semantics mirror ... merge()").  One kind of step does not: the set of  *)
(* a message's second or later point merges into what its get returned     *)
(* before the first point was set, and drops the keys of the points set    *)
(* since (their gets all precede their sets).                              *)
LaterPoint == SampleSet /\ sink.sets > 0

ImplementsLww == Kv!Init /\ [][Kv!Next \/ LaterPoint]_doc

(* updatedTs is the newest timestamp of the document, after backfills and  *)
(* replays too (store.go "if ts > next.UpdatedTS", the mapping's upd).     *)
UpdatedTsIsNewest == Kv!IsNewest(doc)

(* A merge that reported success stays: until the document is written by   *)
(* somebody who does not check the revision, every key of it holds this    *)
(* value or one at least as new.                                           *)
MergedIsKept ==
  \A w \in Writers : req[w].merged = "yes" =>
    \A k \in req[w].keys : doc.values[k].ts >= req[w].ts

(* "nats kv update conflict" needs real contention: without faults a merge *)
(* gives up only after MaxAttempts other writes were applied, so fewer     *)
(* writers than attempts all succeed.                                      *)
ConflictNeedsOtherWrites ==
  \A w \in Writers : (faults = 0 /\ req[w].merged = "error") => rev >= MaxAttempts

(* attribute_kv and the twin document show the same value of an attribute  *)
(* whose last committed save also merged, when no save is running ("so the *)
(* two stores always agree").                                              *)
StoresAgreeWhenIdle ==
  (\A w \in Savers : req[w].pc = "idle" \/ Ended(w)) =>
    \A k \in AttrKeys :
      (pg[k] = Absent \/ req[pg[k]].merged = "yes") => doc.values[k].val = pg[k]

(* Once the stream is drained the document holds for every key the newest  *)
(* point, the later one of two with equal timestamps, however often        *)
(* messages were delivered ("Replay is idempotent"), if no get or set      *)
(* failed and the point was the last of its message: an earlier one is     *)
(* undone by the sets after it.                                            *)
LastPoint(i) == stream[i][Len(stream[i])]

Winner(k, i) ==
  /\ k \in LastPoint(i).keys
  /\ \A j \in DOMAIN stream : \A x \in DOMAIN stream[j] : k \in stream[j][x].keys =>
       stream[j][x].ts < LastPoint(i).ts \/ (stream[j][x].ts = LastPoint(i).ts /\ j <= i)

DrainedDocIsTheMerge ==
  (sink.failed = "no" /\ acked = Len(stream)) => \A k \in TelKeys, i \in DOMAIN stream :
    Winner(k, i) => doc.values[k] = [ts |-> LastPoint(i).ts, val |-> LastPoint(i).val]

(* Every request ends, whatever its merge meets, and every message of the  *)
(* stream is acknowledged in the end: neither the retries of a merge nor   *)
(* the redeliveries of a sample go on for ever.                            *)
WorkEnds ==
  /\ \A w \in Writers : req[w].pc # "idle" ~> Ended(w)
  /\ \A n \in 1 .. Cardinality(Samples) : Len(stream) >= n ~> acked >= n
=============================================================================
