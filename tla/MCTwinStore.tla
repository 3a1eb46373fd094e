---------------------------- MODULE MCTwinStore ----------------------------
(***************************************************************************)
(* TwinStore with small sets for TLC.  A behaviour is one of two, chosen   *)
(* at the start: attribute saves and REST telemetry that race on the       *)
(* document, or the data-plane consumer with the document to itself.       *)
(* Samples are numbers: the points in the order they were sent.            *)
(***************************************************************************)
EXTENDS TwinStore, TLC

CONSTANTS
  RestKeys,      \* telemetry keys the REST requests name
  MaxRestFaults  \* bound: faults of a behaviour of saves and posts

VARIABLE part

RestNext ==
  \/ Tick
  \/ \E w \in Savers, K \in NonEmpty(AttrKeys) : SaveRequest(w, K)
  \/ \E w \in Posters, K \in NonEmpty(RestKeys), ts \in Stamps : TelemetryRequest(w, K, ts)
  \/ \E w \in Writers : RequestStep(w) \/ (faults < MaxRestFaults /\ RequestFault(w))

NextMessages ==
  LET sent == Cardinality(Sent)
  IN  {[j \in 1 .. n |-> [keys |-> K[j], ts |-> ts[j], val |-> sent + j]] :
         n \in {x \in 1 .. MaxPoints : sent + x \in Samples},
         K \in [1 .. MaxPoints -> NonEmpty(TelKeys)], ts \in [1 .. MaxPoints -> Stamps]}

ConsumerNext ==
  \/ Tick
  \/ \E message \in NextMessages : Ingest(message)
  \/ SinkStep \/ SinkFault

MCInit == Init /\ part \in {"rest", "consumer"}
MCNext == /\ (part = "rest" /\ RestNext) \/ (part = "consumer" /\ ConsumerNext)
          /\ UNCHANGED part
MCSpec == MCInit /\ [][MCNext]_<<vars, part>>

Symmetry == Permutations(Savers) \cup Permutations(AttrKeys) \cup Permutations(Posters)
=============================================================================
