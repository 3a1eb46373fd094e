------------------------------ MODULE LwwStore ------------------------------
(***************************************************************************)
(* What the twin store promises of one entity's whole-state document: it   *)
(* is a set of last-writer-wins registers, one per key, and every write is *)
(* merged at one instant.  A write [keys, ts, val] replaces exactly those  *)
(* of its keys whose present timestamp is not newer, and updatedTs is at   *)
(* every moment the newest timestamp in the document.                      *)
(*                                                                         *)
(* TwinStore.tla is the detailed specification: the read, the local merge  *)
(* and the revision-checked write of flow-core, and the get and the        *)
(* unconditional set of the latest-kv data-plane consumer.                 *)
(***************************************************************************)
EXTENDS Naturals

CONSTANTS Keys,    \* attribute and telemetry keys of the entity
          Vals,    \* the values writes carry
          Stamps,  \* the timestamps writes carry
          Absent   \* the value of a key the document does not have

VARIABLE doc

(* A key the document lacks has timestamp 0, older than every write's.     *)
Value == [ts : Stamps \cup {0}, val : Vals \cup {Absent}]
Doc == [values : [Keys -> Value], updatedTs : Stamps \cup {0}]

Empty == [values |-> [k \in Keys |-> [ts |-> 0, val |-> Absent]],
          updatedTs |-> 0]

(* updatedTs of a document is the newest timestamp of its values.          *)
IsNewest(d) ==
  /\ \A k \in Keys : d.values[k].ts <= d.updatedTs
  /\ d.updatedTs # 0 => \E k \in Keys : d.values[k].ts = d.updatedTs

Register(v, written, ts, val) ==
  IF written /\ ~(v.ts > ts) THEN [ts |-> ts, val |-> val] ELSE v

MergeOf(K, ts, val) ==
  /\ doc' \in Doc
  /\ doc'.values = [k \in Keys |-> Register(doc.values[k], k \in K, ts, val)]
  /\ IsNewest(doc')

Init == doc = Empty

Next == \E K \in SUBSET Keys, ts \in Stamps, val \in Vals : MergeOf(K, ts, val)

Spec == Init /\ [][Next]_doc
=============================================================================
