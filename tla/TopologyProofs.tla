--------------------------- MODULE TopologyProofs ---------------------------
(***************************************************************************)
(* Edges and mirrors tell the same story of a relation: for any number of  *)
(* entities, relation types, concurrent transactions and deletes.          *)
(*                                                                         *)
(* The inductive invariant says of every transaction what it holds         *)
(* (TxnOK), of every two that they hold different rows (Apart), and of a   *)
(* delete in progress what it owes: a mirror it neither removes nor has    *)
(* still to look at has an edge that this delete leaves (Leaves).          *)
(*                                                                         *)
(* The catalogue under the edges, and the catalogue by itself in the same  *)
(* instance, keep the invariant of TwinCatalogProofs.                      *)
(*                                                                         *)
(* The reads of the graph agree in every state of the invariant, at every  *)
(* depth and around every cycle.                                           *)
(***************************************************************************)
EXTENDS MCTopology, TwinCatalogProofs, FiniteSetTheorems, SequenceTheorems

Turned(x) == [x EXCEPT !.from = x.to, !.to = x.from]
Deletions == [tenant: Tenants, m: Mirrors]
Txns == [op: {"none", "save", "delete"}, at: {"idle", "check", "edge", "mirrors", "drop"},
         e: Edges \cup Deletions \cup {None}, adds: SUBSET Edges, dels: SUBSET Edges,
         mirrors: SUBSET Mirrors, drops: SUBSET Mirrors, todo: SUBSET Mirrors,
         picked: SUBSET Mirrors]

AtHome(x) == Home[x.from] = x.tenant /\ Home[x.to] = x.tenant

\* The rows a delete names.
Named(d, x) ==
  /\ x.tenant = d.tenant
  /\ MirrorOf(x) = d.m \/ (x.dir = "BIDIRECTIONAL" /\ MirrorOf(x) = Reversed(d.m))

Idles(t) == t.op = "none" => t.adds = {} /\ t.dels = {}

Saves(t) ==
  t.op = "save" =>
    /\ t.e \in Edges /\ t.at \in {"check", "edge", "mirrors"} /\ t.dels = {} /\ t.drops = {}
    /\ t.at # "mirrors" => t.adds = {} /\ t.mirrors = {} /\ t.todo = {}
    /\ t.at # "check" => AtHome(t.e)
    /\ t.at = "mirrors" =>
         /\ t.adds = {t.e} \/ (t.e.dir = "BIDIRECTIONAL" /\ t.adds = {Turned(t.e)})
         /\ t.mirrors \cup t.todo = MirrorsOf(t.e)

Deletes(t, E) ==
  t.op = "delete" =>
    /\ t.e \in Deletions /\ t.at \in {"edge", "mirrors", "drop"}
    /\ t.adds = {} /\ t.mirrors = {}
    /\ t.at = "edge" => t.dels = {} /\ t.drops = {} /\ t.todo = {} /\ t.picked = {}
    /\ t.at = "mirrors" => t.picked = {}
    /\ \A x \in t.dels : x \in E /\ Named(t.e, x)

Leaves(t, E, R, C) ==
  t.op = "delete" /\ t.at # "edge" =>
    \A m \in R \ (Legacy \cup C) :
      m \notin t.drops \cup t.todo \cup t.picked => \E x \in E \ t.dels : Covers(x, m)

TxnOK(t, E, R, C) == Idles(t) /\ Saves(t) /\ Deletes(t, E) /\ Leaves(t, E, R, C)

Apart(t, u) ==
  /\ t.adds \cap u.dels = {} /\ t.dels \cap u.adds = {} /\ t.dels \cap u.dels = {}
  /\ ~(/\ t.op = "save" /\ u.op = "save"
       /\ t.e.dir = "BIDIRECTIONAL" /\ u.e.dir = "BIDIRECTIONAL" /\ LockKey(t.e) = LockKey(u.e))
  /\ ~(/\ t.op = "delete" /\ u.op = "delete"
       /\ t.dels # {} /\ u.dels # {} /\ t.e = u.e)

Rows == edge \in SUBSET Edges /\ relation \in SUBSET Mirrors /\ txn \in [Sessions -> Txns]
EdgesAtHome == \A x \in edge : AtHome(x)
TxnsOK == \A s \in Sessions : TxnOK(txn[s], edge, relation, crossed)
TxnsApart == \A s, q \in Sessions : s # q => Apart(txn[s], txn[q])

TopologyInv == Rows /\ EdgesAtHome /\ TxnsOK /\ TxnsApart /\ NoStrayMirror

-----------------------------------------------------------------------------
(* Mirrors and orientations.                                               *)

LEMMA MirrorFacts ==
  ASSUME NEW m \in Mirrors
  PROVE  /\ Reversed(m) \in Mirrors /\ Reversed(Reversed(m)) = m
         /\ Reversed(m).from = m.to /\ Reversed(m).to = m.from /\ Reversed(m).type = m.type
  BY DEF Mirrors, Reversed

LEMMA EdgeFacts ==
  ASSUME NEW x \in Edges
  PROVE  /\ MirrorOf(x) \in Mirrors
         /\ MirrorOf(x).from = x.from /\ MirrorOf(x).to = x.to /\ MirrorOf(x).type = x.type
         /\ Turned(x) \in Edges /\ MirrorOf(Turned(x)) = Reversed(MirrorOf(x))
         /\ Turned(x).tenant = x.tenant /\ Turned(x).dir = x.dir /\ Turned(x).type = x.type
         /\ Turned(x).from = x.to /\ Turned(x).to = x.from
         /\ MirrorsOf(x) \subseteq Mirrors
<1>1. /\ MirrorOf(x) \in Mirrors
      /\ MirrorOf(x).from = x.from /\ MirrorOf(x).to = x.to /\ MirrorOf(x).type = x.type
  BY DEF Mirrors, Edges, MirrorOf
<1>2. /\ Turned(x) \in Edges
      /\ Turned(x).tenant = x.tenant /\ Turned(x).dir = x.dir /\ Turned(x).type = x.type
      /\ Turned(x).from = x.to /\ Turned(x).to = x.from
  BY DEF Edges, Turned
<1>3. MirrorOf(Turned(x)) = Reversed(MirrorOf(x))
  <2>1. MirrorOf(Turned(x)) = [from |-> x.to, to |-> x.from, type |-> x.type]
    BY <1>2 DEF MirrorOf
  <2>2. /\ Reversed(MirrorOf(x)) \in Mirrors /\ Reversed(MirrorOf(x)).from = x.to
        /\ Reversed(MirrorOf(x)).to = x.from /\ Reversed(MirrorOf(x)).type = x.type
    BY <1>1, MirrorFacts
  <2>3. Reversed(MirrorOf(x)) = [from |-> x.to, to |-> x.from, type |-> x.type]
    BY <2>2 DEF Mirrors
  <2>4. QED BY <2>1, <2>3
<1>4. MirrorsOf(x) \subseteq Mirrors
  BY <1>1, MirrorFacts DEF MirrorsOf
<1>5. QED BY <1>1, <1>2, <1>3, <1>4

\* An edge at home covers each of its mirrors, whichever end it was saved from.
LEMMA EdgeCovers ==
  ASSUME NEW x \in Edges, AtHome(x), NEW m \in MirrorsOf(x)
  PROVE  /\ Covers(x, m)
         /\ x.dir = "BIDIRECTIONAL" => Covers(Turned(x), m)
<1>1. MirrorOf(x) \in Mirrors /\ Reversed(MirrorOf(x)) \in Mirrors
  BY EdgeFacts, MirrorFacts
<1>2. CASE m = MirrorOf(x)
  <2>1. Covers(x, m)
    BY <1>2, EdgeFacts DEF Covers, AtHome
  <2>2. MirrorOf(Turned(x)) = Reversed(m)
    BY <1>2, EdgeFacts
  <2>3. x.dir = "BIDIRECTIONAL" => Covers(Turned(x), m)
    BY <1>2, <2>2, EdgeFacts DEF Covers, AtHome
  <2>4. QED BY <2>1, <2>3
<1>3. CASE x.dir = "BIDIRECTIONAL" /\ m = Reversed(MirrorOf(x))
  <2>1. MirrorOf(x) = Reversed(m) /\ m.from = x.to
    BY <1>1, <1>3, EdgeFacts, MirrorFacts
  <2>2. Covers(x, m)
    BY <1>3, <2>1 DEF Covers, AtHome
  <2>3. Covers(Turned(x), m)
    BY <1>3, <2>1, EdgeFacts DEF Covers, AtHome
  <2>4. QED BY <2>2, <2>3
<1>4. QED BY <1>2, <1>3 DEF MirrorsOf

\* A mirror that a row of a delete covers is one of the two of that delete, and
\* one it has to look at.
LEMMA NamedCovers ==
  ASSUME NEW d \in Deletions, NEW x \in Edges, Named(d, x),
         NEW m \in Mirrors, Covers(x, m)
  PROVE  /\ m \in {d.m, Reversed(d.m)}
         /\ m = d.m \/ x.dir = "BIDIRECTIONAL"
         /\ d.tenant = Home[m.from]
<1>1. d.m \in Mirrors
  BY DEF Deletions
<1>2. Reversed(Reversed(m)) = m /\ Reversed(Reversed(d.m)) = d.m
  BY <1>1, MirrorFacts
<1>3. QED BY <1>2 DEF Named, Covers

-----------------------------------------------------------------------------
(* Steps that move one transaction and commit nothing.                     *)

LEMMA ApartSym == ASSUME NEW t, NEW u PROVE Apart(t, u) => Apart(u, t)
  BY DEF Apart

LEMMA NothingHeld ==
  /\ NoTxn \in Txns /\ TxnOK(NoTxn, edge, relation, crossed)
  /\ \A u : Apart(NoTxn, u)
<1>1. NoTxn \in Txns
  BY DEF NoTxn, Txns
<1>2. /\ NoTxn.op = "none" /\ NoTxn.adds = {} /\ NoTxn.dels = {}
  BY DEF NoTxn
<1>3. TxnOK(NoTxn, edge, relation, crossed)
  BY <1>2 DEF TxnOK, Idles, Saves, Deletes, Leaves
<1>4. \A u : Apart(NoTxn, u)
  BY <1>2 DEF Apart
<1>5. QED BY <1>1, <1>3, <1>4

LEMMA Moved ==
  ASSUME Rows, NEW s \in Sessions, NEW t \in Txns, Move(s, t)
  PROVE  /\ txn' \in [Sessions -> Txns] /\ txn'[s] = t
         /\ \A q \in Sessions : q # s => txn'[q] = txn[q]
  BY DEF Rows, Move

LEMMA Local ==
  ASSUME TopologyInv, NEW s \in Sessions, NEW t \in Txns, Move(s, t),
         UNCHANGED <<edge, relation, crossed>>, TxnOK(t, edge, relation, crossed),
         \A q \in Sessions \ {s} : Apart(t, txn[q])
  PROVE  TopologyInv'
<1>1. /\ txn' \in [Sessions -> Txns] /\ txn'[s] = t
      /\ \A q \in Sessions : q # s => txn'[q] = txn[q]
  BY Moved DEF TopologyInv
<1>2. Rows' /\ EdgesAtHome' /\ NoStrayMirror'
  BY <1>1 DEF TopologyInv, Rows, EdgesAtHome, NoStrayMirror
<1>3. TxnsOK'
  <2>1. \A q \in Sessions : TxnOK(txn'[q], edge, relation, crossed)
    BY <1>1 DEF TopologyInv, TxnsOK
  <2>2. QED BY <2>1 DEF TxnsOK
<1>4. TxnsApart'
  <2>1. \A q, r \in Sessions : q # r => Apart(txn'[q], txn'[r])
    BY <1>1, ApartSym DEF TopologyInv, TxnsApart
  <2>2. QED BY <2>1 DEF TxnsApart
<1>5. QED BY <1>2, <1>3, <1>4 DEF TopologyInv

\* What the invariant says of one session and of two.
LEMMA One ==
  ASSUME TopologyInv, NEW s \in Sessions
  PROVE  /\ txn[s] \in Txns /\ TxnOK(txn[s], edge, relation, crossed)
         /\ \A q \in Sessions \ {s} : Apart(txn[s], txn[q])
  BY DEF TopologyInv, Rows, TxnsOK, TxnsApart

LEMMA SameHoldings ==
  ASSUME NEW t, NEW u, t.op = u.op, t.e = u.e, t.adds = u.adds, t.dels = u.dels, NEW w, Apart(u, w)
  PROVE  Apart(t, w)
  BY DEF Apart

LEMMA SaveEdgeStep ==
  ASSUME TopologyInv, NEW s \in Sessions, NEW e \in Edges, SaveEdge(s, e), UNCHANGED crossed
  PROVE  TopologyInv'
<1> DEFINE t == [NoTxn EXCEPT !.op = "save", !.at = "check", !.e = e]
<1>1. t \in Txns
  BY DEF Txns, NoTxn
<1>2. /\ t.op = "save" /\ t.at = "check" /\ t.e = e /\ t.adds = {} /\ t.dels = {} /\ t.drops = {}
      /\ t.mirrors = {} /\ t.todo = {}
  BY DEF NoTxn
<1>3. Move(s, t) /\ UNCHANGED <<edge, relation, crossed>>
  BY DEF SaveEdge
<1> HIDE DEF t
<1>4. TxnOK(t, edge, relation, crossed)
  BY <1>2 DEF TxnOK, Idles, Saves, Deletes, Leaves
<1>5. ASSUME NEW q \in Sessions \ {s} PROVE Apart(t, txn[q])
  <2>1. e.dir = "BIDIRECTIONAL" => ~Locked(s, e)
    BY DEF SaveEdge
  <2>2. QED BY <1>2, <2>1 DEF Apart, Locked
<1>6. QED BY <1>1, <1>3, <1>4, <1>5, Local

LEMMA RollbackStep ==
  ASSUME TopologyInv, NEW s \in Sessions, Move(s, NoTxn), UNCHANGED <<edge, relation, crossed>>
  PROVE  TopologyInv'
  BY NothingHeld, Local

LEMMA CheckEdgeStep ==
  ASSUME TopologyInv, NEW s \in Sessions, CheckEdge(s), UNCHANGED crossed
  PROVE  TopologyInv'
<1> DEFINE t == [txn[s] EXCEPT !.at = "edge"]
<1>0. /\ txn[s] \in Txns /\ TxnOK(txn[s], edge, relation, crossed)
      /\ \A q \in Sessions \ {s} : Apart(txn[s], txn[q])
  BY One
<1>1. txn[s].op = "save" /\ txn[s].at = "check" /\ UNCHANGED <<edge, relation, crossed>>
  BY DEF CheckEdge
<1>2. CASE Accepts(txn[s].e)
  <2>1. t \in Txns
    BY <1>0 DEF Txns
  <2>2. /\ t.op = "save" /\ t.at = "edge" /\ t.e = txn[s].e /\ t.adds = txn[s].adds
        /\ t.dels = txn[s].dels /\ t.drops = txn[s].drops
        /\ t.mirrors = txn[s].mirrors /\ t.todo = txn[s].todo
    BY <1>0, <1>1 DEF Txns
  <2>3. Move(s, t)
    BY <1>2 DEF CheckEdge
  <2> HIDE DEF t
  <2>4. Saves(txn[s]) /\ AtHome(txn[s].e)
    BY <1>0, <1>2 DEF TxnOK, Accepts, SameTenant, AtHome
  <2>5. TxnOK(t, edge, relation, crossed)
    BY <1>1, <2>2, <2>4 DEF TxnOK, Idles, Saves, Deletes, Leaves
  <2>6. \A q \in Sessions \ {s} : Apart(t, txn[q])
    BY <1>0, <1>1, <2>2, SameHoldings
  <2>7. QED BY <1>1, <2>1, <2>3, <2>5, <2>6, Local
<1>3. CASE ~Accepts(txn[s].e)
  BY <1>1, <1>3, RollbackStep DEF CheckEdge
<1>4. QED BY <1>2, <1>3

\* The row is nobody else's, and the unique index never meets its turned form:
\* whoever inserts that one holds the same advisory lock.
LEMMA SaveTopologyEdgeStep ==
  ASSUME TopologyInv, NEW s \in Sessions, SaveTopologyEdge(s), UNCHANGED crossed
  PROVE  TopologyInv'
<1> DEFINE e == txn[s].e
           row == TargetRow(e)
           t == [txn[s] EXCEPT !.at = "mirrors", !.adds = {row}, !.todo = MirrorsOf(e)]
<1>0. /\ txn[s] \in Txns /\ TxnOK(txn[s], edge, relation, crossed)
      /\ \A q \in Sessions \ {s} : Apart(txn[s], txn[q])
  BY One
<1>1. /\ txn[s].op = "save" /\ txn[s].at = "edge" /\ UNCHANGED <<edge, relation, crossed>>
      /\ ~EdgeHeld(s, row)
  BY DEF SaveTopologyEdge
<1>2. /\ e \in Edges /\ AtHome(e) /\ txn[s].dels = {} /\ txn[s].drops = {} /\ txn[s].mirrors = {}
  BY <1>0, <1>1 DEF TxnOK, Saves
<1>3. row = e \/ (e.dir = "BIDIRECTIONAL" /\ row = Turned(e) /\ row \in edge)
  BY DEF TargetRow, Turned
<1>4. row \in Edges
  BY <1>2, <1>3, EdgeFacts
<1>5. ~ClashingRow(s, row)
  <2> SUFFICES ASSUME row.dir = "BIDIRECTIONAL", row \notin edge,
                      Turned(row) \in edge \/ \E q \in Sessions \ {s} : Turned(row) \in txn[q].adds
               PROVE  FALSE
    BY DEF ClashingRow, Turned
  <2>1. row = e
    BY <1>3
  <2>2. Turned(e) \notin edge
    BY <2>1 DEF TargetRow, Turned
  <2>3. PICK q \in Sessions \ {s} : Turned(e) \in txn[q].adds
    BY <2>1, <2>2
  <2>4. /\ txn[q].op = "save" /\ txn[q].e \in Edges
        /\ txn[q].adds = {txn[q].e} \/ txn[q].adds = {Turned(txn[q].e)}
    <3>1. txn[q] \in Txns /\ TxnOK(txn[q], edge, relation, crossed)
      BY One
    <3>2. QED BY <2>3, <3>1 DEF TxnOK, Idles, Saves, Deletes, Txns
  <2>5. /\ Turned(e).tenant = e.tenant /\ Turned(e).dir = e.dir /\ Turned(e).type = e.type
        /\ Turned(e).from = e.to /\ Turned(e).to = e.from
    BY <1>2, EdgeFacts
  <2>6. /\ txn[q].e.tenant = e.tenant /\ txn[q].e.dir = e.dir /\ txn[q].e.type = e.type
        /\ {txn[q].e.from, txn[q].e.to} = {e.from, e.to}
    <3>1. CASE Turned(e) = txn[q].e
      BY <2>5, <3>1
    <3>2. CASE Turned(e) = Turned(txn[q].e)
      BY <2>4, <2>5, <3>2, EdgeFacts
    <3>3. QED BY <2>3, <2>4, <3>1, <3>2
  <2>7. LockKey(txn[q].e) = LockKey(e)
    BY <2>6 DEF LockKey
  <2>8. QED BY <1>0, <1>1, <2>1, <2>4, <2>6, <2>7 DEF Apart
<1>6. Move(s, t)
  BY <1>5 DEF SaveTopologyEdge
<1>7. t \in Txns
  BY <1>0, <1>2, <1>4, EdgeFacts DEF Txns
<1>8. /\ t.op = "save" /\ t.at = "mirrors" /\ t.e = e /\ t.adds = {row} /\ t.dels = {} /\ t.drops = {}
      /\ t.mirrors = {} /\ t.todo = MirrorsOf(e)
  BY <1>0, <1>1, <1>2 DEF Txns
<1> HIDE DEF t
<1>9. TxnOK(t, edge, relation, crossed)
  BY <1>2, <1>3, <1>8 DEF TxnOK, Idles, Saves, Deletes, Leaves
<1>10. ASSUME NEW q \in Sessions \ {s} PROVE Apart(t, txn[q])
  <2>1. row \notin txn[q].dels
    BY <1>1 DEF EdgeHeld
  <2>2. QED BY <1>0, <1>1, <1>8, <2>1 DEF Apart
<1>11. QED BY <1>1, <1>6, <1>7, <1>9, <1>10, Local

LEMMA SaveLegacyMirrorStep ==
  ASSUME TopologyInv, NEW s \in Sessions, SaveLegacyMirror(s), UNCHANGED crossed
  PROVE  TopologyInv'
<1>0. /\ txn[s] \in Txns /\ TxnOK(txn[s], edge, relation, crossed)
      /\ \A q \in Sessions \ {s} : Apart(txn[s], txn[q])
  BY One
<1>1. PICK m \in txn[s].todo : Move(s, [txn[s] EXCEPT !.mirrors = @ \cup {m}, !.todo = @ \ {m}])
  BY DEF SaveLegacyMirror
<1> DEFINE t == [txn[s] EXCEPT !.mirrors = @ \cup {m}, !.todo = @ \ {m}]
<1>2. t \in Txns
  BY <1>0 DEF Txns
<1>3. /\ t.op = txn[s].op /\ t.at = txn[s].at /\ t.e = txn[s].e /\ t.adds = txn[s].adds
      /\ t.dels = txn[s].dels /\ t.drops = txn[s].drops
      /\ t.mirrors = txn[s].mirrors \cup {m} /\ t.todo = txn[s].todo \ {m}
  BY <1>0 DEF Txns
<1> HIDE DEF t
<1>4. txn[s].op = "save" /\ txn[s].at = "mirrors" /\ UNCHANGED <<edge, relation, crossed>>
  BY DEF SaveLegacyMirror
<1>5. t.mirrors \cup t.todo = MirrorsOf(t.e)
  BY <1>0, <1>3, <1>4 DEF TxnOK, Saves
<1>6. TxnOK(t, edge, relation, crossed)
  BY <1>0, <1>3, <1>4, <1>5 DEF TxnOK, Idles, Saves, Deletes, Leaves
<1>7. \A q \in Sessions \ {s} : Apart(t, txn[q])
  BY <1>0, <1>3, SameHoldings
<1>8. QED BY <1>1, <1>2, <1>4, <1>6, <1>7, Local DEF t

-----------------------------------------------------------------------------
(* The steps of a delete.                                                  *)

LEMMA DeleteEdgeStep ==
  ASSUME TopologyInv, NEW s \in Sessions, NEW tenant \in Tenants, NEW m \in Mirrors,
         DeleteEdge(s, tenant, m), UNCHANGED crossed
  PROVE  TopologyInv'
<1> DEFINE d == [tenant |-> tenant, m |-> m]
           t == [NoTxn EXCEPT !.op = "delete", !.at = "edge", !.e = d]
<1>1. d \in Deletions
  BY DEF Deletions
<1> HIDE DEF d
<1>2. t \in Txns
  BY <1>1 DEF Txns, NoTxn
<1>3. /\ t.op = "delete" /\ t.at = "edge" /\ t.e = d /\ t.adds = {} /\ t.dels = {} /\ t.drops = {}
      /\ t.mirrors = {} /\ t.todo = {} /\ t.picked = {}
  BY DEF NoTxn
<1>4. Move(s, t) /\ UNCHANGED <<edge, relation, crossed>>
  BY DEF DeleteEdge, d
<1> HIDE DEF t
<1>5. TxnOK(t, edge, relation, crossed)
  BY <1>1, <1>3 DEF TxnOK, Idles, Saves, Deletes, Leaves
<1>6. \A q \in Sessions \ {s} : Apart(t, txn[q])
  BY <1>3 DEF Apart
<1>7. QED BY <1>2, <1>4, <1>5, <1>6, Local

\* The rows named are nobody else's; were another delete of the same relation in
\* progress, it would hold one of them.
LEMMA DeleteTopologyEdgesStep ==
  ASSUME TopologyInv, NEW s \in Sessions, DeleteTopologyEdges(s), UNCHANGED crossed
  PROVE  TopologyInv'
<1> DEFINE d == txn[s].e
           rows == Matching(d.tenant, d.m)
           todo == MirrorsToDrop(d.m, rows)
           t == [txn[s] EXCEPT !.at = "mirrors", !.dels = rows, !.todo = todo]
<1>0. /\ txn[s] \in Txns /\ TxnOK(txn[s], edge, relation, crossed)
      /\ \A q \in Sessions \ {s} : Apart(txn[s], txn[q])
  BY One
<1>1. /\ txn[s].op = "delete" /\ txn[s].at = "edge" /\ UNCHANGED <<edge, relation, crossed>>
      /\ \A x \in rows : ~EdgeHeld(s, x)
      /\ Move(s, t)
  BY DEF DeleteTopologyEdges
<1>2. /\ d \in Deletions /\ txn[s].adds = {} /\ txn[s].mirrors = {} /\ txn[s].drops = {}
      /\ txn[s].picked = {}
  BY <1>0, <1>1 DEF TxnOK, Deletes
<1>3. rows \subseteq edge /\ rows \subseteq Edges /\ \A x \in edge : x \in rows <=> Named(d, x)
  BY DEF Matching, Named, TopologyInv, Rows
<1>4. todo \in SUBSET Mirrors
  BY <1>2, MirrorFacts DEF MirrorsToDrop, Deletions
<1>5. d.m \in todo /\ \A x \in rows : x.dir = "BIDIRECTIONAL" => Reversed(d.m) \in todo
  BY DEF MirrorsToDrop
<1> HIDE DEF rows, todo
<1>6. t \in Txns
  BY <1>0, <1>3, <1>4 DEF Txns
<1>7. /\ t.op = "delete" /\ t.at = "mirrors" /\ t.e = d /\ t.adds = {} /\ t.dels = rows
      /\ t.drops = {} /\ t.mirrors = {} /\ t.todo = todo /\ t.picked = {}
  BY <1>0, <1>1, <1>2 DEF Txns
<1> HIDE DEF t
<1>8. Leaves(t, edge, relation, crossed)
  <2> SUFFICES ASSUME NEW m \in relation \ (Legacy \cup crossed), m \notin todo
               PROVE  \E x \in edge \ rows : Covers(x, m)
    BY <1>7 DEF Leaves
  <2>1. PICK x \in edge : Covers(x, m)
    BY DEF TopologyInv, NoStrayMirror
  <2>2. m \in Mirrors /\ x \in Edges
    BY DEF TopologyInv, Rows
  <2>3. ASSUME x \in rows PROVE FALSE
    <3>1. m \in {d.m, Reversed(d.m)} /\ (m = d.m \/ x.dir = "BIDIRECTIONAL")
      BY <1>2, <1>3, <2>1, <2>2, <2>3, NamedCovers
    <3>2. QED BY <1>5, <2>3, <3>1
  <2>4. QED BY <2>1, <2>3
<1>9. TxnOK(t, edge, relation, crossed)
  BY <1>2, <1>3, <1>7, <1>8 DEF TxnOK, Idles, Saves, Deletes
<1>10. ASSUME NEW q \in Sessions \ {s} PROVE Apart(t, txn[q])
  <2>1. rows \cap txn[q].adds = {} /\ rows \cap txn[q].dels = {}
    BY <1>1 DEF EdgeHeld
  <2>2. ASSUME txn[q].op = "delete", txn[q].dels # {}, txn[q].e = d PROVE FALSE
    <3>1. PICK x \in txn[q].dels : TRUE
      BY <2>2
    <3>2. x \in edge /\ Named(d, x)
      BY <2>2, One DEF TxnOK, Deletes
    <3>3. QED BY <1>3, <2>1, <3>2
  <2>3. QED BY <1>7, <2>1, <2>2 DEF Apart
<1>11. QED BY <1>1, <1>6, <1>9, <1>10, Local

\* A mirror that is kept has an edge of its orientation in the snapshot.
LEMMA PickMirrorStep ==
  ASSUME TopologyInv, NEW s \in Sessions, PickMirror(s), UNCHANGED crossed
  PROVE  TopologyInv'
<1>0. /\ txn[s] \in Txns /\ TxnOK(txn[s], edge, relation, crossed)
      /\ \A q \in Sessions \ {s} : Apart(txn[s], txn[q])
  BY One
<1>1. txn[s].op = "delete" /\ txn[s].at = "mirrors" /\ UNCHANGED <<edge, relation, crossed>>
  BY DEF PickMirror
<1>2. PICK m \in txn[s].todo :
        IF m \in relation /\ Unused(s, m)
        THEN Move(s, [txn[s] EXCEPT !.at = "drop", !.todo = @ \ {m}, !.picked = {m}])
        ELSE Move(s, [txn[s] EXCEPT !.todo = @ \ {m}])
  BY DEF PickMirror
<1>3. m \in Mirrors /\ txn[s].picked = {}
  BY <1>0, <1>1 DEF Txns, TxnOK, Deletes
<1>4. CASE m \in relation /\ Unused(s, m)
  <2> DEFINE t == [txn[s] EXCEPT !.at = "drop", !.todo = @ \ {m}, !.picked = {m}]
  <2>1. t \in Txns
    BY <1>0, <1>3 DEF Txns
  <2>2. /\ t.op = txn[s].op /\ t.at = "drop" /\ t.e = txn[s].e /\ t.adds = txn[s].adds
        /\ t.dels = txn[s].dels /\ t.drops = txn[s].drops /\ t.mirrors = txn[s].mirrors
        /\ t.todo = txn[s].todo \ {m} /\ t.picked = {m}
    BY <1>0 DEF Txns
  <2>3. Move(s, t)
    BY <1>2, <1>4
  <2> HIDE DEF t
  <2>4. Leaves(t, edge, relation, crossed)
    <3>1. t.drops \cup t.todo \cup t.picked = txn[s].drops \cup txn[s].todo \cup txn[s].picked
      BY <1>3, <2>2
    <3>2. Leaves(txn[s], edge, relation, crossed)
      BY <1>0 DEF TxnOK
    <3>3. QED BY <1>1, <2>2, <3>1, <3>2 DEF Leaves
  <2>5. TxnOK(t, edge, relation, crossed)
    BY <1>0, <1>1, <2>2, <2>4 DEF TxnOK, Idles, Saves, Deletes
  <2>6. \A q \in Sessions \ {s} : Apart(t, txn[q])
    BY <1>0, <2>2, SameHoldings
  <2>7. QED BY <1>1, <2>1, <2>3, <2>5, <2>6, Local
<1>5. CASE ~(m \in relation /\ Unused(s, m))
  <2> DEFINE t == [txn[s] EXCEPT !.todo = @ \ {m}]
  <2>1. t \in Txns
    BY <1>0 DEF Txns
  <2>2. /\ t.op = txn[s].op /\ t.at = txn[s].at /\ t.e = txn[s].e /\ t.adds = txn[s].adds
        /\ t.dels = txn[s].dels /\ t.drops = txn[s].drops /\ t.mirrors = txn[s].mirrors
        /\ t.todo = txn[s].todo \ {m} /\ t.picked = txn[s].picked
    BY <1>0 DEF Txns
  <2>3. Move(s, t)
    BY <1>2, <1>5
  <2> HIDE DEF t
  <2>4. m \in relation => \E x \in edge \ txn[s].dels : Covers(x, m)
    <3> SUFFICES ASSUME m \in relation PROVE \E x \in edge \ txn[s].dels : Covers(x, m)
      OBVIOUS
    <3>1. PICK x \in edge \ txn[s].dels : MirrorOf(x) = m
      BY <1>5 DEF Unused
    <3>2. x \in Edges /\ AtHome(x)
      BY DEF TopologyInv, Rows, EdgesAtHome
    <3>3. Covers(x, m)
      BY <3>1, <3>2, EdgeFacts DEF Covers, AtHome
    <3>4. QED BY <3>3
  <2>5. Leaves(t, edge, relation, crossed)
    BY <1>0, <1>1, <2>2, <2>4 DEF TxnOK, Leaves
  <2>6. TxnOK(t, edge, relation, crossed)
    BY <1>0, <1>1, <2>2, <2>5 DEF TxnOK, Idles, Saves, Deletes
  <2>7. \A q \in Sessions \ {s} : Apart(t, txn[q])
    BY <1>0, <2>2, SameHoldings
  <2>8. QED BY <1>1, <2>1, <2>3, <2>6, <2>7, Local
<1>6. QED BY <1>4, <1>5

LEMMA DropMirrorStep ==
  ASSUME TopologyInv, NEW s \in Sessions, DropMirror(s), UNCHANGED crossed
  PROVE  TopologyInv'
<1> DEFINE t == [txn[s] EXCEPT !.at = "mirrors", !.picked = {},
                               !.drops = @ \cup (txn[s].picked \cap relation)]
<1>0. /\ txn[s] \in Txns /\ TxnOK(txn[s], edge, relation, crossed)
      /\ \A q \in Sessions \ {s} : Apart(txn[s], txn[q])
  BY One
<1>1. /\ txn[s].op = "delete" /\ txn[s].at = "drop" /\ UNCHANGED <<edge, relation, crossed>>
      /\ Move(s, t)
  BY DEF DropMirror
<1>2. t \in Txns
  BY <1>0 DEF Txns
<1>3. /\ t.op = txn[s].op /\ t.at = "mirrors" /\ t.e = txn[s].e /\ t.adds = txn[s].adds
      /\ t.dels = txn[s].dels /\ t.mirrors = txn[s].mirrors /\ t.todo = txn[s].todo
      /\ t.picked = {} /\ t.drops = txn[s].drops \cup (txn[s].picked \cap relation)
  BY <1>0 DEF Txns
<1> HIDE DEF t
<1>4. Leaves(t, edge, relation, crossed)
  BY <1>0, <1>1, <1>3 DEF TxnOK, Leaves
<1>5. TxnOK(t, edge, relation, crossed)
  BY <1>0, <1>1, <1>3, <1>4 DEF TxnOK, Idles, Saves, Deletes
<1>6. QED BY <1>0, <1>1, <1>2, <1>3, <1>5, SameHoldings, Local

-----------------------------------------------------------------------------
(* The repair at boot, and commits.                                        *)

LEMMA RepairStep ==
  ASSUME TopologyInv, NEW s \in Sessions, RepairBackfill(s), UNCHANGED crossed
  PROVE  TopologyInv'
<1> DEFINE new == {Directed(m) : m \in LegacyMissingTopology}
<1>1. edge' = edge \cup new /\ UNCHANGED <<relation, txn, crossed>>
  BY DEF RepairBackfill
<1>2. \A x \in new : x \in Edges /\ AtHome(x)
  <2> SUFFICES ASSUME NEW m \in LegacyMissingTopology PROVE Directed(m) \in Edges /\ AtHome(Directed(m))
    OBVIOUS
  <2>1. m \in Mirrors /\ Home[m.from] = Home[m.to]
    BY DEF LegacyMissingTopology, Governed, TopologyInv, Rows
  <2>2. Home[m.from] \in Tenants
    BY <2>1, CatalogAssumption DEF Mirrors
  <2>3. QED BY <2>1, <2>2 DEF Directed, Edges, Mirrors, Directions, AtHome
<1> HIDE DEF new
<1>3. Rows' /\ EdgesAtHome'
  BY <1>1, <1>2 DEF TopologyInv, Rows, EdgesAtHome
<1>4. NoStrayMirror'
  BY <1>1 DEF TopologyInv, NoStrayMirror
<1>5. TxnsOK'
  <2>1. ASSUME NEW q \in Sessions PROVE TxnOK(txn[q], edge', relation, crossed)
    <3>1. TxnOK(txn[q], edge, relation, crossed)
      BY One
    <3>2. Deletes(txn[q], edge') /\ Leaves(txn[q], edge', relation, crossed)
      BY <1>1, <3>1 DEF TxnOK, Deletes, Leaves
    <3>3. QED BY <3>1, <3>2 DEF TxnOK
  <2>2. QED BY <1>1, <2>1 DEF TxnsOK
<1>6. TxnsApart'
  BY <1>1 DEF TopologyInv, TxnsApart
<1>7. QED BY <1>3, <1>4, <1>5, <1>6 DEF TopologyInv

\* What a commit does to the rows and to the other transactions.
LEMMA Committed ==
  ASSUME TopologyInv, NEW s \in Sessions, CommitEdge(s),
         \A x \in txn[s].adds : x \in Edges /\ AtHome(x),
         \A q \in Sessions \ {s} : /\ Deletes(txn[q], edge')
                                   /\ Leaves(txn[q], edge', relation', crossed'),
         NoStrayMirror'
  PROVE  TopologyInv'
<1>0. txn[s] \in Txns
  BY One
<1>1. /\ edge' = (edge \ txn[s].dels) \cup txn[s].adds
      /\ relation' = (relation \ txn[s].drops) \cup txn[s].mirrors /\ Move(s, NoTxn)
  BY DEF CommitEdge
<1>2. /\ txn' \in [Sessions -> Txns] /\ txn'[s] = NoTxn
      /\ \A q \in Sessions : q # s => txn'[q] = txn[q]
  BY <1>1, NothingHeld, Moved DEF TopologyInv
<1>3. edge' \in SUBSET Edges /\ relation' \in SUBSET Mirrors
  BY <1>0, <1>1 DEF TopologyInv, Rows, Txns
<1>4. Rows'
  BY <1>2, <1>3 DEF Rows
<1>5. EdgesAtHome'
  BY <1>1 DEF TopologyInv, EdgesAtHome
<1>6. TxnsOK'
  <2>1. TxnOK(NoTxn, edge', relation', crossed')
    BY DEF NoTxn, TxnOK, Idles, Saves, Deletes, Leaves
  <2>2. ASSUME NEW q \in Sessions \ {s} PROVE TxnOK(txn[q], edge', relation', crossed')
    BY One DEF TxnOK
  <2>3. \A q \in Sessions : TxnOK(txn'[q], edge', relation', crossed')
    BY <1>2, <2>1, <2>2
  <2>4. QED BY <2>3 DEF TxnsOK
<1>7. TxnsApart'
  <2>1. \A q, r \in Sessions : q # r => Apart(txn'[q], txn'[r])
    BY <1>2, NothingHeld, ApartSym DEF TopologyInv, TxnsApart
  <2>2. QED BY <2>1 DEF TxnsApart
<1>8. QED BY <1>4, <1>5, <1>6, <1>7 DEF TopologyInv

\* The row a save commits covers the mirrors it commits, and no delete has it.
LEMMA CommitSave ==
  ASSUME TopologyInv, NEW s \in Sessions, CommitEdge(s), txn[s].op = "save"
  PROVE  TopologyInv'
<1>0. /\ txn[s] \in Txns /\ TxnOK(txn[s], edge, relation, crossed)
      /\ \A q \in Sessions \ {s} : Apart(txn[s], txn[q])
  BY One
<1>1. txn[s].at = "mirrors" /\ txn[s].todo = {}
  BY DEF CommitEdge, Finished
<1> DEFINE e == txn[s].e
<1>2. /\ e \in Edges /\ AtHome(e) /\ txn[s].dels = {} /\ txn[s].drops = {}
      /\ txn[s].adds = {e} \/ (e.dir = "BIDIRECTIONAL" /\ txn[s].adds = {Turned(e)})
      /\ txn[s].mirrors = MirrorsOf(e)
  BY <1>0, <1>1 DEF TxnOK, Saves
<1>3. PICK row : txn[s].adds = {row} /\ row \in Edges /\ (row = e \/ (e.dir = "BIDIRECTIONAL" /\ row = Turned(e)))
  BY <1>2, EdgeFacts
<1>4. edge' = edge \cup {row} /\ relation' = relation \cup MirrorsOf(e) /\ crossed' = crossed
  BY <1>2, <1>3 DEF CommitEdge
<1>5. AtHome(row)
  BY <1>2, <1>3, EdgeFacts DEF AtHome
<1>6. \A m \in MirrorsOf(e) : Covers(row, m)
  BY <1>2, <1>3, EdgeCovers
<1>7. NoStrayMirror'
  BY <1>4, <1>6 DEF TopologyInv, NoStrayMirror
<1>8. ASSUME NEW q \in Sessions \ {s}
      PROVE  Deletes(txn[q], edge') /\ Leaves(txn[q], edge', relation', crossed')
  <2>1. TxnOK(txn[q], edge, relation, crossed)
    BY One
  <2>2. row \notin txn[q].dels
    BY <1>0, <1>3 DEF Apart
  <2>3. Deletes(txn[q], edge')
    BY <1>4, <2>1 DEF TxnOK, Deletes
  <2>4. Leaves(txn[q], edge', relation', crossed')
    BY <1>4, <1>6, <2>1, <2>2 DEF TxnOK, Leaves
  <2>5. QED BY <2>3, <2>4
<1>9. QED BY <1>3, <1>5, <1>7, <1>8, Committed

\* Of two deletes that commit with an edge of one mirror each, one of either
\* orientation: Crosses.  Two of one orientation cannot both hold such an edge.
LEMMA CommitDelete ==
  ASSUME TopologyInv, NEW s \in Sessions, CommitEdge(s), txn[s].op = "delete"
  PROVE  TopologyInv'
<1>0. /\ txn[s] \in Txns /\ TxnOK(txn[s], edge, relation, crossed)
      /\ \A q \in Sessions \ {s} : Apart(txn[s], txn[q])
  BY One
<1>1. txn[s].at = "mirrors" /\ txn[s].todo = {}
  BY DEF CommitEdge, Finished
<1>2. /\ txn[s].e \in Deletions /\ txn[s].adds = {} /\ txn[s].mirrors = {} /\ txn[s].picked = {}
      /\ \A x \in txn[s].dels : x \in edge /\ Named(txn[s].e, x)
  BY <1>0, <1>1 DEF TxnOK, Deletes
<1>3. /\ edge' = edge \ txn[s].dels /\ relation' = relation \ txn[s].drops
      /\ crossed' = crossed \cup (IF txn[s].dels = {} THEN {} ELSE Crosses(s))
  BY <1>2 DEF CommitEdge
<1>4. ASSUME NEW m \in relation' \ (Legacy \cup crossed')
      PROVE  \E x \in edge \ txn[s].dels : Covers(x, m)
  BY <1>0, <1>1, <1>2, <1>3 DEF TxnOK, Leaves
<1>5. NoStrayMirror'
  BY <1>3, <1>4 DEF NoStrayMirror
<1>6. ASSUME NEW q \in Sessions \ {s}
      PROVE  Deletes(txn[q], edge') /\ Leaves(txn[q], edge', relation', crossed')
  <2>1. TxnOK(txn[q], edge, relation, crossed) /\ Apart(txn[s], txn[q])
    BY <1>0, One
  <2>2. Deletes(txn[q], edge')
    BY <1>3, <2>1 DEF TxnOK, Deletes, Apart
  <2>3. ASSUME txn[q].op = "delete", txn[q].at # "edge", NEW m \in relation' \ (Legacy \cup crossed'),
               m \notin txn[q].drops \cup txn[q].todo \cup txn[q].picked
        PROVE  \E x \in edge' \ txn[q].dels : Covers(x, m)
    <3>1. PICK x \in edge \ txn[s].dels : Covers(x, m)
      BY <1>4
    <3>2. PICK y \in edge \ txn[q].dels : Covers(y, m)
      BY <1>3, <2>1, <2>3 DEF TxnOK, Leaves
    <3>3. x \in Edges /\ y \in Edges /\ m \in Mirrors
      BY <1>3 DEF TopologyInv, Rows
    <3>4. CASE x \notin txn[q].dels
      BY <1>3, <3>1, <3>4
    <3>5. CASE y \notin txn[s].dels
      BY <1>3, <3>2, <3>5
    <3>6. CASE x \in txn[q].dels /\ y \in txn[s].dels
      <4>1. /\ txn[q].e \in Deletions /\ Named(txn[q].e, x) /\ Named(txn[s].e, y)
        BY <1>2, <2>1, <2>3, <3>6 DEF TxnOK, Deletes
      <4>2. /\ m \in {txn[q].e.m, Reversed(txn[q].e.m)} /\ txn[q].e.tenant = Home[m.from]
            /\ m \in {txn[s].e.m, Reversed(txn[s].e.m)} /\ txn[s].e.tenant = Home[m.from]
        BY <1>2, <3>1, <3>2, <3>3, <4>1, NamedCovers
      <4>3. txn[q].e # txn[s].e
        BY <2>1, <2>3, <3>6 DEF Apart
      <4>4. /\ txn[q].e.m \in Mirrors /\ txn[s].e.m \in Mirrors
            /\ txn[q].e.m # txn[s].e.m
        BY <1>2, <4>1, <4>2, <4>3 DEF Deletions
      <4>5. txn[q].e.m = Reversed(txn[s].e.m)
        BY <4>2, <4>4, MirrorFacts
      <4>6. m \in Crosses(s)
        BY <2>3, <3>6, <4>2, <4>5 DEF Crosses
      <4>7. QED BY <1>3, <3>6, <4>6
    <3>7. QED BY <3>4, <3>5, <3>6
  <2>4. Leaves(txn[q], edge', relation', crossed')
    BY <2>3 DEF Leaves
  <2>5. QED BY <2>2, <2>4
<1>7. QED BY <1>2, <1>5, <1>6, Committed

-----------------------------------------------------------------------------
(* The theorems.                                                           *)

LEMMA TopologyInitInv == TopologyInit => TopologyInv
<1> SUFFICES ASSUME TopologyInit PROVE TopologyInv
  OBVIOUS
<1>1. /\ edge = {} /\ relation = Legacy /\ txn = [s \in Sessions |-> NoTxn]
  BY DEF TopologyInit
<1>2. Rows
  BY <1>1, NothingHeld, TopologyAssumption DEF Rows
<1>3. EdgesAtHome /\ NoStrayMirror
  BY <1>1 DEF EdgesAtHome, NoStrayMirror
<1>4. TxnsOK /\ TxnsApart
  BY <1>1, NothingHeld DEF TxnsOK, TxnsApart
<1>5. QED BY <1>2, <1>3, <1>4 DEF TopologyInv

LEMMA TopologyStep == TopologyInv /\ TopologyNext => TopologyInv'
<1> SUFFICES ASSUME TopologyInv, NEW s \in Sessions,
                    \/ (SaveNext(s) \/ DeleteNext(s) \/ Rollback(s) \/ RepairBackfill(s)) /\ UNCHANGED crossed
                    \/ CommitEdge(s)
             PROVE  TopologyInv'
  BY DEF TopologyNext
<1>1. CASE SaveNext(s) /\ UNCHANGED crossed
  <2>1. ASSUME NEW t \in Tenants, NEW p \in Pairs, NEW ty \in RelTypes, NEW d \in Directions,
               SaveEdge(s, [tenant |-> t, from |-> p[1], to |-> p[2], type |-> ty, dir |-> d])
        PROVE  TopologyInv'
    <3>1. [tenant |-> t, from |-> p[1], to |-> p[2], type |-> ty, dir |-> d] \in Edges
      BY TopologyAssumption DEF Edges
    <3>2. QED BY <1>1, <2>1, <3>1, SaveEdgeStep
  <2>2. QED
    BY <1>1, <2>1, CheckEdgeStep, SaveTopologyEdgeStep, SaveLegacyMirrorStep DEF SaveNext
<1>2. CASE DeleteNext(s) /\ UNCHANGED crossed
  <2>1. ASSUME NEW t \in Tenants, NEW p \in Pairs, NEW ty \in RelTypes,
               DeleteEdge(s, t, [from |-> p[1], to |-> p[2], type |-> ty])
        PROVE  TopologyInv'
    <3>1. [from |-> p[1], to |-> p[2], type |-> ty] \in Mirrors
      BY TopologyAssumption DEF Mirrors
    <3>2. QED BY <1>2, <2>1, <3>1, DeleteEdgeStep
  <2>2. QED
    BY <1>2, <2>1, DeleteTopologyEdgesStep, PickMirrorStep, DropMirrorStep DEF DeleteNext
<1>3. CASE Rollback(s) /\ UNCHANGED crossed
  BY <1>3, RollbackStep DEF Rollback
<1>4. CASE RepairBackfill(s) /\ UNCHANGED crossed
  BY <1>4, RepairStep
<1>5. CASE CommitEdge(s)
  BY <1>5, CommitSave, CommitDelete DEF CommitEdge, Finished
<1>6. QED BY <1>1, <1>2, <1>3, <1>4, <1>5

LEMMA TopologyStutter == TopologyInv /\ UNCHANGED topologyVars => TopologyInv'
  BY DEF TopologyInv, topologyVars, Rows, EdgesAtHome, TxnsOK, TxnsApart, NoStrayMirror

\* The checks of a bidirectional save do not tell one end from the other.
LEMMA Symmetric == EitherOrientation
<1> SUFFICES ASSUME NEW p \in Pairs, NEW ty \in RelTypes, NEW t \in Tenants
             PROVE  LET e == [tenant |-> t, from |-> p[1], to |-> p[2], type |-> ty, dir |-> "BIDIRECTIONAL"]
                    IN Accepts(e) <=> Accepts([e EXCEPT !.from = e.to, !.to = e.from])
  BY DEF EitherOrientation
<1> DEFINE e == [tenant |-> t, from |-> p[1], to |-> p[2], type |-> ty, dir |-> "BIDIRECTIONAL"]
           f == [e EXCEPT !.from = e.to, !.to = e.from]
<1>1. /\ e.dir = "BIDIRECTIONAL" /\ f.dir = "BIDIRECTIONAL" /\ f.type = e.type
      /\ f.tenant = e.tenant /\ f.from = e.to /\ f.to = e.from
  OBVIOUS
<1> HIDE DEF e, f
<1>2. {f.from, f.to} = {e.from, e.to}
  BY <1>1
<1>3. SameTenant(e) <=> SameTenant(f)
  BY <1>1 DEF SameTenant
<1>4. ModelsAllow(e) <=> ModelsAllow(f)
  BY <1>1 DEF ModelsAllow
<1>5. Accepts(e) <=> Accepts(f)
  BY <1>1, <1>3, <1>4 DEF Accepts
<1>6. QED BY <1>5 DEF e, f

LEMMA InvIsSound == TopologyInv => EdgesAreSound
<1> SUFFICES ASSUME TopologyInv PROVE NeverClashes /\ NoStrayMirror
  BY Symmetric DEF EdgesAreSound
<1>1. ASSUME NEW s \in Sessions PROVE txn[s].at # "clash"
  BY One DEF Txns
<1>2. QED BY <1>1 DEF NeverClashes, TopologyInv

\* SaveEdge and DeleteEdge (internal/topology/topology.go) run in any number of
\* transactions, with the boot repair between them: the unique index of
\* bidirectional rows is never met, the checks accept a bidirectional relation from
\* both ends or from neither, and a relation row written since topology_edge exists
\* has its edge, unless deletes of both orientations crossed.
THEOREM EdgesSound == Spec => []EdgesAreSound
<1>1. TopologyInit => TopologyInv
  BY TopologyInitInv
<1>2. TopologyInv /\ [Next]_vars => TopologyInv'
  BY TopologyStep, TopologyStutter DEF Next, vars
<1>3. QED BY <1>1, <1>2, InvIsSound, PTL DEF Spec

\* The same of the instance the runs check: its edges, and its longer behaviours of
\* one pair, are behaviours of the transactions of topology.go.
THEOREM EdgesSoundHere == MCSpec => []EdgesStaySound
<1> DEFINE Inv == part # "catalog" => TopologyInv
<1>1. MCInit => Inv
  BY TopologyInitInv DEF MCInit
<1>2. Inv /\ [MCNext]_<<vars, part>> => Inv'
  <2> SUFFICES ASSUME Inv, [MCNext]_<<vars, part>>, part' # "catalog" PROVE TopologyInv'
    OBVIOUS
  <2>1. part' = part /\ (TopologyNext \/ UNCHANGED topologyVars)
    BY DEF MCNext, Next, vars
  <2>2. QED BY <2>1, TopologyStep, TopologyStutter
<1>3. Inv => EdgesStaySound
  BY InvIsSound DEF EdgesStaySound
<1>4. QED BY <1>1, <1>2, <1>3, PTL DEF MCSpec

-----------------------------------------------------------------------------
(* The catalogue and the registry, by themselves and under the edges.       *)

CatalogProofs == INSTANCE TwinCatalogProofs
  WITH Devices <- OneDevice, Assets <- OneAsset, Home <- OneHome, ModelIds <- OneModel,
       Versions <- TwoVersions, Policies <- TwoPolicies, Declarations <- NothingDeclared,
       Requests <- Sessions, MaxStarts <- 3

LEMMA PinnedInitInv == PinnedInit => CatalogInv
<1> SUFFICES ASSUME PinnedInit PROVE CatalogInv
  OBVIOUS
<1>1. PICK decls \in Catalogues :
        /\ model = [k \in Keys |->
                      IF k.version = 1 /\ decls[k.id] # None
                      THEN [kind |-> "ASSET", policy |-> CHOOSE p \in Policies : TRUE,
                            decl |-> decls[k.id], deprecated |-> FALSE]
                      ELSE None]
        /\ registry = [e \in Entities |->
                         IF e \in Assets /\ decls[entity[e]] # None
                         THEN [id |-> entity[e], version |-> 1] ELSE Unpinned]
  BY DEF PinnedInit
<1>2. entity \in [Entities -> ModelIds] /\ decls \in [ModelIds -> Declarations \cup {None}] /\ 1 \in Versions
  BY TopologyAssumption DEF PinnedInit
<1>3. (CHOOSE p \in Policies : TRUE) \in Policies
  BY TopologyAssumption
<1> DEFINE m(d) == [kind |-> "ASSET", policy |-> CHOOSE p \in Policies : TRUE, decl |-> d, deprecated |-> FALSE]
<1>4. \A d \in Declarations : m(d) \in Models /\ m(d) # None /\ m(d).kind = "ASSET"
  <2> DEFINE p0 == CHOOSE p \in Policies : TRUE
             n(d) == [kind |-> "ASSET", policy |-> p0, decl |-> d, deprecated |-> FALSE]
  <2>1. p0 \in Policies
    BY <1>3
  <2>2. \A d : m(d) = n(d)
    OBVIOUS
  <2> HIDE DEF p0, m
  <2>3. \A d \in Declarations : n(d) \in Models /\ n(d).kind = "ASSET"
    BY <2>1 DEF Models
  <2>4. None \notin Models
    BY CatalogAssumption
  <2> HIDE DEF n
  <2> QED BY <2>2, <2>3, <2>4
<1>5. model = [k \in Keys |-> IF k.version = 1 /\ decls[k.id] # None THEN m(decls[k.id]) ELSE None]
  BY <1>1
<1>6. \A k \in Keys : decls[k.id] \in Declarations \cup {None}
  BY <1>2 DEF Keys
<1> HIDE DEF m
<1>7. model \in [Keys -> Models \cup {None}]
  BY <1>4, <1>5, <1>6
<1>8. registry \in Plans
  BY <1>1, <1>2 DEF Plans, Pins
<1>9. ASSUME NEW e \in Entities PROVE Resolves(e, registry[e])
  <2>1. CASE e \in Assets /\ decls[entity[e]] # None
    <3> DEFINE k == [tenant |-> Home[e], id |-> entity[e], version |-> 1]
    <3>1. k \in Keys /\ k.id = entity[e] /\ k.version = 1
      BY <1>2, CatalogAssumption DEF Keys
    <3>2. PinKey(e, registry[e]) = k
      BY <1>1, <2>1 DEF PinKey
    <3> HIDE DEF k
    <3>3. model[k] = m(decls[entity[e]]) /\ decls[entity[e]] \in Declarations
      BY <1>2, <1>5, <2>1, <3>1
    <3>4. KindOf(e) = "ASSET"
      BY <2>1, CatalogAssumption DEF KindOf
    <3> QED BY <1>4, <3>2, <3>3, <3>4 DEF Resolves
  <2>2. CASE ~(e \in Assets /\ decls[entity[e]] # None)
    BY <1>1, <2>2 DEF Resolves
  <2> QED BY <2>1, <2>2
<1>10. task = [r \in Requests |-> Idle]
  BY DEF PinnedInit
<1>11. \A r \in Requests : Sound(task[r]) /\ Fresh(task[r])
  BY <1>10, IdleFits
<1> QED BY <1>2, <1>7, <1>8, <1>9, <1>10, <1>11, IdleFits DEF CatalogInv, CatalogTypeOK

\* Catalog and CatalogProofs are one instance under two names.
LEMMA SameConstants ==
  /\ Catalog!Entities = CatalogProofs!Entities /\ Catalog!Keys = CatalogProofs!Keys
  /\ Catalog!Unpinned = CatalogProofs!Unpinned /\ Catalog!Pins = CatalogProofs!Pins
  /\ Catalog!Planned = CatalogProofs!Planned /\ Catalog!Models = CatalogProofs!Models
  /\ Catalog!PolicyRecords = CatalogProofs!PolicyRecords
BY DEF Catalog!Entities, CatalogProofs!Entities, Catalog!Keys, CatalogProofs!Keys, Catalog!Unpinned,
   CatalogProofs!Unpinned, Catalog!Pins, CatalogProofs!Pins, Catalog!Planned, CatalogProofs!Planned,
   Catalog!Models, CatalogProofs!Models, Catalog!PolicyRecords, CatalogProofs!PolicyRecords

LEMMA SameStep == Catalog!CatalogNext => CatalogProofs!CatalogNext
<1>1. /\ Catalog!Entities = CatalogProofs!Entities /\ Catalog!Keys = CatalogProofs!Keys
      /\ Catalog!Unpinned = CatalogProofs!Unpinned /\ Catalog!Planned = CatalogProofs!Planned
  BY SameConstants
<1>2. Catalog!Idle = CatalogProofs!Idle
  BY <1>1 DEF Catalog!Idle, CatalogProofs!Idle
<1>3. \A e : Catalog!KindOf(e) = CatalogProofs!KindOf(e) /\ Catalog!KeyOfPin(e) = CatalogProofs!KeyOfPin(e) /\
      (Catalog!Pinned(e) <=> CatalogProofs!Pinned(e))
  BY <1>1 DEF Catalog!KindOf, CatalogProofs!KindOf, Catalog!KeyOfPin, CatalogProofs!KeyOfPin, Catalog!Pinned,
      CatalogProofs!Pinned
<1>4. \A e : Catalog!Candidates(e) = CatalogProofs!Candidates(e)
  BY <1>3 DEF Catalog!Candidates, CatalogProofs!Candidates
<1>5. \A S : Catalog!Newest(S) = CatalogProofs!Newest(S)
  BY DEF Catalog!Newest, CatalogProofs!Newest
<1>6. \A e : Catalog!ProjectDevice(e) = CatalogProofs!ProjectDevice(e) /\ Catalog!ProjectAsset(e) =
      CatalogProofs!ProjectAsset(e)
  BY <1>1, <1>3, <1>4, <1>5 DEF Catalog!ProjectDevice, CatalogProofs!ProjectDevice, Catalog!ProjectAsset,
      CatalogProofs!ProjectAsset
<1>7. \A S : Catalog!Projected(S) = CatalogProofs!Projected(S)
  BY <1>1, <1>6 DEF Catalog!Projected, CatalogProofs!Projected
<1>8. \A plan : Catalog!Upserted(plan) = CatalogProofs!Upserted(plan)
  BY <1>1 DEF Catalog!Upserted, CatalogProofs!Upserted
<1>9. Catalog!Orphans = CatalogProofs!Orphans
  BY <1>1 DEF Catalog!Orphans, CatalogProofs!Orphans
<1>10. \A r, t : (Catalog!Commit(r, t) <=> CatalogProofs!Commit(r, t)) /\ (Catalog!Continue(r, t) <=>
      CatalogProofs!Continue(r, t))
      /\ (Catalog!CanStart(r) <=> CatalogProofs!CanStart(r))
      /\ (Catalog!EntityLocked(t) <=> CatalogProofs!EntityLocked(t)) /\ (Catalog!ModelShared(t) <=>
      CatalogProofs!ModelShared(t))
  BY <1>2 DEF Catalog!Commit, CatalogProofs!Commit, Catalog!Continue, CatalogProofs!Continue, Catalog!CanStart,
      CatalogProofs!CanStart, Catalog!EntityLocked, CatalogProofs!EntityLocked, Catalog!ModelShared,
      CatalogProofs!ModelShared
<1>11. \A r : Catalog!EntityNext(r) => CatalogProofs!EntityNext(r)
  BY <1>1, <1>2, <1>7, <1>8, <1>10 DEF Catalog!EntityNext, CatalogProofs!EntityNext, Catalog!SaveEntity,
      CatalogProofs!SaveEntity, Catalog!DeleteEntity, CatalogProofs!DeleteEntity, Catalog!SyncPlan,
      CatalogProofs!SyncPlan, Catalog!SyncWrite, CatalogProofs!SyncWrite, Catalog!DeleteRegistryRow,
      CatalogProofs!DeleteRegistryRow, Catalog!Abandon, CatalogProofs!Abandon
<1>12. \A at : Catalog!AfterPass(at) = CatalogProofs!AfterPass(at)
  BY DEF Catalog!AfterPass, CatalogProofs!AfterPass
<1>13. \A r : Catalog!Boot(r) => CatalogProofs!Boot(r)
  BY <1>1, <1>2, <1>7, <1>8, <1>9, <1>10, <1>12 DEF Catalog!Boot, CatalogProofs!Boot
<1>14. \A r, at, S : Catalog!BackfillSnapshot(r, at, S) => CatalogProofs!BackfillSnapshot(r, at, S)
  BY <1>1, <1>2, <1>7, <1>8, <1>9, <1>10, <1>12 DEF Catalog!BackfillSnapshot, CatalogProofs!BackfillSnapshot
<1>15. \A r, at : Catalog!BackfillWrite(r, at) => CatalogProofs!BackfillWrite(r, at)
  BY <1>1, <1>2, <1>7, <1>8, <1>9, <1>10, <1>12 DEF Catalog!BackfillWrite, CatalogProofs!BackfillWrite
<1>16. \A r : Catalog!SweepGuards(r) => CatalogProofs!SweepGuards(r)
  <2>0. \A S : Catalog!Cardinality(S) = CatalogProofs!Cardinality(S)
    BY DEF Catalog!Cardinality, CatalogProofs!Cardinality
  <2>1. /\ Catalog!Cardinality(Catalog!Orphans) = CatalogProofs!Cardinality(CatalogProofs!Orphans)
        /\ (Catalog!Orphans = {}) <=> (CatalogProofs!Orphans = {})
        /\ (\A e \in Catalog!Entities : entity[e] = None) <=> (\A e \in CatalogProofs!Entities : entity[e] = None)
    BY <1>1, <1>9, <2>0
  <2> QED BY <2>1 DEF Catalog!SweepGuards, CatalogProofs!SweepGuards, Catalog!Continue, CatalogProofs!Continue
<1>17. \A r : Catalog!SweepDelete(r) => CatalogProofs!SweepDelete(r)
  BY <1>1, <1>2, <1>7, <1>8, <1>9, <1>10, <1>12 DEF Catalog!SweepDelete, CatalogProofs!SweepDelete
<1>18. \A r : Catalog!PassFails(r) => CatalogProofs!PassFails(r)
  BY <1>1, <1>2, <1>7, <1>8, <1>9, <1>10, <1>12 DEF Catalog!PassFails, CatalogProofs!PassFails
<1>19. \A r : Catalog!BootDone(r) => CatalogProofs!BootDone(r)
  BY <1>1, <1>2, <1>7, <1>8, <1>9, <1>10, <1>12 DEF Catalog!BootDone, CatalogProofs!BootDone
<1>20. \A r : Catalog!BootNext(r) => CatalogProofs!BootNext(r)
  BY <1>13, <1>14, <1>15, <1>16, <1>17, <1>18, <1>19 DEF Catalog!BootNext, CatalogProofs!BootNext,
      Catalog!BackfillDevices, CatalogProofs!BackfillDevices, Catalog!BackfillAssets,
      CatalogProofs!BackfillAssets
<1>21. \A k, kind : Catalog!Activated(k, kind) = CatalogProofs!Activated(k, kind) /\ Catalog!ModelTenant(k,
      kind) = CatalogProofs!ModelTenant(k, kind)
  BY <1>1, <1>3 DEF Catalog!Activated, CatalogProofs!Activated, Catalog!ModelTenant, CatalogProofs!ModelTenant
<1>22. \A r, k, kind, p, d : Catalog!CreateModel(r, k, kind, p, d) => CatalogProofs!CreateModel(r, k, kind, p, d)
  BY <1>1, <1>2, <1>3, <1>10, <1>21 DEF Catalog!CreateModel, CatalogProofs!CreateModel
<1>23. \A r, k : Catalog!Deprecate(r, k) => CatalogProofs!Deprecate(r, k)
  BY <1>1, <1>2, <1>3, <1>10, <1>21 DEF Catalog!Deprecate, CatalogProofs!Deprecate
<1>24. \A r, e, t, admin, k : Catalog!Repoint(r, e, t, admin, k) => CatalogProofs!Repoint(r, e, t, admin, k)
  BY <1>1, <1>2, <1>3, <1>10, <1>21 DEF Catalog!Repoint, CatalogProofs!Repoint
<1>25. \A r : Catalog!RepointCheck(r) => CatalogProofs!RepointCheck(r)
  BY <1>1, <1>2, <1>3, <1>10, <1>21 DEF Catalog!RepointCheck, CatalogProofs!RepointCheck
<1>26. \A r : Catalog!RepointCommit(r) => CatalogProofs!RepointCommit(r)
  BY <1>1, <1>2, <1>3, <1>10, <1>21 DEF Catalog!RepointCommit, CatalogProofs!RepointCommit
<1>27. \A r : Catalog!ModelNext(r) => CatalogProofs!ModelNext(r)
  BY <1>1, <1>22, <1>23, <1>24, <1>25, <1>26 DEF Catalog!ModelNext, CatalogProofs!ModelNext
<1>28. \A e, tenant, op, v : Catalog!Admits(e, tenant, op, v) <=> CatalogProofs!Admits(e, tenant, op, v)
  BY <1>3 DEF Catalog!Admits, CatalogProofs!Admits, Catalog!HasPin, CatalogProofs!HasPin, Catalog!PinResolves,
      CatalogProofs!PinResolves
<1>29. \A r, op, e, t, admin, v : Catalog!SaveValues(r, op, e, t, admin, v) => CatalogProofs!SaveValues(r, op,
      e, t, admin, v)
  BY <1>1, <1>2, <1>10, <1>28 DEF Catalog!SaveValues, CatalogProofs!SaveValues, Catalog!LookupTenant,
      CatalogProofs!LookupTenant
<1>30. \A r, op : Catalog!ResolveAndValidate(r, op) => CatalogProofs!ResolveAndValidate(r, op)
  BY <1>1, <1>2, <1>10, <1>28 DEF Catalog!ResolveAndValidate, CatalogProofs!ResolveAndValidate
<1>31. \A r : Catalog!StoreValues(r) => CatalogProofs!StoreValues(r)
  BY <1>1, <1>2, <1>10, <1>28 DEF Catalog!StoreValues, CatalogProofs!StoreValues
<1>32. \A r : Catalog!WriteNext(r) => CatalogProofs!WriteNext(r)
  BY <1>1, <1>29, <1>30, <1>31 DEF Catalog!WriteNext, CatalogProofs!WriteNext, Catalog!SaveAttributes,
      CatalogProofs!SaveAttributes, Catalog!SaveFeatures, CatalogProofs!SaveFeatures, Catalog!Values,
      CatalogProofs!Values, Catalog!ValidateAttributes, CatalogProofs!ValidateAttributes,
      Catalog!ValidateFeatures, CatalogProofs!ValidateFeatures
<1> QED BY <1>11, <1>20, <1>27, <1>32 DEF Catalog!CatalogNext, CatalogProofs!CatalogNext

CatalogPartInv == IF part = "catalog" THEN CatalogProofs!CatalogInv ELSE CatalogInv

LEMMA PartConstants ==
  /\ OneDevice \cap OneAsset = {}
  /\ OneHome \in [CatalogProofs!Entities -> Tenants]
  /\ TwoPolicies \subseteq CatalogProofs!PolicyRecords
  /\ TwoVersions \subseteq Nat /\ MaxSwept \in Nat /\ 3 \in Nat
  /\ \A S \in (SUBSET TwoVersions) \ {{}} : \E v \in S : \A w \in S : w <= v
  /\ None \notin CatalogProofs!Entities \cup OneModel \cup Tenants \cup CatalogProofs!Pins
                   \cup CatalogProofs!Models \cup {CatalogProofs!Planned}
BY CatalogPartAssumption, SameConstants

LEMMA PartLemmas ==
  /\ CatalogProofs!CatalogInit => CatalogProofs!CatalogInv
  /\ CatalogProofs!CatalogInv /\ [CatalogProofs!CatalogNext]_catalogVars => CatalogProofs!CatalogInv'
  /\ CatalogProofs!CatalogInv => CatalogProofs!RegistryAgrees /\ CatalogProofs!WritesAsPinned
<1>1. CatalogProofs!CatalogInit => CatalogProofs!CatalogInv
  BY CatalogProofs!CatalogInvInit, PartConstants
<1>2. CatalogProofs!CatalogInv /\ [CatalogProofs!CatalogNext]_catalogVars => CatalogProofs!CatalogInv'
  BY CatalogProofs!CatalogStep, PartConstants DEF CatalogProofs!catalogVars, catalogVars
<1>3. CatalogProofs!CatalogInv => CatalogProofs!RegistryAgrees /\ CatalogProofs!WritesAsPinned
  BY CatalogProofs!CatalogInvImplies, PartConstants
<1> QED BY <1>1, <1>2, <1>3

LEMMA PartInit == MCInit => CatalogPartInv
<1>1. Catalog!CatalogInit => CatalogProofs!CatalogInit
  <2>1. /\ Catalog!Entities = CatalogProofs!Entities /\ Catalog!Keys = CatalogProofs!Keys
        /\ Catalog!Unpinned = CatalogProofs!Unpinned
    BY SameConstants
  <2>2. Catalog!Idle = CatalogProofs!Idle
    BY <2>1 DEF Catalog!Idle, CatalogProofs!Idle
  <2> QED BY <2>1, <2>2 DEF Catalog!CatalogInit, CatalogProofs!CatalogInit
<1>2. part = "catalog" /\ MCInit => Catalog!CatalogInit
  BY DEF MCInit
<1>3. part # "catalog" /\ MCInit => PinnedInit
  BY DEF MCInit, TopologyInit
<1> QED BY <1>1, <1>2, <1>3, PartLemmas, PinnedInitInv DEF CatalogPartInv

LEMMA PartStep == CatalogPartInv /\ [MCNext]_<<vars, part>> => CatalogPartInv'
<1> SUFFICES ASSUME CatalogPartInv, [MCNext]_<<vars, part>> PROVE CatalogPartInv'
  OBVIOUS
<1>1. part' = part
  BY DEF MCNext
<1>2. CASE part = "catalog"
  <2>1. CatalogProofs!CatalogInv
    BY <1>2 DEF CatalogPartInv
  <2>2. Catalog!CatalogNext \/ UNCHANGED catalogVars
    BY <1>2 DEF MCNext, vars, catalogVars
  <2>3. [CatalogProofs!CatalogNext]_catalogVars
    BY <2>2, SameStep
  <2>4. CatalogProofs!CatalogInv'
    BY <2>1, <2>3, PartLemmas
  <2> QED BY <1>1, <1>2, <2>4 DEF CatalogPartInv
<1>3. CASE part # "catalog"
  <2>1. CatalogInv
    BY <1>3 DEF CatalogPartInv
  <2>2. (\E r \in Requests : EntityNext(r) \/ ModelNext(r)) \/ UNCHANGED catalogVars
    BY <1>3 DEF MCNext, Next, vars, catalogVars
  <2>3. CatalogInv'
    BY <2>1, <2>2, EntityFits, ModelFits, CatalogStutter
  <2> QED BY <1>1, <1>3, <2>3 DEF CatalogPartInv
<1> QED BY <1>2, <1>3

LEMMA PartImplies ==
  /\ CatalogPartInv => RegistryStaysRight
  /\ CatalogPartInv => (part = "catalog" => Catalog!WritesAsPinned)
<1>1. /\ Catalog!Entities = CatalogProofs!Entities /\ Catalog!Keys = CatalogProofs!Keys
      /\ Catalog!Unpinned = CatalogProofs!Unpinned
  BY SameConstants
<1>2. Catalog!Idle = CatalogProofs!Idle
  BY <1>1 DEF Catalog!Idle, CatalogProofs!Idle
<1>3. \A e : Catalog!KindOf(e) = CatalogProofs!KindOf(e) /\ Catalog!KeyOfPin(e) = CatalogProofs!KeyOfPin(e) /\
      (Catalog!Pinned(e) <=> CatalogProofs!Pinned(e))
  BY <1>1 DEF Catalog!KindOf, CatalogProofs!KindOf, Catalog!KeyOfPin, CatalogProofs!KeyOfPin, Catalog!Pinned,
      CatalogProofs!Pinned
<1>4. \A e : Catalog!Candidates(e) = CatalogProofs!Candidates(e)
  BY <1>3 DEF Catalog!Candidates, CatalogProofs!Candidates
<1>5. \A e : Catalog!PinResolves(e) <=> CatalogProofs!PinResolves(e)
  BY <1>3 DEF Catalog!PinResolves, CatalogProofs!PinResolves
<1>6. \A e, t, op, v : Catalog!Admits(e, t, op, v) <=> CatalogProofs!Admits(e, t, op, v)
  BY <1>3, <1>5 DEF Catalog!Admits, CatalogProofs!Admits, Catalog!HasPin, CatalogProofs!HasPin
<1>7. \A r : /\ Catalog!RepointCommit(r) => CatalogProofs!RepointCommit(r)
             /\ Catalog!StoreValues(r) => CatalogProofs!StoreValues(r)
  BY <1>2 DEF Catalog!RepointCommit, CatalogProofs!RepointCommit, Catalog!StoreValues,
      CatalogProofs!StoreValues, Catalog!Commit, CatalogProofs!Commit
<1>8. CatalogProofs!RegistryAgrees => Catalog!RegistryAgrees
  BY <1>1, <1>3, <1>4, <1>5 DEF Catalog!RegistryAgrees, CatalogProofs!RegistryAgrees, Catalog!PinsResolve,
      CatalogProofs!PinsResolve, Catalog!BootConverges, CatalogProofs!BootConverges
<1>9. CatalogProofs!WritesAsPinned => Catalog!WritesAsPinned
  BY <1>6, <1>7 DEF Catalog!WritesAsPinned, CatalogProofs!WritesAsPinned
<1>10. CatalogInv => RegistryAgrees
  BY CatalogInvImplies
<1> QED BY <1>8, <1>9, <1>10, PartLemmas DEF CatalogPartInv, RegistryStaysRight

\* The registry of the instance the run checks, its longer behaviours of the
\* catalogue alone included: every pin names a version of the entity's own tenant
\* and kind (repoint and activation in internal/twinmodel), and a maintenance pass
\* of internal/twin/registry.go that nothing interleaved with leaves a row for
\* every entity, pinned where a model of its type exists, and none for a deleted one.
THEOREM RegistryRightHere == MCSpec => []RegistryStaysRight
<1>1. QED BY PartInit, PartStep, PartImplies, PTL DEF MCSpec

\* The writes of that instance: a re-point commits no version deprecated by then,
\* and internal/twin/write.go stores what the model the entity is pinned to admits,
\* unless another request commits between its validation and its store.
THEOREM StoredRightHere == MCSpec => StoredAsPinned
<1> DEFINE W == part = "catalog" => Catalog!WritesAsPinned
<1>1. CatalogPartInv => W
  BY PartImplies
<1>2. CatalogPartInv /\ [MCNext]_<<vars, part>> => [W]_catalogVars
  BY <1>1
<1> HIDE DEF W
<1>3. MCSpec => [][W]_catalogVars
  BY PartInit, PartStep, <1>2, PTL DEF MCSpec
<1> QED BY <1>3 DEF StoredAsPinned, W

-----------------------------------------------------------------------------
(***************************************************************************)
(* Traversals.  The labels of the breadth-first search are what the        *)
(* others are compared with: Labelled says of them that every step from a  *)
(* node above the last level leads to a node labelled at most one more,    *)
(* and that every node but the root has a step into it from a node         *)
(* labelled one less.  A path of d steps then ends at a node labelled at   *)
(* most d, and every node is the end of a path as long as its label.       *)
(*                                                                         *)
(* Induction over the levels is about a set of naturals, as the provers do *)
(* not instantiate an operator; and a function defined by recursion is one *)
(* because its finite parts are.                                           *)
(***************************************************************************)
\* The intervals below the numbers that are not in S have a least one.
LEMMA LevelInduction ==
  ASSUME NEW S, 0 \in S, \A n \in Nat : n \in S => n + 1 \in S
  PROVE  Nat \subseteq S
<1> DEFINE T == {0..n : n \in Nat \ S}
<1>1. SUFFICES ASSUME T # {} PROVE FALSE
  OBVIOUS
<1>2. T \subseteq FiniteSubsetsOf(Nat)
  <2>1. \A n \in Nat : IsFiniteSet(0..n) /\ 0..n \subseteq Nat
    BY FS_Interval
  <2> QED BY <2>1 DEF FiniteSubsetsOf
<1>3. PICK X \in T : \A Y \in T : <<Y, X>> \notin StrictSubsetOrdering(Nat)
  <2> HIDE DEF T
  <2> QED BY <1>1, <1>2, FS_StrictSubsetOrderingWellFounded, WFMin
<1>4. PICK n \in Nat \ S : X = 0..n
  OBVIOUS
<1>5. n - 1 \in Nat \ S
  OBVIOUS
<1>6. 0..(n - 1) \subseteq 0..n /\ 0..(n - 1) # 0..n
  BY <1>4, <1>5
<1>7. <<0..(n - 1), 0..n>> \in StrictSubsetOrdering(Nat)
  BY <1>4, <1>5, <1>6 DEF StrictSubsetOrdering
<1> QED BY <1>3, <1>4, <1>5, <1>7

Start(tenant, root) ==
  [visited |-> {root}, frontier |-> {n \in {root} : Owned(tenant, n)}, reported |-> {}]

IsGrown(f, n, base, step) ==
  f = [d \in 0..n |-> IF d = 0 THEN base ELSE Onward(f[d - 1], step)]
IsLevels(f, n, tenant, root, dir, types) ==
  f = [d \in 0..n |-> IF d = 0 THEN [x \in {root} |-> 0] ELSE Further(f[d - 1], d, tenant, dir, types)]
IsWalk(f, n, tenant, root, dir, types) ==
  f = [d \in 0..n |-> IF d = 0 THEN Start(tenant, root) ELSE Wider(f[d - 1], tenant, dir, types)]

LEMMA GrownExists ==
  ASSUME NEW n \in Nat, NEW base, NEW step PROVE \E f : IsGrown(f, n, base, step)
<1> DEFINE S == {k \in Nat : \E f : IsGrown(f, k, base, step)}
<1>1. 0 \in S
  <2>1. IsGrown([d \in 0..0 |-> base], 0, base, step)
    BY DEF IsGrown
  <2> QED BY <2>1
<1>2. ASSUME NEW k \in Nat, k \in S PROVE k + 1 \in S
  <2>1. PICK f : IsGrown(f, k, base, step)
    BY <1>2
  <2> DEFINE g == [d \in 0..(k + 1) |-> IF d = 0 THEN base ELSE Onward(f[d - 1], step)]
  <2>2. \A d \in 0..k : g[d] = f[d]
    BY <2>1 DEF IsGrown
  <2>3. \A d \in 0..(k + 1) : d # 0 => d - 1 \in 0..k
    OBVIOUS
  <2>4. g = [d \in 0..(k + 1) |-> IF d = 0 THEN base ELSE Onward(g[d - 1], step)]
    BY <2>2, <2>3
  <2>5. IsGrown(g, k + 1, base, step)
    BY <2>4 DEF IsGrown
  <2> HIDE DEF g
  <2> QED BY <2>5
<1>3. Nat \subseteq S
  <2> HIDE DEF S
  <2> QED BY <1>1, <1>2, LevelInduction
<1> QED BY <1>3

LEMMA LevelsExist ==
  ASSUME NEW n \in Nat, NEW tenant, NEW root, NEW dir, NEW types
  PROVE  \E f : IsLevels(f, n, tenant, root, dir, types)
<1> DEFINE S == {k \in Nat : \E f : IsLevels(f, k, tenant, root, dir, types)}
<1>1. 0 \in S
  <2>1. IsLevels([d \in 0..0 |-> [x \in {root} |-> 0]], 0, tenant, root, dir, types)
    BY DEF IsLevels
  <2> QED BY <2>1
<1>2. ASSUME NEW k \in Nat, k \in S PROVE k + 1 \in S
  <2>1. PICK f : IsLevels(f, k, tenant, root, dir, types)
    BY <1>2
  <2> DEFINE g == [d \in 0..(k + 1) |->
                     IF d = 0 THEN [x \in {root} |-> 0] ELSE Further(f[d - 1], d, tenant, dir, types)]
  <2>2. \A d \in 0..k : g[d] = f[d]
    BY <2>1 DEF IsLevels
  <2>3. \A d \in 0..(k + 1) : d # 0 => d - 1 \in 0..k
    OBVIOUS
  <2>4. g = [d \in 0..(k + 1) |->
               IF d = 0 THEN [x \in {root} |-> 0] ELSE Further(g[d - 1], d, tenant, dir, types)]
    BY <2>2, <2>3
  <2>5. IsLevels(g, k + 1, tenant, root, dir, types)
    BY <2>4 DEF IsLevels
  <2> HIDE DEF g
  <2> QED BY <2>5
<1>3. Nat \subseteq S
  <2> HIDE DEF S
  <2> QED BY <1>1, <1>2, LevelInduction
<1> QED BY <1>3

LEMMA WalkExists ==
  ASSUME NEW n \in Nat, NEW tenant, NEW root, NEW dir, NEW types
  PROVE  \E f : IsWalk(f, n, tenant, root, dir, types)
<1> DEFINE S == {k \in Nat : \E f : IsWalk(f, k, tenant, root, dir, types)}
<1>1. 0 \in S
  <2>1. IsWalk([d \in 0..0 |-> Start(tenant, root)], 0, tenant, root, dir, types)
    BY DEF IsWalk
  <2> QED BY <2>1
<1>2. ASSUME NEW k \in Nat, k \in S PROVE k + 1 \in S
  <2>1. PICK f : IsWalk(f, k, tenant, root, dir, types)
    BY <1>2
  <2> DEFINE g == [d \in 0..(k + 1) |->
                     IF d = 0 THEN Start(tenant, root) ELSE Wider(f[d - 1], tenant, dir, types)]
  <2>2. \A d \in 0..k : g[d] = f[d]
    BY <2>1 DEF IsWalk
  <2>3. \A d \in 0..(k + 1) : d # 0 => d - 1 \in 0..k
    OBVIOUS
  <2>4. g = [d \in 0..(k + 1) |-> IF d = 0 THEN Start(tenant, root) ELSE Wider(g[d - 1], tenant, dir, types)]
    BY <2>2, <2>3
  <2>5. IsWalk(g, k + 1, tenant, root, dir, types)
    BY <2>4 DEF IsWalk
  <2> HIDE DEF g
  <2> QED BY <2>5
<1>3. Nat \subseteq S
  <2> HIDE DEF S
  <2> QED BY <1>1, <1>2, LevelInduction
<1> QED BY <1>3

LEMMA TraversalsAreRecursive ==
  ASSUME NEW n \in Nat, NEW tenant, NEW root, NEW dir, NEW types
  PROVE  /\ IsGrown(Grown(tenant, root, dir, types, n), n, {<<root>>}, NeighborUnion(dir, tenant, types))
         /\ IsLevels(Levels(tenant, root, dir, types, n), n, tenant, root, dir, types)
         /\ IsWalk(Walked(tenant, root, dir, types, n), n, tenant, root, dir, types)
<1>1. IsGrown(Grown(tenant, root, dir, types, n), n, {<<root>>}, NeighborUnion(dir, tenant, types))
  <2>1. \E f : IsGrown(f, n, {<<root>>}, NeighborUnion(dir, tenant, types))
    BY GrownExists
  <2>2. \E f : f = [d \in 0..n |-> IF d = 0 THEN {<<root>>}
                                   ELSE Onward(f[d - 1], NeighborUnion(dir, tenant, types))]
    BY <2>1 DEF IsGrown
  <2> QED BY <2>2 DEF Grown, IsGrown
<1>2. IsLevels(Levels(tenant, root, dir, types, n), n, tenant, root, dir, types)
  <2>1. \E f : IsLevels(f, n, tenant, root, dir, types)
    BY LevelsExist
  <2>2. \E f : f = [d \in 0..n |-> IF d = 0 THEN [x \in {root} |-> 0]
                                   ELSE Further(f[d - 1], d, tenant, dir, types)]
    BY <2>1 DEF IsLevels
  <2> QED BY <2>2 DEF Levels, IsLevels
<1>3. IsWalk(Walked(tenant, root, dir, types, n), n, tenant, root, dir, types)
  <2>1. \E f : IsWalk(f, n, tenant, root, dir, types)
    BY WalkExists
  <2>2. \E f : f = [d \in 0..n |-> IF d = 0
                                   THEN [visited |-> {root}, frontier |-> {x \in {root} : Owned(tenant, x)},
                                         reported |-> {}]
                                   ELSE Wider(f[d - 1], tenant, dir, types)]
    BY <2>1 DEF IsWalk, Start
  <2> QED BY <2>2 DEF Walked, IsWalk, Start
<1> QED BY <1>1, <1>2, <1>3

-----------------------------------------------------------------------------
(* The labels of the breadth-first search.                                 *)

Beyond(step, n) == {q[2] : q \in {p \in step : p[1] = n}}

Labelled(L, d, step, root) ==
  /\ L = [n \in DOMAIN L |-> L[n]]
  /\ root \in DOMAIN L /\ L[root] = 0
  /\ \A n \in DOMAIN L : L[n] \in 0..d
  /\ \A n \in DOMAIN L : L[n] < d =>
       \A k \in Beyond(step, n) : k \in DOMAIN L /\ L[k] <= L[n] + 1
  /\ \A n \in DOMAIN L \ {root} : \E u \in DOMAIN L : L[n] = L[u] + 1 /\ n \in Beyond(step, u)

LEMMA StepsOfTenant ==
  ASSUME NEW tenant, NEW n, NEW dir, NEW types
  PROVE  NeighborsTenant(tenant, n, dir, types) = Beyond(NeighborUnion(dir, tenant, types), n)
  BY DEF NeighborsTenant, Beyond

LEMMA RootLabelled ==
  ASSUME NEW root, NEW step
  PROVE  Labelled([n \in {root} |-> 0], 0, step, root)
  BY DEF Labelled

LEMMA FurtherLabelled ==
  ASSUME NEW L, NEW d \in Nat, NEW tenant, NEW root, NEW dir, NEW types,
         Labelled(L, d, NeighborUnion(dir, tenant, types), root)
  PROVE  Labelled(Further(L, d + 1, tenant, dir, types), d + 1, NeighborUnion(dir, tenant, types), root)
<1> DEFINE step == NeighborUnion(dir, tenant, types)
           frontier == {n \in DOMAIN L : L[n] = d}
           next == UNION {Beyond(step, n) : n \in frontier}
           M == [n \in DOMAIN L \cup next |-> IF n \in DOMAIN L THEN L[n] ELSE d + 1]
<1>1. Further(L, d + 1, tenant, dir, types) = M
  BY StepsOfTenant DEF Further
<1>2. /\ L = [n \in DOMAIN L |-> L[n]]
      /\ root \in DOMAIN L /\ L[root] = 0
      /\ \A n \in DOMAIN L : L[n] \in 0..d
  BY DEF Labelled
<1>3. \A n \in DOMAIN L : L[n] < d => \A k \in Beyond(step, n) : k \in DOMAIN L /\ L[k] <= L[n] + 1
  BY DEF Labelled
<1>4. \A n \in DOMAIN L \ {root} : \E u \in DOMAIN L : L[n] = L[u] + 1 /\ n \in Beyond(step, u)
  BY DEF Labelled
<1> HIDE DEF step
<1>5. /\ DOMAIN M = DOMAIN L \cup next
      /\ \A n \in DOMAIN L : M[n] = L[n]
      /\ \A n \in DOMAIN M : n \notin DOMAIN L => n \in next /\ M[n] = d + 1
  OBVIOUS
<1>6. \A k \in next : \E u \in DOMAIN L : L[u] = d /\ k \in Beyond(step, u)
  OBVIOUS
<1>7. \A u \in DOMAIN L : L[u] = d => Beyond(step, u) \subseteq next
  OBVIOUS
<1>8. M = [n \in DOMAIN M |-> M[n]]
  OBVIOUS
<1> HIDE DEF M, next, frontier
<1>9. \A n \in DOMAIN M : M[n] \in 0..(d + 1)
  BY <1>2, <1>5
<1>10. ASSUME NEW n \in DOMAIN M, M[n] < d + 1, NEW k \in Beyond(step, n)
       PROVE  k \in DOMAIN M /\ M[k] <= M[n] + 1
  <2>1. n \in DOMAIN L /\ M[n] = L[n] /\ L[n] \in 0..d
    BY <1>2, <1>5, <1>10
  <2>2. CASE L[n] < d
    BY <2>1, <2>2, <1>3, <1>5, <1>10
  <2>3. CASE L[n] = d
    <3>1. k \in next
      BY <2>1, <2>3, <1>7, <1>10
    <3>2. k \in DOMAIN M
      BY <3>1, <1>5
    <3>3. M[k] \in 0..(d + 1)
      BY <3>2, <1>9
    <3> QED BY <3>2, <3>3, <2>1, <2>3
  <2> QED BY <2>1, <2>2, <2>3
<1>11. ASSUME NEW n \in DOMAIN M \ {root}
       PROVE  \E u \in DOMAIN M : M[n] = M[u] + 1 /\ n \in Beyond(step, u)
  <2>1. CASE n \in DOMAIN L
    <3>1. PICK u \in DOMAIN L : L[n] = L[u] + 1 /\ n \in Beyond(step, u)
      BY <2>1, <1>4, <1>11
    <3> QED BY <3>1, <2>1, <1>5
  <2>2. CASE n \notin DOMAIN L
    <3>1. n \in next /\ M[n] = d + 1
      BY <2>2, <1>5, <1>11
    <3>2. PICK u \in DOMAIN L : L[u] = d /\ n \in Beyond(step, u)
      BY <3>1, <1>6
    <3> QED BY <3>1, <3>2, <1>5
  <2> QED BY <2>1, <2>2
<1>12. root \in DOMAIN M /\ M[root] = 0
  BY <1>2, <1>5
<1>13. Labelled(M, d + 1, step, root)
  BY <1>8, <1>9, <1>10, <1>11, <1>12 DEF Labelled
<1> QED BY <1>1, <1>13 DEF step

LEMMA DepthsLabelled ==
  ASSUME NEW n \in Nat, NEW tenant, NEW root, NEW dir, NEW types
  PROVE  Labelled(ExpandDepths(tenant, root, dir, types, n), n, NeighborUnion(dir, tenant, types), root)
<1> DEFINE f == Levels(tenant, root, dir, types, n)
           step == NeighborUnion(dir, tenant, types)
           S == {d \in Nat : d \in 0..n => Labelled(f[d], d, step, root)}
<1>0. IsLevels(f, n, tenant, root, dir, types)
  BY TraversalsAreRecursive
<1> HIDE DEF f
<1>1. f = [d \in 0..n |-> IF d = 0 THEN [x \in {root} |-> 0] ELSE Further(f[d - 1], d, tenant, dir, types)]
  BY <1>0 DEF IsLevels
<1>2. 0 \in S
  <2>1. f[0] = [x \in {root} |-> 0]
    BY <1>1
  <2> QED BY <2>1, RootLabelled
<1>3. ASSUME NEW d \in Nat, d \in S PROVE d + 1 \in S
  <2>1. SUFFICES ASSUME d + 1 \in 0..n PROVE Labelled(f[d + 1], d + 1, step, root)
    OBVIOUS
  <2>2. d \in 0..n /\ (d + 1) - 1 = d /\ d + 1 # 0
    BY <2>1
  <2>3. f[d + 1] = Further(f[d], d + 1, tenant, dir, types)
    BY <1>1, <2>1, <2>2
  <2>4. Labelled(f[d], d, step, root)
    BY <1>3, <2>2
  <2> QED BY <2>3, <2>4, FurtherLabelled
<1>4. Nat \subseteq S
  <2> HIDE DEF S
  <2> QED BY <1>2, <1>3, LevelInduction
<1>5. Labelled(f[n], n, step, root)
  BY <1>4
<1> QED BY <1>5 DEF f, ExpandDepths

-----------------------------------------------------------------------------
(* The paths of the recursive query.                                       *)

\* What a path of d steps shows of the labels L.
Follows(p, d, L) ==
  /\ p \in Seq(DOMAIN L) /\ Len(p) = d + 1
  /\ L[p[d + 1]] <= d

\* A path along the labels: it repeats no node.
Climbs(p, d, L, n) ==
  /\ p \in Seq(DOMAIN L) /\ Len(p) = d + 1 /\ p[d + 1] = n
  /\ \A i \in 1..(d + 1) : L[p[i]] = i - 1

LEMMA OnwardFollows ==
  ASSUME NEW L, NEW n \in Nat, NEW step, NEW root, Labelled(L, n, step, root),
         NEW d \in Nat, d < n, NEW P, \A p \in P : Follows(p, d, L),
         NEW r \in Onward(P, step)
  PROVE  Follows(r, d + 1, L)
<1>1. PICK p \in P, q \in step :
        r = Append(p, q[2]) /\ q[1] = Last(p) /\ q[2] \notin ToSet(p)
  BY DEF Onward
<1>2. p \in Seq(DOMAIN L) /\ Len(p) = d + 1 /\ L[p[d + 1]] <= d
  BY DEF Follows
<1>3. p[d + 1] \in DOMAIN L
  BY <1>2, ElementOfSeq
<1>4. q[1] = p[d + 1]
  BY <1>1, <1>2 DEF Last
<1>5. q[2] \in Beyond(step, p[d + 1])
  BY <1>4 DEF Beyond
<1>6. L[p[d + 1]] \in 0..n
  BY <1>3 DEF Labelled
<1>7. L[p[d + 1]] < n
  BY <1>2, <1>6
<1>8. q[2] \in DOMAIN L /\ L[q[2]] <= L[p[d + 1]] + 1
  BY <1>3, <1>5, <1>7 DEF Labelled
<1>9. L[q[2]] \in 0..n
  BY <1>8 DEF Labelled
<1>10. r \in Seq(DOMAIN L) /\ Len(r) = (d + 1) + 1 /\ r[(d + 1) + 1] = q[2]
  BY <1>1, <1>2, <1>8, AppendProperties
<1> QED BY <1>2, <1>6, <1>8, <1>9, <1>10 DEF Follows

LEMMA PathsFollow ==
  ASSUME NEW L, NEW n \in Nat, NEW step, NEW root, Labelled(L, n, step, root),
         NEW g, IsGrown(g, n, {<<root>>}, step), NEW d \in 0..n, NEW p \in g[d]
  PROVE  Follows(p, d, L)
<1> DEFINE S == {k \in Nat : k \in 0..n => \A r \in g[k] : Follows(r, k, L)}
<1>1. 0 \in S
  <2>1. g[0] = {<<root>>}
    BY DEF IsGrown
  <2>2. root \in DOMAIN L /\ L[root] = 0
    BY DEF Labelled
  <2>3. <<root>> \in Seq(DOMAIN L) /\ Len(<<root>>) = 1 /\ <<root>>[1] = root
    BY <2>2
  <2>4. Follows(<<root>>, 0, L)
    BY <2>2, <2>3 DEF Follows
  <2> QED BY <2>1, <2>4
<1>2. ASSUME NEW k \in Nat, k \in S PROVE k + 1 \in S
  <2>1. SUFFICES ASSUME k + 1 \in 0..n, NEW r \in g[k + 1] PROVE Follows(r, k + 1, L)
    OBVIOUS
  <2>2. k \in 0..n /\ k < n /\ (k + 1) - 1 = k /\ k + 1 # 0
    BY <2>1
  <2>3. g[k + 1] = Onward(g[k], step)
    BY <2>1, <2>2 DEF IsGrown
  <2>4. \A x \in g[k] : Follows(x, k, L)
    BY <1>2, <2>2
  <2> QED BY <2>1, <2>2, <2>3, <2>4, OnwardFollows
<1>3. Nat \subseteq S
  <2> HIDE DEF S
  <2> QED BY <1>1, <1>2, LevelInduction
<1>4. d \in S
  BY <1>3
<1> QED BY <1>4

LEMMA NodesHavePaths ==
  ASSUME NEW L, NEW n \in Nat, NEW step, NEW root, Labelled(L, n, step, root),
         NEW g, IsGrown(g, n, {<<root>>}, step), NEW x \in DOMAIN L
  PROVE  \E p \in g[L[x]] : Climbs(p, L[x], L, x)
<1> DEFINE S == {d \in Nat : d \in 0..n =>
                   \A y \in DOMAIN L : L[y] = d => \E p \in g[d] : Climbs(p, d, L, y)}
<1>1. \A y \in DOMAIN L : L[y] \in 0..n
  BY DEF Labelled
<1>2. \A y \in DOMAIN L \ {root} : \E u \in DOMAIN L : L[y] = L[u] + 1 /\ y \in Beyond(step, u)
  BY DEF Labelled
<1>3. 0 \in S
  <2>1. g[0] = {<<root>>}
    BY DEF IsGrown
  <2>2. root \in DOMAIN L /\ L[root] = 0
    BY DEF Labelled
  <2>3. <<root>> \in Seq(DOMAIN L) /\ Len(<<root>>) = 1 /\ <<root>>[1] = root
    BY <2>2
  <2>4. Climbs(<<root>>, 0, L, root)
    BY <2>2, <2>3 DEF Climbs
  <2>5. \A y \in DOMAIN L : L[y] = 0 => y = root
    BY <1>1, <1>2
  <2> QED BY <2>1, <2>4, <2>5
<1>4. ASSUME NEW d \in Nat, d \in S PROVE d + 1 \in S
  <2>1. SUFFICES ASSUME d + 1 \in 0..n, NEW y \in DOMAIN L, L[y] = d + 1
                 PROVE  \E p \in g[d + 1] : Climbs(p, d + 1, L, y)
    OBVIOUS
  <2>2. d \in 0..n /\ (d + 1) - 1 = d /\ d + 1 # 0
    BY <2>1
  <2>3. g[d + 1] = Onward(g[d], step)
    BY <2>1, <2>2 DEF IsGrown
  <2>4. y # root
    BY <2>1 DEF Labelled
  <2>5. PICK u \in DOMAIN L : L[y] = L[u] + 1 /\ y \in Beyond(step, u)
    BY <1>2, <2>4
  <2>6. L[u] = d
    BY <1>1, <2>1, <2>5
  <2>7. PICK p \in g[d] : Climbs(p, d, L, u)
    BY <1>4, <2>2, <2>6
  <2>8. /\ p \in Seq(DOMAIN L) /\ Len(p) = d + 1 /\ p[d + 1] = u
        /\ \A i \in 1..(d + 1) : L[p[i]] = i - 1
    BY <2>7 DEF Climbs
  <2>9. PICK q \in step : q[1] = u /\ q[2] = y
    BY <2>5 DEF Beyond
  <2>10. y \notin ToSet(p)
    BY <2>1, <2>8 DEF ToSet
  <2>11. Last(p) = u
    BY <2>8 DEF Last
  <2>12. Append(p, y) \in Onward(g[d], step)
    BY <2>9, <2>10, <2>11 DEF Onward
  <2>13. /\ Append(p, y) \in Seq(DOMAIN L) /\ Len(Append(p, y)) = (d + 1) + 1
         /\ Append(p, y)[(d + 1) + 1] = y
         /\ \A i \in 1..(d + 1) : Append(p, y)[i] = p[i]
    BY <2>8, AppendProperties
  <2>14. \A i \in 1..((d + 1) + 1) : L[Append(p, y)[i]] = i - 1
    BY <2>1, <2>8, <2>13
  <2>15. Climbs(Append(p, y), d + 1, L, y)
    BY <2>13, <2>14 DEF Climbs
  <2> QED BY <2>3, <2>12, <2>15
<1>5. Nat \subseteq S
  <2> HIDE DEF S
  <2> QED BY <1>3, <1>4, LevelInduction
<1>6. L[x] \in S /\ L[x] \in 0..n
  BY <1>1, <1>5
<1> QED BY <1>6

\* The recursive query and the labels tell the same depths.
LEMMA QueryIsLabels ==
  ASSUME NEW n \in Nat, NEW tenant, NEW root, NEW dir, NEW types, NEW most \in Nat,
         Cardinality(DOMAIN ExpandDepths(tenant, root, dir, types, n)) \in Nat,
         Cardinality(DOMAIN ExpandDepths(tenant, root, dir, types, n)) <= most
  PROVE  LET x == ExpandWithCTE(tenant, root, dir, types, n, most)
         IN ~x.budget /\ x.depth = ExpandDepths(tenant, root, dir, types, n)
<1> DEFINE L == ExpandDepths(tenant, root, dir, types, n)
           step == NeighborUnion(dir, tenant, types)
           g == Grown(tenant, root, dir, types, n)
           P == UNION {g[d] : d \in 0..n}
           Lengths(y) == {-Len(p) : p \in {q \in P : Last(q) = y}}
<1>1. Labelled(L, n, step, root)
  BY DepthsLabelled
<1>2. IsGrown(g, n, {<<root>>}, step)
  BY TraversalsAreRecursive
<1>3. P = Paths(tenant, root, dir, types, n)
  BY DEF Paths
<1> HIDE DEF L, step, g
<1>4. \A d \in 0..n : \A p \in g[d] : Follows(p, d, L)
  BY <1>1, <1>2, PathsFollow
<1>5. \A y \in DOMAIN L : \E p \in g[L[y]] : Climbs(p, L[y], L, y)
  BY <1>1, <1>2, NodesHavePaths
<1>6. \A y \in DOMAIN L : L[y] \in 0..n
  BY <1>1 DEF Labelled
<1>7. ASSUME NEW p \in P
      PROVE  Last(p) \in DOMAIN L /\ Len(p) \in Nat /\ L[Last(p)] + 1 <= Len(p)
  <2>1. PICK d \in 0..n : p \in g[d]
    BY <1>7
  <2>2. p \in Seq(DOMAIN L) /\ Len(p) = d + 1 /\ L[p[d + 1]] <= d
    BY <2>1, <1>4 DEF Follows
  <2>3. p[d + 1] \in DOMAIN L
    BY <2>2, ElementOfSeq
  <2>4. Last(p) = p[d + 1]
    BY <2>2 DEF Last
  <2> QED BY <2>2, <2>3, <2>4, <1>6
<1>8. ASSUME NEW y \in DOMAIN L
      PROVE  \E p \in P : Last(p) = y /\ Len(p) = L[y] + 1
  <2>1. PICK p \in g[L[y]] : Climbs(p, L[y], L, y)
    BY <1>5
  <2>2. p \in P
    BY <2>1, <1>6
  <2>3. Len(p) = L[y] + 1 /\ p[L[y] + 1] = y
    BY <2>1 DEF Climbs
  <2>4. Last(p) = y
    BY <2>3 DEF Last
  <2> QED BY <2>2, <2>3, <2>4
<1> HIDE DEF P
<1>9. {Last(p) : p \in P} = DOMAIN L
  BY <1>7, <1>8
<1>10. ASSUME NEW y \in DOMAIN L PROVE Newest(Lengths(y)) = -(L[y] + 1)
  <2>1. \A w \in Lengths(y) : w \in Int /\ w <= -(L[y] + 1)
    <3> SUFFICES ASSUME NEW p \in P, Last(p) = y PROVE -Len(p) \in Int /\ -Len(p) <= -(L[y] + 1)
      OBVIOUS
    <3>1. Len(p) \in Nat /\ L[y] + 1 <= Len(p) /\ L[y] \in Nat
      BY <1>6, <1>7
    <3> QED BY <3>1
  <2>2. -(L[y] + 1) \in Lengths(y)
    BY <1>8
  <2>3. -(L[y] + 1) \in Int
    BY <1>6
  <2> HIDE DEF Lengths
  <2>4. \A v \in Lengths(y) : (\A w \in Lengths(y) : w <= v) => v = -(L[y] + 1)
    BY <2>1, <2>2, <2>3
  <2> QED BY <2>1, <2>2, <2>4 DEF Newest
<1>11. [y \in DOMAIN L |-> -Newest(Lengths(y)) - 1] = L
  <2>1. \A y \in DOMAIN L : -Newest(Lengths(y)) - 1 = L[y]
    <3> TAKE y \in DOMAIN L
    <3>1. L[y] \in Int /\ Newest(Lengths(y)) = -(L[y] + 1)
      BY <1>6, <1>10
    <3> HIDE DEF Lengths
    <3> QED BY <3>1
  <2>2. L = [y \in DOMAIN L |-> L[y]]
    BY <1>1 DEF Labelled
  <2> HIDE DEF Lengths
  <2> QED BY <2>1, <2>2
<1>12. ~(Cardinality(DOMAIN L) > most)
  BY DEF L
<1>13. ExpandWithCTE(tenant, root, dir, types, n, most) =
         [budget |-> FALSE, depth |-> [y \in DOMAIN L |-> -Newest(Lengths(y)) - 1]]
  BY <1>3, <1>9, <1>12 DEF ExpandWithCTE
<1> QED BY <1>11, <1>13 DEF L

-----------------------------------------------------------------------------
(* The graph of a tenant.                                                  *)

\* What the reads know of the rows: of edges, that they are of one tenant.
GraphOK == edge \in SUBSET Edges /\ relation \in SUBSET Mirrors /\ EdgesAtHome

LEMMA StepsStayHome ==
  ASSUME GraphOK, NEW tenant, NEW dir \in {"FROM", "TO"}, NEW types, NEW n,
         NEW k \in Beyond(NeighborUnion(dir, tenant, types), n)
  PROVE  k \in Entities /\ Home[k] = tenant
<1>1. \A x \in edge : /\ x.from \in Entities /\ x.to \in Entities
                      /\ Home[x.from] = x.tenant /\ Home[x.to] = x.tenant
  BY DEF GraphOK, EdgesAtHome, AtHome, Edges
<1>2. \A m \in relation : m.from \in Entities /\ m.to \in Entities
  BY DEF GraphOK, Mirrors
<1>3. CASE dir = "FROM"
  BY <1>1, <1>2, <1>3 DEF Beyond, NeighborUnion
<1>4. CASE dir = "TO"
  BY <1>1, <1>2, <1>4 DEF Beyond, NeighborUnion
<1> QED BY <1>3, <1>4

\* The steps as the rows have them; those of "TO" are turned.
Ahead(dir, tenant, types) ==
  LET E == {x \in edge : x.tenant = tenant /\ x.type \in types}
      far(m) == IF dir = "FROM" THEN m.to ELSE m.from
      legacy == {m \in relation : /\ m.type \in types
                                  /\ entity[far(m)] # None /\ Home[far(m)] = tenant
                                  /\ ~\E x \in edge : x.tenant = tenant /\ MirrorOf(x) = m}
  IN {<<x.from, x.to>> : x \in E}
     \cup {<<x.to, x.from>> : x \in {y \in E : y.dir = "BIDIRECTIONAL"}}
     \cup {<<m.from, m.to>> : m \in legacy}

LEMMA TurnedSteps ==
  ASSUME NEW tenant, NEW types, NEW a, NEW b, <<a, b>> \in Ahead("TO", tenant, types)
  PROVE  <<b, a>> \in NeighborUnion("TO", tenant, types)
<1> DEFINE A == Ahead("TO", tenant, types)
<1>1. NeighborUnion("TO", tenant, types) = {<<p[2], p[1]>> : p \in A}
  BY DEF NeighborUnion, Ahead
<1> HIDE DEF A
<1>2. <<a, b>> \in A
  BY DEF A
<1> QED BY <1>1, <1>2

\* A mirror to an entity of the tenant leads there, by itself or by its edge.
LEMMA MirrorsLead ==
  ASSUME GraphOK, NEW m \in relation, NEW types, m.type \in types
  PROVE  /\ entity[m.to] # None => m.to \in Beyond(NeighborUnion("FROM", Home[m.to], types), m.from)
         /\ entity[m.from] # None => m.from \in Beyond(NeighborUnion("TO", Home[m.from], types), m.to)
<1>1. \A x \in edge : MirrorOf(x) = m => x.from = m.from /\ x.to = m.to /\ x.type = m.type
  BY DEF MirrorOf
<1>2. entity[m.to] # None => <<m.from, m.to>> \in NeighborUnion("FROM", Home[m.to], types)
  <2> SUFFICES ASSUME entity[m.to] # None PROVE <<m.from, m.to>> \in NeighborUnion("FROM", Home[m.to], types)
    OBVIOUS
  <2>1. CASE \E x \in edge : x.tenant = Home[m.to] /\ MirrorOf(x) = m
    BY <2>1, <1>1 DEF NeighborUnion
  <2>2. CASE ~\E x \in edge : x.tenant = Home[m.to] /\ MirrorOf(x) = m
    BY <2>2 DEF NeighborUnion
  <2> QED BY <2>1, <2>2
<1>3. entity[m.from] # None => <<m.to, m.from>> \in NeighborUnion("TO", Home[m.from], types)
  <2> SUFFICES ASSUME entity[m.from] # None PROVE <<m.from, m.to>> \in Ahead("TO", Home[m.from], types)
    BY TurnedSteps
  <2>1. CASE \E x \in edge : x.tenant = Home[m.from] /\ MirrorOf(x) = m
    BY <2>1, <1>1 DEF Ahead
  <2>2. CASE ~\E x \in edge : x.tenant = Home[m.from] /\ MirrorOf(x) = m
    BY <2>2 DEF Ahead
  <2> QED BY <2>1, <2>2
<1> QED BY <1>2, <1>3 DEF Beyond

LEMMA EdgesLead ==
  ASSUME GraphOK, NEW dir \in {"FROM", "TO"}, NEW types, NEW n, NEW k \in NeighborsFromTopology(n, dir, types)
  PROVE  k \in Beyond(NeighborUnion(dir, Home[n], types), n)
<1>1. \A x \in edge : Home[x.from] = x.tenant /\ Home[x.to] = x.tenant
  BY DEF GraphOK, EdgesAtHome, AtHome
<1>2. <<n, k>> \in NeighborUnion(dir, Home[n], types)
  <2>1. CASE dir = "FROM"
    <3>1. \E x \in edge : /\ x.type \in types
                          /\ \/ x.from = n /\ x.to = k
                             \/ x.to = n /\ x.from = k /\ x.dir = "BIDIRECTIONAL"
      BY <2>1 DEF NeighborsFromTopology
    <3> QED BY <3>1, <2>1, <1>1 DEF NeighborUnion
  <2>2. CASE dir = "TO"
    <3>1. \E x \in edge : /\ x.type \in types
                          /\ \/ x.to = n /\ x.from = k
                             \/ x.from = n /\ x.to = k /\ x.dir = "BIDIRECTIONAL"
      BY <2>2 DEF NeighborsFromTopology
    <3>2. <<k, n>> \in Ahead("TO", Home[n], types)
      BY <3>1, <1>1 DEF Ahead
    <3> QED BY <3>2, <2>2, TurnedSteps
  <2> QED BY <2>1, <2>2
<1> QED BY <1>2 DEF Beyond

\* Between entities of the tenant, the neighbours the dashboards' walk reads
\* without a tenant are neighbours in the tenant's graph.
LEMMA WalkStaysInGraph ==
  ASSUME GraphOK, NEW tenant, NEW dir \in {"FROM", "TO"}, NEW types, NEW n, NEW k \in Neighbors(n, dir, types),
         Owned(tenant, n), Owned(tenant, k)
  PROVE  k \in Beyond(NeighborUnion(dir, tenant, types), n)
<1>1. Home[n] = tenant /\ Home[k] = tenant /\ entity[k] # None
  BY DEF Owned
<1>2. CASE k \in NeighborsFromTopology(n, dir, types)
  BY <1>1, <1>2, EdgesLead
<1>3. CASE k \in NeighborsFromLegacyRelation(n, dir, types)
  <2>1. CASE dir = "FROM"
    <3>1. PICK m \in relation : m.to = k /\ m.from = n /\ m.type \in types
      BY <1>3, <2>1 DEF NeighborsFromLegacyRelation
    <3> QED BY <3>1, <2>1, <1>1, MirrorsLead
  <2>2. CASE dir = "TO"
    <3>1. PICK m \in relation : m.from = k /\ m.to = n /\ m.type \in types
      BY <1>3, <2>2 DEF NeighborsFromLegacyRelation
    <3> QED BY <3>1, <2>2, <1>1, MirrorsLead
  <2> QED BY <2>1, <2>2
<1> QED BY <1>2, <1>3 DEF Neighbors

\* What the walk has after d levels, by the labels L of the tenant's graph.
Strolls(w, d, L, tenant, root) ==
  /\ root \in w.visited
  /\ \A n \in w.frontier : Owned(tenant, n) /\ n \in DOMAIN L /\ L[n] <= d
  /\ \A n \in w.reported : Owned(tenant, n) /\ n \in DOMAIN L /\ n # root
  /\ Owned(tenant, root) \/ (w.frontier = {} /\ w.reported = {})

LEMMA WiderStrolls ==
  ASSUME GraphOK, NEW tenant, NEW root, NEW dir \in {"FROM", "TO"}, NEW types, NEW n \in Nat, NEW L,
         Labelled(L, n, NeighborUnion(dir, tenant, types), root),
         NEW d \in Nat, d < n, NEW w, Strolls(w, d, L, tenant, root)
  PROVE  Strolls(Wider(w, tenant, dir, types), d + 1, L, tenant, root)
<1> DEFINE step == NeighborUnion(dir, tenant, types)
           met == (UNION {Neighbors(x, dir, types) : x \in w.frontier}) \ w.visited
           own == {x \in met : Owned(tenant, x)}
           v == Wider(w, tenant, dir, types)
<1>1. v.visited = w.visited \cup met /\ v.frontier = own /\ v.reported = w.reported \cup own
  BY DEF Wider
<1>2. /\ root \in w.visited
      /\ \A x \in w.frontier : Owned(tenant, x) /\ x \in DOMAIN L /\ L[x] <= d
      /\ \A x \in w.reported : Owned(tenant, x) /\ x \in DOMAIN L /\ x # root
      /\ Owned(tenant, root) \/ (w.frontier = {} /\ w.reported = {})
  BY DEF Strolls
<1>3. ASSUME NEW k \in own
      PROVE  Owned(tenant, k) /\ k \in DOMAIN L /\ L[k] <= d + 1 /\ k # root
  <2>0. k \in met /\ k \notin w.visited /\ Owned(tenant, k)
    OBVIOUS
  <2>1. Owned(tenant, k) /\ k # root
    BY <2>0, <1>2
  <2>2. PICK x \in w.frontier : k \in Neighbors(x, dir, types)
    OBVIOUS
  <2> HIDE DEF own, met, step
  <2>3. Owned(tenant, x) /\ x \in DOMAIN L /\ L[x] <= d
    BY <1>2
  <2>4. k \in Beyond(step, x)
    BY <2>1, <2>2, <2>3, WalkStaysInGraph DEF step
  <2>5. L[x] \in 0..n
    BY <2>3 DEF Labelled, step
  <2>6. L[x] < n
    BY <2>3, <2>5
  <2>7. k \in DOMAIN L /\ L[k] <= L[x] + 1
    BY <2>3, <2>4, <2>6 DEF Labelled, step
  <2>8. L[k] \in 0..n
    BY <2>7 DEF Labelled, step
  <2>9. L[k] <= d + 1
    BY <2>3, <2>5, <2>7, <2>8
  <2> QED BY <2>1, <2>7, <2>9
<1>4. w.frontier = {} => own = {}
  OBVIOUS
<1> HIDE DEF v, own, met, step
<1>5. root \in v.visited
  BY <1>1, <1>2
<1>6. \A x \in v.frontier : Owned(tenant, x) /\ x \in DOMAIN L /\ L[x] <= d + 1
  BY <1>1, <1>3
<1>7. \A x \in v.reported : Owned(tenant, x) /\ x \in DOMAIN L /\ x # root
  BY <1>1, <1>2, <1>3
<1>8. Owned(tenant, root) \/ (v.frontier = {} /\ v.reported = {})
  BY <1>1, <1>2, <1>4
<1>9. Strolls(v, d + 1, L, tenant, root)
  BY <1>5, <1>6, <1>7, <1>8 DEF Strolls
<1> QED BY <1>9 DEF v

\* The dashboards' walk reports nothing the entity query does not.
LEMMA WalkWithinQuery ==
  ASSUME GraphOK, NEW tenant, NEW root, NEW dir \in {"FROM", "TO"}, NEW types, NEW n \in Nat
  PROVE  WalkRelations(tenant, root, dir, types, n) \subseteq RelationsQuery(tenant, root, dir, types, n)
<1> DEFINE L == ExpandDepths(tenant, root, dir, types, n)
           f == Walked(tenant, root, dir, types, n)
           S == {d \in Nat : d \in 0..n => Strolls(f[d], d, L, tenant, root)}
<1>1. Labelled(L, n, NeighborUnion(dir, tenant, types), root)
  BY DepthsLabelled
<1>2. IsWalk(f, n, tenant, root, dir, types)
  BY TraversalsAreRecursive
<1> HIDE DEF L, f
<1>3. 0 \in S
  <2>1. f[0] = Start(tenant, root)
    BY <1>2 DEF IsWalk
  <2>2. root \in DOMAIN L /\ L[root] = 0
    BY <1>1 DEF Labelled
  <2>3. Strolls(Start(tenant, root), 0, L, tenant, root)
    BY <2>2 DEF Strolls, Start
  <2> QED BY <2>1, <2>3
<1>4. ASSUME NEW d \in Nat, d \in S PROVE d + 1 \in S
  <2>1. SUFFICES ASSUME d + 1 \in 0..n PROVE Strolls(f[d + 1], d + 1, L, tenant, root)
    OBVIOUS
  <2>2. d \in 0..n /\ d < n /\ (d + 1) - 1 = d /\ d + 1 # 0
    BY <2>1
  <2>3. f[d + 1] = Wider(f[d], tenant, dir, types)
    BY <1>2, <2>1, <2>2 DEF IsWalk
  <2>4. Strolls(f[d], d, L, tenant, root)
    BY <1>4, <2>2
  <2> QED BY <1>1, <2>2, <2>3, <2>4, WiderStrolls
<1>5. Nat \subseteq S
  <2> HIDE DEF S
  <2> QED BY <1>3, <1>4, LevelInduction
<1>6. Strolls(f[n], n, L, tenant, root)
  BY <1>5
<1>7. /\ \A x \in f[n].reported : Owned(tenant, x) /\ x \in DOMAIN L /\ x # root
      /\ Owned(tenant, root) \/ f[n].reported = {}
  BY <1>6 DEF Strolls
<1>8. WalkRelations(tenant, root, dir, types, n) = f[n].reported
  BY DEF WalkRelations, f
<1>9. RelationsQuery(tenant, root, dir, types, n) =
        IF ~Owned(tenant, root) THEN {} ELSE {x \in DOMAIN L \ {root} : Owned(tenant, x)}
  BY DEF RelationsQuery, L
<1> QED BY <1>7, <1>8, <1>9

OfTenant(tenant) == {e \in Entities : Home[e] = tenant}

LEMMA LabelsStayHome ==
  ASSUME GraphOK, NEW root \in Entities, NEW dir \in {"FROM", "TO"}, NEW types, NEW n \in Nat
  PROVE  LET L == ExpandDepths(Home[root], root, dir, types, n)
         IN /\ DOMAIN L \subseteq OfTenant(Home[root])
            /\ Cardinality(DOMAIN L) \in Nat /\ Cardinality(DOMAIN L) <= Cardinality(Entities)
<1> DEFINE L == ExpandDepths(Home[root], root, dir, types, n)
           step == NeighborUnion(dir, Home[root], types)
<1>1. Labelled(L, n, step, root)
  BY DepthsLabelled
<1>2. \A u : \A x \in Beyond(step, u) : x \in Entities /\ Home[x] = Home[root]
  BY StepsStayHome
<1> HIDE DEF L, step
<1>3. \A x \in DOMAIN L \ {root} : \E u \in DOMAIN L : x \in Beyond(step, u)
  BY <1>1 DEF Labelled
<1>4. \A x \in DOMAIN L : x \in Entities /\ Home[x] = Home[root]
  BY <1>2, <1>3
<1>5. IsFiniteSet(Entities) /\ DOMAIN L \subseteq Entities
  BY <1>4, TopologyAssumption
<1>6. Cardinality(DOMAIN L) \in Nat /\ Cardinality(DOMAIN L) <= Cardinality(Entities)
  BY <1>5, FS_Subset, FS_CardinalityType
<1>7. DOMAIN L \subseteq OfTenant(Home[root])
  BY <1>4 DEF OfTenant
<1> QED BY <1>6, <1>7 DEF L

\* The traversals agree on every graph whose edges stay with a tenant.
LEMMA GraphIsRead == GraphOK => TraversalsAgree
<1>1. SUFFICES ASSUME GraphOK PROVE TraversalsAgree
  OBVIOUS
<1> USE <1>1
<1>2. Cardinality(Entities) \in Nat
  BY TopologyAssumption, FS_CardinalityType
<1>3. ASSUME NEW root \in Entities, NEW dir \in {"FROM", "TO"},
             NEW n \in DOMAIN ExpandDepths(Home[root], root, dir, RelTypes, Cardinality(Entities))
      PROVE  Home[n] = Home[root]
  <2>1. DOMAIN ExpandDepths(Home[root], root, dir, RelTypes, Cardinality(Entities)) \subseteq OfTenant(Home[root])
    BY <1>2, LabelsStayHome
  <2> QED BY <1>3, <2>1 DEF OfTenant
<1>4. ASSUME NEW root \in Entities, NEW dir \in {"FROM", "TO"}, NEW depth \in Depths
      PROVE  LET x == ExpandWithCTE(Home[root], root, dir, RelTypes, depth, Cardinality(Entities))
                 labels == ExpandDepths(Home[root], root, dir, RelTypes, depth)
             IN /\ ~x.budget /\ x.depth = labels
                /\ WalkRelations(Home[root], root, dir, RelTypes, depth)
                     \subseteq RelationsQuery(Home[root], root, dir, RelTypes, depth)
  <2>1. depth \in Nat
    BY TopologyAssumption
  <2>2. /\ Cardinality(DOMAIN ExpandDepths(Home[root], root, dir, RelTypes, depth)) \in Nat
        /\ Cardinality(DOMAIN ExpandDepths(Home[root], root, dir, RelTypes, depth)) <= Cardinality(Entities)
    BY <2>1, LabelsStayHome
  <2>3. LET x == ExpandWithCTE(Home[root], root, dir, RelTypes, depth, Cardinality(Entities))
        IN ~x.budget /\ x.depth = ExpandDepths(Home[root], root, dir, RelTypes, depth)
    BY <1>2, <2>1, <2>2, QueryIsLabels
  <2>4. WalkRelations(Home[root], root, dir, RelTypes, depth)
          \subseteq RelationsQuery(Home[root], root, dir, RelTypes, depth)
    BY <2>1, WalkWithinQuery
  <2> QED BY <2>3, <2>4
<1>5. ASSUME NEW m \in relation, entity[m.to] # None
      PROVE  m.to \in NeighborsTenant(Home[m.to], m.from, "FROM", RelTypes)
  <2>1. m.type \in RelTypes
    BY DEF GraphOK, Mirrors
  <2>2. m.to \in Beyond(NeighborUnion("FROM", Home[m.to], RelTypes), m.from)
    BY <1>5, <2>1, MirrorsLead
  <2> QED BY <2>2, StepsOfTenant
<1>6. \A m \in relation :
        entity[m.to] # None => m.to \in NeighborsTenant(Home[m.to], m.from, "FROM", RelTypes)
  BY <1>5
<1>7. \A root \in Entities, dir \in {"FROM", "TO"} :
        \A n \in DOMAIN ExpandDepths(Home[root], root, dir, RelTypes, Cardinality(Entities)) :
          Home[n] = Home[root]
  BY <1>3
<1>8. \A root \in Entities, dir \in {"FROM", "TO"} :
        \A depth \in Depths :
          LET x == ExpandWithCTE(Home[root], root, dir, RelTypes, depth, Cardinality(Entities))
              labels == ExpandDepths(Home[root], root, dir, RelTypes, depth)
          IN /\ ~x.budget /\ x.depth = labels
             /\ WalkRelations(Home[root], root, dir, RelTypes, depth)
                  \subseteq RelationsQuery(Home[root], root, dir, RelTypes, depth)
  BY <1>4, Zenon
<1> QED BY <1>6, <1>7, <1>8, Zenon DEF TraversalsAgree

\* Reads of the graph (ExpandWithCTE and neighborUnionSQL of internal/topology,
\* expandDepths of internal/twin, walkRelationsQuery of internal/ws, the relations
\* query of internal/entityquery), whatever saves, deletes, boots and catalogue
\* requests have run or are running: they stay in the tenant of the root, the
\* recursive query gives every node the depth the breadth-first labels give it, at
\* every depth and around every cycle, the dashboards' walk reports nothing the
\* entity query does not, and a mirror leads to its end.
THEOREM TraversalsEqual == Spec => []TraversalsAgree
<1>1. TopologyInit => TopologyInv
  BY TopologyInitInv
<1>2. TopologyInv /\ [Next]_vars => TopologyInv'
  BY TopologyStep, TopologyStutter DEF Next, vars
<1>3. TopologyInv => TraversalsAgree
  BY GraphIsRead DEF TopologyInv, Rows, GraphOK
<1>4. QED BY <1>1, <1>2, <1>3, PTL DEF Spec

\* The same of the instance the runs check, in the states it looks at.
THEOREM TraversalsEqualHere == MCSpec => []TraversalsStayEqual
<1> DEFINE Inv == part # "catalog" => TopologyInv
<1>1. MCInit => Inv
  BY TopologyInitInv DEF MCInit
<1>2. Inv /\ [MCNext]_<<vars, part>> => Inv'
  <2> SUFFICES ASSUME Inv, [MCNext]_<<vars, part>>, part' # "catalog" PROVE TopologyInv'
    OBVIOUS
  <2>1. part' = part /\ (TopologyNext \/ UNCHANGED topologyVars)
    BY DEF MCNext, Next, vars
  <2>2. QED BY <2>1, TopologyStep, TopologyStutter
<1>3. Inv => TraversalsStayEqual
  <2>1. TopologyInv => TraversalsAgree
    BY GraphIsRead DEF TopologyInv, Rows, GraphOK
  <2> QED BY <2>1 DEF TraversalsStayEqual
<1>4. QED BY <1>1, <1>2, <1>3, PTL DEF MCSpec
=============================================================================
