----------------------------- MODULE MCTopology -----------------------------
(***************************************************************************)
(* Topology and TwinCatalog, each on a small instance.  A behaviour is one *)
(* of one of them, chosen at the start; of Topology it is one of all that  *)
(* changes what SaveEdge reads, or a longer one of the edges of one pair.  *)
(*                                                                         *)
(* Topology: three assets of one tenant and an asset of another, two       *)
(* models of which only one may declare the relation, and two mirrors from *)
(* before topology_edge, one of which crosses the tenants.                 *)
(*                                                                         *)
(* TwinCatalog by itself, on the same variables: one device and one asset, *)
(* a second tenant that asks for them, one model id with two versions.     *)
(***************************************************************************)
EXTENDS Topology

CONSTANTS a1, a2, a3, b1, d1, t1, t2, r1, s1, s2, m1, m2
CONSTANTS Parts,    \* the parts a behaviour is chosen from: subset of {"edges", "pair", "catalog"}
          MaxMixed  \* bound: transactions beside the changes of what they read

VARIABLE part

MCHome == (a1 :> t1) @@ (a2 :> t1) @@ (a3 :> t1) @@ (b1 :> t2)
MCTypeAtStart == (a1 :> m1) @@ (a2 :> m2) @@ (a3 :> m2) @@ (b1 :> m1)
MCPolicies == {[strict |-> TRUE, closed |-> TRUE]}
Feeds(both) == {[type |-> "Feeds", target |-> {m1, m2}, kinds |-> {"ASSET"}, both |-> both]}
MCDeclarations == {Feeds(TRUE), Feeds(FALSE)}
MCCatalogues == {(m1 :> Feeds(TRUE)) @@ (m2 :> Feeds(FALSE)), (m1 :> Feeds(TRUE)) @@ (m2 :> None)}
MCAllowedFrom == [t \in {"Feeds"} |-> {"DEVICE", "ASSET"}]
MCPairs == {<<a1, a2>>, <<a2, a1>>, <<a2, b1>>}
MCLegacy == {[from |-> a2, to |-> a3, type |-> "Feeds"], [from |-> a1, to |-> b1, type |-> "Feeds"]}

OneHome == (d1 :> t1) @@ (a1 :> t1)
TwoPolicies == {[strict |-> FALSE, closed |-> FALSE], [strict |-> TRUE, closed |-> TRUE]}
OneDevice == {d1}
OneAsset == {a1}
OneModel == {m1}
TwoVersions == {1, 2}
NothingDeclared == {"none"}
Catalog == INSTANCE TwinCatalog
  WITH Devices <- OneDevice, Assets <- OneAsset, Home <- OneHome, ModelIds <- OneModel,
       Versions <- TwoVersions, Policies <- TwoPolicies, Declarations <- NothingDeclared,
       Requests <- Sessions, MaxStarts <- 3

ASSUME CatalogPartAssumption == Catalog!CatalogAssumption

NoEdges == edge = {} /\ relation = {} /\ txn = [s \in Sessions |-> NoTxn] /\ crossed = {} /\ edgeStarts = 0

\* The longer behaviours: edges both ways between the two modelled assets.
Ends(s) == IF txn[s].op = "save" THEN {txn[s].e.from, txn[s].e.to} ELSE {txn[s].e.m.from, txn[s].e.m.to}
OnePair ==
  /\ \A s \in Sessions : txn[s].op # "none" => txn[s].e.tenant = t1 /\ Ends(s) = {a1, a2}
  /\ \A x \in edge : {x.from, x.to} = {a1, a2}
Undeclared == \A k \in Keys : k.id = m2 => model[k] = None

\* The second version of a model asks more of writes than the first; only the
\* entities' tenant has one.
Tightened ==
  \A k \in Catalog!Keys : model[k] # None =>
    (model[k].policy.strict <=> k.version = 2) /\ (k.version = 2 => k.tenant = t1)

MCInit == /\ part \in Parts
          /\ \/ part = "edges" /\ TopologyInit
             \/ part = "pair" /\ TopologyInit /\ Undeclared
             \/ part = "catalog" /\ Catalog!CatalogInit /\ NoEdges

MCNext == /\ \/ part = "edges" /\ Next /\ edgeStarts' <= MaxMixed
             \/ part = "pair" /\ TopologyNext /\ UNCHANGED catalogVars /\ OnePair'
             \/ part = "catalog" /\ Catalog!CatalogNext /\ UNCHANGED topologyVars /\ Tightened'
          /\ UNCHANGED part

MCSpec == MCInit /\ [][MCNext]_<<vars, part>>

Symmetry == Permutations(Sessions)

-----------------------------------------------------------------------------
\* RegistryAgrees of the catalogue by itself, and of the catalogue under Topology:
\* registry rows, pins, versions and entity rows agree, whatever saves, deletes,
\* boots, new versions and re-points interleave.
RegistryStaysRight == IF part = "catalog" THEN Catalog!RegistryAgrees ELSE RegistryAgrees

\* WritesAsPinned of the catalogue by itself: a re-point never pins a version that is
\* deprecated by then, and what is stored is what the pinned model admits, unless
\* another request commits between the validation and the store.
StoredAsPinned == [][part = "catalog" => Catalog!WritesAsPinned]_catalogVars

\* EdgesAreSound of topology_edge and relation: the unique index is never met, no
\* mirror outlives its edge but by deletes that cross, and both orientations of a
\* relation are judged alike.
EdgesStaySound == part # "catalog" => EdgesAreSound

\* TraversalsAgree of the reads: they stay in the tenant and agree with each other.
\* They read committed rows, and whatever is open may roll back, so that the states
\* in which no transaction is open show all that can be read.
TraversalsStayEqual ==
  part = "edges" /\ (\A s \in Sessions : txn[s] = NoTxn) => TraversalsAgree

\* DeletesRemoveMirrors: a mirror no edge stands for is removed with the last edge.
MirrorsAreRemoved == part = "pair" => DeletesRemoveMirrors
=============================================================================
