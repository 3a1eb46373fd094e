------------------------------ MODULE Topology ------------------------------
(***************************************************************************)
(* The topology graph (internal/topology, internal/twin expand.go): edges  *)
(* in topology_edge and their mirrors in ThingsBoard's relation table,     *)
(* saved and deleted by concurrent transactions, checked against the       *)
(* models the two ends are pinned to (TwinCatalog), repaired at boot, and  *)
(* traversed.                                                              *)
(*                                                                         *)
(* A transaction holds its uncommitted inserts and deletes until it        *)
(* commits; another statement that meets one of those rows waits.  The     *)
(* DELETE of a mirror decides from the snapshot it took before it waited:  *)
(* READ COMMITTED re-evaluates the row it waited for, and not the NOT      *)
(* EXISTS over another table.                                              *)
(***************************************************************************)
EXTENDS TwinCatalog, SequencesExt

CONSTANTS
  RelTypes,      \* names of topology_relation_type
  AllowedFrom,   \* [RelTypes -> SUBSET kinds]: allowed_from_types
  AllowedTo,     \* [RelTypes -> SUBSET kinds]: allowed_to_types
  Pairs,         \* the endpoint pairs that requests name
  Legacy,        \* mirrors that predate topology_edge
  TypeAtStart,   \* [Entities -> ModelIds]
  Catalogues,    \* what version 1 of each model may declare at the start, None if absent
  Depths,        \* depths a traversal may ask for
  EnforceMode,   \* TWIN_MODEL_RELATION_ENFORCE: "warn" or "reject"
  Sessions,      \* transactions in flight
  MaxEdgeStarts  \* bound: transactions started

Directions == {"DIRECTED", "BIDIRECTIONAL"}
Mirrors == [from: Entities, to: Entities, type: RelTypes]
Edges == [tenant: Tenants, from: Entities, to: Entities, type: RelTypes, dir: Directions]

ASSUME TopologyAssumption ==
  /\ AllowedFrom \in [RelTypes -> SUBSET {"DEVICE", "ASSET"}]
  /\ AllowedTo \in [RelTypes -> SUBSET {"DEVICE", "ASSET"}]
  /\ Pairs \subseteq Entities \X Entities
  /\ Legacy \subseteq Mirrors /\ IsFiniteSet(Entities)
  /\ TypeAtStart \in [Entities -> ModelIds]
  /\ Depths \subseteq Nat \ {0}
  /\ Catalogues \subseteq [ModelIds -> Declarations \cup {None}]
  /\ 1 \in Versions /\ Policies # {} /\ None \notin Declarations
  /\ EnforceMode \in {"warn", "reject"} /\ MaxEdgeStarts \in Nat

VARIABLES
  edge,        \* SUBSET Edges: committed rows of topology_edge
  relation,    \* SUBSET Mirrors: committed rows of relation
  txn,         \* [Sessions -> record]: the transaction of each session
  crossed,     \* mirrors two deletes of which, one of either orientation, met (history)
  edgeStarts   \* transactions started so far

topologyVars == <<edge, relation, txn, crossed, edgeStarts>>
vars == <<catalogVars, topologyVars>>

NoTxn == [op |-> "none", at |-> "idle", e |-> None, adds |-> {}, dels |-> {},
          mirrors |-> {}, drops |-> {}, todo |-> {}, picked |-> {}]

Move(s, t) == txn' = [txn EXCEPT ![s] = t]

(***************************************************************************)
(* Rows and who holds them.                                                *)
(***************************************************************************)
MirrorOf(e) == [from |-> e.from, to |-> e.to, type |-> e.type]
Reversed(m) == [m EXCEPT !.from = m.to, !.to = m.from]
\* The mirrors one edge is written to: both orientations if bidirectional.
MirrorsOf(e) ==
  {MirrorOf(e)} \cup (IF e.dir = "BIDIRECTIONAL" THEN {Reversed(MirrorOf(e))} ELSE {})

EdgeHeld(s, e) == \E q \in Sessions \ {s} : e \in txn[q].adds \cup txn[q].dels
MirrorHeld(s, m) == \E q \in Sessions \ {s} : m \in txn[q].mirrors \cup txn[q].drops

\* Mutant: the orientation as submitted.
LockKeyAsSubmitted(e) == [tenant |-> e.tenant, type |-> e.type, ends |-> <<e.from, e.to>>]

\* The identity the advisory lock is taken on: both orientations share it.
LockKey(e) == [tenant |-> e.tenant, type |-> e.type, ends |-> {e.from, e.to}]

Locked(s, e) ==
  \E q \in Sessions \ {s} : /\ txn[q].op = "save" /\ txn[q].e.dir = "BIDIRECTIONAL"
                            /\ LockKey(txn[q].e) = LockKey(e)

(***************************************************************************)
(* The checks of SaveEdge.                                                 *)
(***************************************************************************)
RelationTypeAllows(type, from, to) ==
  KindOf(from) \in AllowedFrom[type] /\ KindOf(to) \in AllowedTo[type]

Declares(source, type, target, both) ==
  \E d \in model[KeyOfPin(source)].decl :
    /\ d.type = type
    /\ registry[target].id \in d.target
    /\ KindOf(target) \in d.kinds
    /\ both => d.both

\* Both ends pinned: the source must declare the relation, and for a
\* bidirectional one the target too.  A directed violation only warns unless the
\* mode is "reject"; a broken pin is an error in both.
ModelsAllow(e) ==
  /\ \A x \in {e.from, e.to} : Pinned(x) => PinResolves(x)
  /\ Pinned(e.from) /\ Pinned(e.to) =>
       IF e.dir = "BIDIRECTIONAL"
       THEN Declares(e.from, e.type, e.to, TRUE) /\ Declares(e.to, e.type, e.from, TRUE)
       ELSE EnforceMode = "warn" \/ Declares(e.from, e.type, e.to, FALSE)

\* The tenants of both ends are looked up and compared with the caller's.
SameTenant(e) ==
  \A x \in {e.from, e.to} : entity[x] # None /\ Home[x] = e.tenant

Accepts(e) ==
  /\ RelationTypeAllows(e.type, e.from, e.to)
  /\ e.dir = "BIDIRECTIONAL" => RelationTypeAllows(e.type, e.to, e.from)
  /\ SameTenant(e)
  /\ ModelsAllow(e)

(***************************************************************************)
(* SaveEdge.                                                               *)
(***************************************************************************)
SaveEdge(s, e) ==
  /\ txn[s] = NoTxn /\ edgeStarts < MaxEdgeStarts
  /\ edgeStarts' = edgeStarts + 1
  /\ e.dir = "BIDIRECTIONAL" => ~Locked(s, e)
  /\ Move(s, [NoTxn EXCEPT !.op = "save", !.at = "check", !.e = e])
  /\ UNCHANGED <<edge, relation>>

CheckEdge(s) ==
  LET e == txn[s].e
  IN /\ txn[s].op = "save" /\ txn[s].at = "check"
     /\ IF Accepts(e) THEN Move(s, [txn[s] EXCEPT !.at = "edge"])
                   ELSE Move(s, NoTxn)
     /\ UNCHANGED <<edge, relation, edgeStarts>>

\* A bidirectional save updates the row of either orientation if there is one;
\* everything else is an upsert on the exact row.
TargetRow(e) ==
  LET turned == [e EXCEPT !.from = e.to, !.to = e.from]
  IN IF e.dir = "BIDIRECTIONAL" /\ e \notin edge /\ turned \in edge THEN turned ELSE e

\* The unique index on (least end, greatest end) of bidirectional rows, against
\* committed rows and against rows another transaction is inserting.
ClashingRow(s, row) ==
  /\ row.dir = "BIDIRECTIONAL" /\ row \notin edge
  /\ LET turned == [row EXCEPT !.from = row.to, !.to = row.from]
     IN turned # row /\ (turned \in edge \/ \E q \in Sessions \ {s} : turned \in txn[q].adds)

SaveTopologyEdge(s) ==
  LET row == TargetRow(txn[s].e)
  IN /\ txn[s].op = "save" /\ txn[s].at = "edge"
     /\ ~EdgeHeld(s, row)
     /\ IF ClashingRow(s, row)
        THEN Move(s, [txn[s] EXCEPT !.at = "clash"])
        ELSE Move(s, [txn[s] EXCEPT !.at = "mirrors", !.adds = {row},
                                    !.todo = MirrorsOf(txn[s].e)])
     /\ UNCHANGED <<edge, relation, edgeStarts>>

\* The upsert of one mirror, the submitted orientation first.
SaveLegacyMirror(s) ==
  /\ txn[s].op = "save" /\ txn[s].at = "mirrors"
  /\ \E m \in txn[s].todo :
       /\ MirrorOf(txn[s].e) \in txn[s].todo => m = MirrorOf(txn[s].e)
       /\ ~MirrorHeld(s, m)
       /\ Move(s, [txn[s] EXCEPT !.mirrors = @ \cup {m}, !.todo = @ \ {m}])
  /\ UNCHANGED <<edge, relation, edgeStarts>>

Finished(s) ==
  \/ txn[s].op = "save" /\ txn[s].at = "mirrors" /\ txn[s].todo = {}
  \/ txn[s].op = "delete" /\ txn[s].at = "mirrors" /\ txn[s].todo = {}

\* The mirrors of a delete of s that commits while one of the other orientation
\* has deleted and not committed: neither sees what the other leaves.
Crosses(s) ==
  {m \in {txn[s].e.m, Reversed(txn[s].e.m)} :
     \E q \in Sessions \ {s} : /\ txn[q].op = "delete" /\ txn[q].dels # {}
                               /\ txn[q].e.m = Reversed(txn[s].e.m)}

CommitEdge(s) ==
  /\ Finished(s)
  /\ crossed' = crossed \cup (IF txn[s].dels = {} THEN {} ELSE Crosses(s))
  /\ edge' = (edge \ txn[s].dels) \cup txn[s].adds
  /\ relation' = (relation \ txn[s].drops) \cup txn[s].mirrors
  /\ Move(s, NoTxn)
  /\ UNCHANGED edgeStarts

\* An error of any statement, a lost connection, or Postgres breaking a
\* deadlock: the deferred Rollback.
Rollback(s) ==
  /\ txn[s] # NoTxn
  /\ Move(s, NoTxn)
  /\ UNCHANGED <<edge, relation, edgeStarts>>

(***************************************************************************)
(* DeleteEdge.                                                             *)
(***************************************************************************)
DeleteEdge(s, tenant, m) ==
  /\ txn[s] = NoTxn /\ edgeStarts < MaxEdgeStarts
  /\ edgeStarts' = edgeStarts + 1
  /\ Move(s, [NoTxn EXCEPT !.op = "delete", !.at = "edge", !.e = [tenant |-> tenant, m |-> m]])
  /\ UNCHANGED <<edge, relation>>

\* Rows from -> to of either direction, and the bidirectional row to -> from.
Matching(tenant, m) ==
  {x \in edge : /\ x.tenant = tenant
                /\ \/ MirrorOf(x) = m
                   \/ x.dir = "BIDIRECTIONAL" /\ MirrorOf(x) = Reversed(m)}

\* The mirrors to look at after the rows are gone.
MirrorsToDrop(m, rows) ==
  {m} \cup (IF \E x \in rows : x.dir = "BIDIRECTIONAL" THEN {Reversed(m)} ELSE {})

\* One DELETE ... RETURNING, which waits for any row another transaction holds.
DeleteTopologyEdges(s) ==
  LET t == txn[s].e
      rows == Matching(t.tenant, t.m)
  IN /\ txn[s].op = "delete" /\ txn[s].at = "edge"
     /\ \A x \in rows : ~EdgeHeld(s, x)
     /\ Move(s, [txn[s] EXCEPT !.at = "mirrors", !.dels = rows,
                               !.todo = MirrorsToDrop(t.m, rows)])
     /\ UNCHANGED <<edge, relation, edgeStarts>>

\* NOT EXISTS an edge of exactly this orientation, as the statement's snapshot
\* and the transaction's own deletes show it.
Unused(s, m) ==
  ~\E x \in edge \ txn[s].dels : x.tenant = txn[s].e.tenant /\ MirrorOf(x) = m

\* removeLegacyMirrorIfUnused: the snapshot picks the row ...
PickMirror(s) ==
  /\ txn[s].op = "delete" /\ txn[s].at = "mirrors"
  /\ \E m \in txn[s].todo :
       /\ txn[s].e.m \in txn[s].todo => m = txn[s].e.m
       /\ IF m \in relation /\ Unused(s, m)
          THEN Move(s, [txn[s] EXCEPT !.at = "drop", !.todo = @ \ {m}, !.picked = {m}])
          ELSE Move(s, [txn[s] EXCEPT !.todo = @ \ {m}])
  /\ UNCHANGED <<edge, relation, edgeStarts>>

\* ... and deletes it when nobody else holds it any more.
DropMirror(s) ==
  /\ txn[s].op = "delete" /\ txn[s].at = "drop"
  /\ \A m \in txn[s].picked : ~MirrorHeld(s, m)
  /\ Move(s, [txn[s] EXCEPT !.at = "mirrors", !.picked = {},
                            !.drops = @ \cup (txn[s].picked \cap relation)])
  /\ UNCHANGED <<edge, relation, edgeStarts>>

(***************************************************************************)
(* Consistency: the counts, and the repair at boot.                        *)
(***************************************************************************)
\* The tenant of a governed mirror is that of its two existing ends.
Governed ==
  {m \in relation : /\ entity[m.from] # None /\ entity[m.to] # None
                    /\ Home[m.from] = Home[m.to]
                    /\ RelationTypeAllows(m.type, m.from, m.to)}
Covers(x, m) ==
  /\ x.tenant = Home[m.from]
  /\ MirrorOf(x) = m \/ (x.dir = "BIDIRECTIONAL" /\ MirrorOf(x) = Reversed(m))
LegacyMissingTopology == {m \in Governed : ~\E x \in edge : Covers(x, m)}
TopologyMissingLegacy == {m \in UNION {MirrorsOf(x) : x \in edge} : m \notin relation}

Directed(m) == [tenant |-> Home[m.from], from |-> m.from, to |-> m.to, type |-> m.type,
                dir |-> "DIRECTED"]

\* One INSERT ... SELECT; it waits for a row another transaction is inserting.
RepairBackfill(s) ==
  /\ txn[s] = NoTxn /\ edgeStarts < MaxEdgeStarts
  /\ LegacyMissingTopology # {}
  /\ \A m \in LegacyMissingTopology : ~EdgeHeld(s, Directed(m))
  /\ edge' = edge \cup {Directed(m) : m \in LegacyMissingTopology}
  /\ edgeStarts' = edgeStarts + 1
  /\ UNCHANGED <<relation, txn>>

(***************************************************************************)
(* Traversal.                                                              *)
(***************************************************************************)
\* The edge source of both traversals, as (node, neighbour) pairs: edges, both
\* ways if bidirectional, and the mirrors that no edge stands for.
NeighborUnion(dir, tenant, types) ==
  LET E == {x \in edge : x.tenant = tenant /\ x.type \in types}
      out == {<<x.from, x.to>> : x \in E}
      back == {<<x.to, x.from>> : x \in {y \in E : y.dir = "BIDIRECTIONAL"}}
      far(m) == IF dir = "FROM" THEN m.to ELSE m.from
      legacy == {m \in relation : /\ m.type \in types
                                  /\ entity[far(m)] # None /\ Home[far(m)] = tenant
                                  /\ ~\E x \in edge : x.tenant = tenant /\ MirrorOf(x) = m}
      pairs == out \cup back \cup {<<m.from, m.to>> : m \in legacy}
  IN IF dir = "FROM" THEN pairs ELSE {<<p[2], p[1]>> : p \in pairs}


NeighborsTenant(tenant, root, dir, types) ==
  {p[2] : p \in {q \in NeighborUnion(dir, tenant, types) : q[1] = root}}

\* The tenantless predecessor: edges, or, only if there are none, mirrors.
NeighborsFromTopology(root, dir, types) ==
  LET E == {x \in edge : x.type \in types}
      near(x) == IF dir = "FROM" THEN x.from ELSE x.to
      far(x) == IF dir = "FROM" THEN x.to ELSE x.from
  IN {far(x) : x \in {y \in E : near(y) = root}}
     \cup {near(x) : x \in {y \in E : y.dir = "BIDIRECTIONAL" /\ far(y) = root}}
NeighborsFromLegacyRelation(root, dir, types) ==
  IF dir = "FROM" THEN {m.to : m \in {x \in relation : x.from = root /\ x.type \in types}}
  ELSE {m.from : m \in {x \in relation : x.to = root /\ x.type \in types}}
Neighbors(root, dir, types) ==
  LET found == NeighborsFromTopology(root, dir, types)
  IN IF found # {} THEN found ELSE NeighborsFromLegacyRelation(root, dir, types)

\* One round of the recursive query: the paths that go on by one step to a node
\* they have not met.
Onward(paths, step) ==
  UNION {{Append(p, q[2]) : q \in {x \in step : x[1] = Last(p) /\ x[2] \notin ToSet(p)}} : p \in paths}

\* Its rows after each round.
Grown(tenant, root, dir, types, n) ==
  LET grown[d \in 0..n] ==
        IF d = 0 THEN {<<root>>} ELSE Onward(grown[d - 1], NeighborUnion(dir, tenant, types))
  IN grown

\* The rows of the recursive query: every path from the root that repeats no
\* node, of at most n steps.
Paths(tenant, root, dir, types, n) ==
  UNION {Grown(tenant, root, dir, types, n)[d] : d \in 0..n}

\* Each node once, at the least depth it was met; over budget is an error.
ExpandWithCTE(tenant, root, dir, types, depth, maxNodes) ==
  LET P == Paths(tenant, root, dir, types, depth)
      nodes == {Last(p) : p \in P}
      least(n) == Newest({-Len(p) : p \in {q \in P : Last(q) = n}})
  IN IF Cardinality(nodes) > maxNodes THEN [budget |-> TRUE, depth |-> <<>>]
     ELSE [budget |-> FALSE, depth |-> [n \in nodes |-> -least(n) - 1]]

\* The labels of a breadth-first search after one more level.
Further(seen, d, tenant, dir, types) ==
  LET frontier == {n \in DOMAIN seen : seen[n] = d - 1}
      next == UNION {NeighborsTenant(tenant, n, dir, types) : n \in frontier}
  IN [n \in DOMAIN seen \cup next |-> IF n \in DOMAIN seen THEN seen[n] ELSE d]

Levels(tenant, root, dir, types, depth) ==
  LET level[d \in 0..depth] ==
        IF d = 0 THEN [n \in {root} |-> 0] ELSE Further(level[d - 1], d, tenant, dir, types)
  IN level

\* The breadth-first labels of the twin read's expand option.
ExpandDepths(tenant, root, dir, types, depth) == Levels(tenant, root, dir, types, depth)[depth]

\* Mutant: the session's ownership is not asked again on the way.
OwnedRootOnly(tenant, n) == TRUE
\* scope.allows: an entity that exists and belongs to the session's tenant.
Owned(tenant, n) == entity[n] # None /\ Home[n] = tenant

\* What the dashboards' walk has after one more level: the nodes it visited, the
\* owned ones of the last level, which it goes on from, and those it reports.
Wider(walk, tenant, dir, types) ==
  LET met == (UNION {Neighbors(n, dir, types) : n \in walk.frontier}) \ walk.visited
      own == {n \in met : Owned(tenant, n)}
  IN [visited |-> walk.visited \cup met, frontier |-> own, reported |-> walk.reported \cup own]

Walked(tenant, root, dir, types, maxLevel) ==
  LET walked[d \in 0..maxLevel] ==
        IF d = 0 THEN [visited |-> {root}, frontier |-> {n \in {root} : Owned(tenant, n)}, reported |-> {}]
        ELSE Wider(walked[d - 1], tenant, dir, types)
  IN walked

\* The dashboards' walk: breadth first over the tenantless neighbours, through
\* owned nodes only; what it visits and does not own is not reported.
WalkRelations(tenant, root, dir, types, maxLevel) ==
  Walked(tenant, root, dir, types, maxLevel)[maxLevel].reported

\* The walk of the entity query, from a root of the caller's tenant: breadth
\* first over the tenant's neighbours.  What has no row is walked through and not shown.
RelationsQuery(tenant, root, dir, types, maxLevel) ==
  IF ~Owned(tenant, root) THEN {}
  ELSE {n \in DOMAIN ExpandDepths(tenant, root, dir, types, maxLevel) \ {root} : Owned(tenant, n)}

(***************************************************************************)
(* The specification.  The catalogue starts with any one version of each   *)
(* model, and every entity that has a model is pinned to it.               *)
(***************************************************************************)
PinnedInit ==
  /\ entity = TypeAtStart
  /\ \E decls \in Catalogues :
       /\ model = [k \in Keys |->
                     IF k.version = 1 /\ decls[k.id] # None
                     THEN [kind |-> "ASSET", policy |-> CHOOSE p \in Policies : TRUE,
                           decl |-> decls[k.id], deprecated |-> FALSE]
                     ELSE None]
       /\ registry = [e \in Entities |->
                        IF e \in Assets /\ decls[entity[e]] # None
                        THEN [id |-> entity[e], version |-> 1] ELSE Unpinned]
  /\ stored = [e \in Entities |-> "none"]
  /\ task = [r \in Requests |-> Idle]
  /\ starts = 0

TopologyInit ==
  /\ PinnedInit
  /\ edge = {}
  /\ relation = Legacy
  /\ txn = [s \in Sessions |-> NoTxn]
  /\ crossed = {}
  /\ edgeStarts = 0

SaveNext(s) ==
  \/ \E t \in Tenants, p \in Pairs, ty \in RelTypes, d \in Directions :
       SaveEdge(s, [tenant |-> t, from |-> p[1], to |-> p[2], type |-> ty, dir |-> d])
  \/ CheckEdge(s) \/ SaveTopologyEdge(s) \/ SaveLegacyMirror(s)

DeleteNext(s) ==
  \/ \E t \in Tenants, p \in Pairs, ty \in RelTypes :
       DeleteEdge(s, t, [from |-> p[1], to |-> p[2], type |-> ty])
  \/ DeleteTopologyEdges(s) \/ PickMirror(s) \/ DropMirror(s)

TopologyNext ==
  \E s \in Sessions :
    \/ (SaveNext(s) \/ DeleteNext(s) \/ Rollback(s) \/ RepairBackfill(s)) /\ UNCHANGED crossed
    \/ CommitEdge(s)

\* Of the catalogue's requests, those that change what SaveEdge reads.
Next == \/ (\E r \in Requests : EntityNext(r) \/ ModelNext(r)) /\ UNCHANGED topologyVars
        \/ TopologyNext /\ UNCHANGED catalogVars

Spec == TopologyInit /\ [][Next]_vars

(***************************************************************************)
(* Properties.                                                             *)
(***************************************************************************)
\* Reverse saves of one bidirectional relation never meet the unique index: the
\* advisory lock has made the second an update of the first one's row.
NeverClashes == \A s \in Sessions : txn[s].at # "clash"

\* A committed mirror that does not come from the time before topology_edge has
\* its edge: otherwise the next boot would bring back, as a directed edge, a
\* relation somebody has deleted.  Two deletes that cross can leave one.
NoStrayMirror ==
  \A m \in relation \ (Legacy \cup crossed) : \E x \in edge : Covers(x, m)

\* docs/DIGITAL_TWIN.md: "deleting by either orientation removes the topology row
\* and both legacy mirrors", and the legacy table "remains synchronized".
DeletesRemoveMirrors ==
  \A m \in relation \ Legacy : \E x \in edge : Covers(x, m)

\* A bidirectional relation is accepted in one orientation exactly if it is
\* accepted in the other.
EitherOrientation ==
  \A p \in Pairs, ty \in RelTypes, t \in Tenants :
    LET e == [tenant |-> t, from |-> p[1], to |-> p[2], type |-> ty, dir |-> "BIDIRECTIONAL"]
    IN Accepts(e) <=> Accepts([e EXCEPT !.from = e.to, !.to = e.from])

\* However saves, deletes, boots and entity deletes interleave, edges and mirrors
\* tell the same story of a relation, whichever end it was saved from.
EdgesAreSound == NeverClashes /\ NoStrayMirror /\ EitherOrientation

\* Traversing a tenant's graph from one of its own entities, through edges and
\* through mirrors, never reaches an entity of another tenant; and the traversals
\* agree, whatever the depth, cycles included: the recursive query and the
\* breadth-first labels of the same read on every node and its depth, and the
\* dashboards' walk, which reads the edge tables without a tenant, reports no
\* entity that the entity query of the same root does not.  A child only the relation
\* table knows is seen next to children that have edges.
TraversalsAgree ==
  /\ \A root \in Entities, dir \in {"FROM", "TO"} :
       /\ \A n \in DOMAIN ExpandDepths(Home[root], root, dir, RelTypes, Cardinality(Entities)) :
            Home[n] = Home[root]
       /\ \A depth \in Depths :
            LET x == ExpandWithCTE(Home[root], root, dir, RelTypes, depth, Cardinality(Entities))
                labels == ExpandDepths(Home[root], root, dir, RelTypes, depth)
            IN /\ ~x.budget /\ x.depth = labels
               /\ WalkRelations(Home[root], root, dir, RelTypes, depth)
                    \subseteq RelationsQuery(Home[root], root, dir, RelTypes, depth)
  /\ \A m \in relation :
       entity[m.to] # None => m.to \in NeighborsTenant(Home[m.to], m.from, "FROM", RelTypes)
=============================================================================
