-------------------------- MODULE TwinCatalogProofs --------------------------
(***************************************************************************)
(* The twin registry agrees with the catalogue of models and with the      *)
(* entity tables: for any number of tenants, entities, models, versions    *)
(* and concurrent requests.                                                *)
(*                                                                         *)
(* The inductive invariant says that every row of the registry and every   *)
(* row a request has planned names a version that exists (Resolves), that  *)
(* a re-point that has locked its version holds one in force (Sound), and  *)
(* what a request knows while nothing else commits (Fresh): a maintenance  *)
(* pass, how far the registry is by now; a write, that the model admits    *)
(* it.  Versions are never deleted, so the first two stay true whoever     *)
(* commits; the last ends with the next commit of another request.         *)
(***************************************************************************)
EXTENDS TwinCatalog, TLAPS

Ops == {"none", "sync", "reclaim", "boot", "repoint", "attributes", "features"}
Stages == {"idle", "called", "planned", "devices", "assets", "sweep", "delete", "done",
           "locked", "shared", "validated"}
Passes == {"devices", "assets", "sweep", "delete", "done"}
Plans == [Entities -> Pins \cup {None}]
Tasks == [op : Ops, at : Stages, ent : Entities \cup {None}, key : Keys \cup Tenants \cup {None, Planned},
          value : Values, plan : Plans, quiet : BOOLEAN]

CatalogTypeOK ==
  /\ entity \in [Entities -> ModelIds \cup {None}]
  /\ model \in [Keys -> Models \cup {None}]
  /\ registry \in Plans
  /\ task \in [Requests -> Tasks]

PinKey(e, p) == [tenant |-> Home[e], id |-> p.id, version |-> p.version]
Resolves(e, p) ==
  p \notin {None, Unpinned} => model[PinKey(e, p)] # None /\ model[PinKey(e, p)].kind = KindOf(e)

Sound(t) ==
  /\ \A e \in Entities : Resolves(e, t.plan[e])
  /\ t.op \in {"sync", "reclaim", "repoint", "attributes", "features"} => t.ent \in Entities
  /\ t.op = "repoint" => t.key \in Keys
  /\ t.op = "boot" => t.at \in Passes
  /\ t.op \in {"attributes", "features"} => t.key = Home[t.ent]
  /\ t.at = "shared" =>
       /\ t.op = "repoint" /\ t.key.tenant = Home[t.ent] /\ model[t.key] # None
       /\ model[t.key].kind = KindOf(t.ent) /\ ~model[t.key].deprecated

\* The row of an entity that exists is there, and pinned if a model fits.
Current(e) == entity[e] # None => registry[e] # None /\ (Candidates(e) # {} => Pinned(e))

Fresh(t) ==
  t.quiet =>
    /\ t.op \in {"attributes", "features"} /\ t.at = "validated" => Admits(t.ent, t.key, t.op, t.value)
    /\ t.op = "boot" =>
         /\ t.at = "devices" /\ t.key = Planned => t.plan = Projected(Devices)
         /\ t.at = "assets" /\ t.key = Planned => t.plan = Projected(Assets)
         /\ t.at \in {"assets", "sweep", "delete", "done"} => \A e \in Devices : Current(e)
         /\ t.at \in {"sweep", "delete", "done"} => \A e \in Assets : Current(e)
         /\ t.at = "done" => Orphans = {}

CatalogInv ==
  /\ CatalogTypeOK
  /\ \A e \in Entities : Resolves(e, registry[e])
  /\ \A r \in Requests : Sound(task[r]) /\ Fresh(task[r])

-----------------------------------------------------------------------------
LEMMA NoneIsNoPin == None \notin Pins /\ Unpinned # None /\ Unpinned \in Pins /\ None # Planned
  BY CatalogAssumption DEF Pins

LEMMA IdleFits == Idle \in Tasks /\ Idle.quiet = FALSE /\ Sound(Idle) /\ Fresh(Idle)
<1>1. Idle \in Tasks
  BY DEF Idle, Tasks, Ops, Stages, Values, Plans
<1>2. Idle.quiet = FALSE /\ Idle.op = "none" /\ Idle.at = "idle" /\ \A e \in Entities : Idle.plan[e] = None
  BY DEF Idle
<1> QED BY <1>1, <1>2 DEF Sound, Fresh, Resolves

LEMMA CatalogInvImplies == CatalogInv => RegistryAgrees /\ WritesAsPinned
<1> SUFFICES ASSUME CatalogInv PROVE RegistryAgrees /\ WritesAsPinned
  OBVIOUS
<1>1. PinsResolve
  BY DEF CatalogInv, Resolves, PinKey, PinsResolve, Pinned, PinResolves, KeyOfPin
<1>2. BootConverges
  <2> SUFFICES ASSUME NEW r \in Requests, task[r].op = "boot", task[r].at = "done", task[r].quiet, NEW e \in Entities
               PROVE  /\ registry[e] # None <=> entity[e] # None
                      /\ entity[e] # None /\ Candidates(e) # {} => Pinned(e)
    BY DEF BootConverges
  <2>1. Current(e) /\ Orphans = {}
    BY DEF CatalogInv, Fresh, Entities
  <2> QED BY <2>1 DEF Current, Orphans
<1>3. WritesAsPinned
  <2> SUFFICES ASSUME NEW r \in Requests
               PROVE  /\ RepointCommit(r) /\ registry[task[r].ent] # None => ~model[task[r].key].deprecated
                      /\ StoreValues(r) /\ task[r].quiet =>
                           Admits(task[r].ent, Home[task[r].ent], task[r].op, task[r].value)
    BY DEF WritesAsPinned
  <2>1. RepointCommit(r) => ~model[task[r].key].deprecated
    BY DEF RepointCommit, CatalogInv, Sound
  <2>2. StoreValues(r) /\ task[r].quiet => Admits(task[r].ent, task[r].key, task[r].op, task[r].value)
    BY DEF StoreValues, CatalogInv, Fresh
  <2>3. StoreValues(r) => task[r].key = Home[task[r].ent]
    BY DEF StoreValues, CatalogInv, Sound
  <2> QED BY <2>1, <2>2, <2>3
<1> QED BY <1>1, <1>2, <1>3 DEF RegistryAgrees

LEMMA CatalogInvInit == CatalogInit => CatalogInv
<1> SUFFICES ASSUME CatalogInit PROVE CatalogInv
  OBVIOUS
<1>1. CatalogTypeOK
  BY IdleFits, NoneIsNoPin DEF CatalogInit, CatalogTypeOK, Plans
<1>2. \A e \in Entities : Resolves(e, registry[e])
  BY DEF CatalogInit, Resolves
<1>3. \A r \in Requests : task[r] = Idle
  BY DEF CatalogInit
<1> QED BY <1>1, <1>2, <1>3, IdleFits DEF CatalogInv

-----------------------------------------------------------------------------
\* A step of one request that commits nothing.
LEMMA ContinueFits ==
  ASSUME CatalogInv, UNCHANGED <<entity, model, registry>>, NEW r \in Requests, NEW t \in Tasks, Continue(r, t),
         Sound(t), Fresh(t)
  PROVE  CatalogInv'
<1>1. \A x : Sound(x)' <=> Sound(x)
  BY DEF Sound, Resolves
<1>2. \A x : Fresh(x)' <=> Fresh(x)
  <2>1. /\ Projected(Devices)' = Projected(Devices) /\ Projected(Assets)' = Projected(Assets) /\ Orphans' = Orphans
        /\ \A e : Current(e)' <=> Current(e)
    BY DEF Projected, ProjectDevice, ProjectAsset, Pinned, Candidates, Orphans, Current
  <2>2. \A e, k, op, v : Admits(e, k, op, v)' <=> Admits(e, k, op, v)
    BY DEF Admits, HasPin, PinResolves, Pinned, KeyOfPin
  <2> QED BY <2>1, <2>2 DEF Fresh
<1>3. task' \in [Requests -> Tasks] /\ task'[r] = t /\ \A q \in Requests \ {r} : task'[q] = task[q]
  BY DEF Continue, CatalogInv, CatalogTypeOK
<1>4. \A q \in Requests : Sound(task'[q]) /\ Fresh(task'[q])
  BY <1>3 DEF CatalogInv
<1>5. \A q \in Requests : (Sound(task[q]) /\ Fresh(task[q]))'
  BY <1>1, <1>2, <1>4
<1>6. (\A e \in Entities : Resolves(e, registry[e]))'
  BY DEF CatalogInv, Resolves
<1> QED BY <1>3, <1>5, <1>6 DEF CatalogInv, CatalogTypeOK

\* Versions stay, as they were but for the mark, and one in use is not marked.
Grows ==
  \A k \in Keys : model[k] # None =>
    /\ model'[k] # None /\ model'[k].kind = model[k].kind
    /\ ModelShared(k) => model'[k].deprecated = model[k].deprecated

LEMMA ResolvesOn ==
  ASSUME CatalogTypeOK, Grows, NEW e \in Entities, NEW p \in Pins \cup {None}, Resolves(e, p)
  PROVE  Resolves(e, p)'
<1>1. p \notin {None, Unpinned} => PinKey(e, p) \in Keys
  BY CatalogAssumption DEF Pins, PinKey, Keys
<1> QED BY <1>1 DEF Resolves, Grows

\* A step of one request that commits: the others know less from then on.
LEMMA CommitFits ==
  ASSUME CatalogInv, NEW r \in Requests, NEW t \in Tasks, Commit(r, t), Grows,
         entity' \in [Entities -> ModelIds \cup {None}], model' \in [Keys -> Models \cup {None}], registry' \in Plans,
         \A e \in Entities : Resolves(e, registry[e])', Sound(t)', Fresh(t)'
  PROVE  CatalogInv'
<1>1. task' \in [Requests -> Tasks] /\ task'[r] = t
      /\ \A q \in Requests \ {r} : task'[q] = [task[q] EXCEPT !.quiet = FALSE]
  <2>1. \A q \in Requests : [task[q] EXCEPT !.quiet = FALSE] \in Tasks
    BY DEF CatalogInv, CatalogTypeOK, Tasks
  <2> QED BY <2>1 DEF Commit
<1>2. ASSUME NEW q \in Requests \ {r} PROVE (Sound(task[q]) /\ Fresh(task[q]))'
  <2>1. PICK x : x = task[q]
    OBVIOUS
  <2>2. PICK y : y = [x EXCEPT !.quiet = FALSE]
    OBVIOUS
  <2>3. x \in Tasks /\ Sound(x)
    BY <2>1 DEF CatalogInv, CatalogTypeOK
  <2>4. y.quiet = FALSE /\ y.op = x.op /\ y.at = x.at /\ y.ent = x.ent /\ y.key = x.key /\ y.plan = x.plan
    BY <2>2, <2>3 DEF Tasks
  <2>5. Fresh(y)'
    BY <2>4 DEF Fresh
  <2>6. \A e \in Entities : Resolves(e, x.plan[e])'
    BY <2>3, ResolvesOn DEF CatalogInv, Sound, Tasks, Plans
  <2>7. x.at = "shared" => /\ x.op = "repoint" /\ x.key.tenant = Home[x.ent] /\ model'[x.key] # None
                           /\ model'[x.key].kind = KindOf(x.ent) /\ ~model'[x.key].deprecated
    <3> SUFFICES ASSUME x.at = "shared"
                 PROVE  /\ x.op = "repoint" /\ x.key.tenant = Home[x.ent] /\ model'[x.key] # None
                        /\ model'[x.key].kind = KindOf(x.ent) /\ ~model'[x.key].deprecated
      OBVIOUS
    <3>1. /\ x.op = "repoint" /\ x.key \in Keys /\ x.key.tenant = Home[x.ent] /\ model[x.key] # None
          /\ model[x.key].kind = KindOf(x.ent) /\ ~model[x.key].deprecated
      BY <2>3 DEF Sound
    <3>2. ModelShared(x.key)
      BY <2>1 DEF ModelShared
    <3> QED BY <3>1, <3>2 DEF Grows
  <2>8. Sound(y)'
    BY <2>3, <2>4, <2>6, <2>7 DEF Sound
  <2> QED BY <1>1, <2>1, <2>2, <2>5, <2>8
<1>3. (Sound(task[r]) /\ Fresh(task[r]))'
  BY <1>1
<1> QED BY <1>1, <1>2, <1>3 DEF CatalogInv, CatalogTypeOK

\* What the upsert's SELECT computes.
LEMMA Projects ==
  ASSUME CatalogInv, NEW e \in Entities
  PROVE  LET p == ProjectDevice(e)
         IN  /\ p \in Pins \cup {None} /\ Resolves(e, p)
             /\ IF entity[e] = None THEN p = None
                ELSE p # None /\ (Candidates(e) # {} => p # Unpinned)
<1> DEFINE p == ProjectDevice(e)
<1>1. registry[e] \in Pins \cup {None} /\ Resolves(e, registry[e]) /\ entity[e] \in ModelIds \cup {None}
  BY DEF CatalogInv, CatalogTypeOK, Plans
<1>2. CASE entity[e] = None
  BY <1>2 DEF ProjectDevice, Resolves
<1>3. CASE entity[e] # None /\ Pinned(e)
  BY <1>1, <1>3 DEF ProjectDevice, Pinned
<1>4. CASE entity[e] # None /\ ~Pinned(e) /\ Candidates(e) # {}
  <2> DEFINE v == Newest(Candidates(e))
  <2>1. Candidates(e) \in (SUBSET Versions) \ {{}}
    BY <1>4 DEF Candidates
  <2>2. v \in Candidates(e)
    <3>1. \E x \in Candidates(e) : \A w \in Candidates(e) : w <= x
      BY <2>1, CatalogAssumption
    <3> QED BY <3>1 DEF Newest
  <2> HIDE DEF v
  <2>3. p = [id |-> entity[e], version |-> v]
    BY <1>4 DEF ProjectDevice, v
  <2>4. p \in [id : ModelIds, version : Versions]
    BY <1>1, <1>4, <2>1, <2>2, <2>3
  <2>5. p # Unpinned /\ p.id = entity[e] /\ p.version = v
    BY <1>4, <2>3 DEF Unpinned
  <2>6. Resolves(e, p)
    BY <2>2, <2>5 DEF Candidates, Resolves, PinKey
  <2> HIDE DEF p
  <2>7. p # None
    BY <2>4, NoneIsNoPin DEF Pins
  <2> QED BY <1>4, <2>4, <2>5, <2>6, <2>7 DEF Pins, p
<1>5. CASE entity[e] # None /\ ~Pinned(e) /\ Candidates(e) = {}
  BY <1>5, NoneIsNoPin DEF ProjectDevice, Resolves
<1> QED BY <1>2, <1>3, <1>4, <1>5

LEMMA PlansFit ==
  ASSUME CatalogInv, NEW S
  PROVE  /\ Projected(S) \in Plans
         /\ \A e \in Entities : Resolves(e, Projected(S)[e])
         /\ \A e \in Entities \ S : Projected(S)[e] = None
         /\ \A e \in Entities \cap S : Projected(S)[e] = ProjectDevice(e)
<1>1. \A e \in Entities : Projected(S)[e] = IF e \in S THEN ProjectDevice(e) ELSE None
  BY DEF Projected, ProjectAsset
<1>2. \A e \in Entities : ProjectDevice(e) \in Pins \cup {None} /\ Resolves(e, ProjectDevice(e)) /\ Resolves(e, None)
  BY Projects DEF Resolves
<1>3. Projected(S) = [e \in Entities |-> Projected(S)[e]]
  BY DEF Projected
<1> HIDE DEF Projected
<1> QED BY <1>1, <1>2, <1>3 DEF Plans

\* ON CONFLICT DO UPDATE of the rows of a plan.
LEMMA UpsertFits ==
  ASSUME CatalogInv, NEW plan \in Plans, \A e \in Entities : Resolves(e, plan[e]),
         registry' = Upserted(plan), UNCHANGED <<entity, model>>
  PROVE  /\ registry' \in Plans /\ Grows /\ \A e \in Entities : Resolves(e, registry[e])'
         /\ entity' \in [Entities -> ModelIds \cup {None}] /\ model' \in [Keys -> Models \cup {None}]
         /\ \A e \in Entities : registry'[e] = IF plan[e] = None THEN registry[e] ELSE plan[e]
<1>1. \A e \in Entities : registry'[e] = IF plan[e] = None THEN registry[e] ELSE plan[e]
  BY DEF Upserted
<1>2. registry' \in Plans
  BY DEF Upserted, CatalogInv, CatalogTypeOK, Plans
<1>3. Grows
  BY DEF Grows
<1>4. \A e \in Entities : Resolves(e, registry[e])'
  BY <1>1 DEF CatalogInv, Resolves
<1> QED BY <1>1, <1>2, <1>3, <1>4 DEF CatalogInv, CatalogTypeOK

\* A commit after which the request is over, or calls the next.
LEMMA PlainCommit ==
  ASSUME CatalogInv, NEW r \in Requests, NEW t \in Tasks, Commit(r, t), t.quiet = FALSE, t.plan = Idle.plan,
         t.op \in {"none", "sync", "reclaim"}, t.op # "none" => t.ent \in Entities, t.at # "shared", Grows,
         entity' \in [Entities -> ModelIds \cup {None}], model' \in [Keys -> Models \cup {None}], registry' \in Plans,
         \A e \in Entities : Resolves(e, registry[e])'
  PROVE  CatalogInv'
<1>1. \A e \in Entities : t.plan[e] = None
  BY DEF Idle
<1>2. Sound(t)' /\ Fresh(t)'
  BY <1>1 DEF Sound, Fresh, Resolves
<1> QED BY <1>2, CommitFits

LEMMA IdleCommit ==
  ASSUME CatalogInv, NEW r \in Requests, Commit(r, Idle), Grows,
         entity' \in [Entities -> ModelIds \cup {None}], model' \in [Keys -> Models \cup {None}], registry' \in Plans,
         \A e \in Entities : Resolves(e, registry[e])'
  PROVE  CatalogInv'
<1>1. Idle.op = "none" /\ Idle.at = "idle"
  BY DEF Idle
<1> QED BY <1>1, PlainCommit, IdleFits

\* What a step has that leaves the tables alone.
LEMMA TablesKept ==
  ASSUME CatalogInv, UNCHANGED <<model, registry>>
  PROVE  /\ model' \in [Keys -> Models \cup {None}] /\ registry' \in Plans /\ Grows
         /\ \A e \in Entities : Resolves(e, registry[e])'
BY DEF CatalogInv, CatalogTypeOK, Grows, Resolves

LEMMA EntityFits == ASSUME CatalogInv, NEW r \in Requests, EntityNext(r) PROVE CatalogInv'
<1>1. ASSUME NEW e \in Entities, NEW ty \in ModelIds, SaveEntity(r, e, ty) PROVE CatalogInv'
  <2> DEFINE t == [Idle EXCEPT !.op = "sync", !.at = "called", !.ent = e]
  <2>1. t \in Tasks /\ t.quiet = FALSE /\ t.plan = Idle.plan /\ t.op = "sync" /\ t.ent = e /\ t.at = "called"
    BY IdleFits DEF Tasks, Ops, Stages
  <2>2. Commit(r, t) /\ entity' \in [Entities -> ModelIds \cup {None}] /\ UNCHANGED <<model, registry>>
    BY <1>1 DEF SaveEntity, CatalogInv, CatalogTypeOK
  <2> HIDE DEF t
  <2> QED BY <2>1, <2>2, TablesKept, PlainCommit
<1>2. ASSUME NEW e \in Entities, DeleteEntity(r, e) PROVE CatalogInv'
  <2> DEFINE t == [Idle EXCEPT !.op = "reclaim", !.at = "called", !.ent = e]
  <2>1. t \in Tasks /\ t.quiet = FALSE /\ t.plan = Idle.plan /\ t.op = "reclaim" /\ t.ent = e /\ t.at = "called"
    BY IdleFits DEF Tasks, Ops, Stages
  <2>2. Commit(r, t) /\ entity' \in [Entities -> ModelIds \cup {None}] /\ UNCHANGED <<model, registry>>
    BY <1>2 DEF DeleteEntity, CatalogInv, CatalogTypeOK
  <2> HIDE DEF t
  <2> QED BY <2>1, <2>2, TablesKept, PlainCommit
<1>3. CASE SyncPlan(r)
  <2>1. PICK x : x = task[r]
    OBVIOUS
  <2>2. x \in Tasks /\ Sound(x) /\ x.op = "sync" /\ x.at = "called"
    BY <1>3, <2>1 DEF SyncPlan, CatalogInv, CatalogTypeOK
  <2>3. PICK plan : plan = Projected({x.ent})
    OBVIOUS
  <2>4. plan \in Plans /\ \A e \in Entities : Resolves(e, plan[e])
    BY <2>3, PlansFit
  <2> DEFINE t == [x EXCEPT !.at = "planned", !.plan = plan]
  <2>5. t \in Tasks /\ t.op = "sync" /\ t.at = "planned" /\ t.ent = x.ent /\ t.plan = plan
    BY <2>2, <2>4 DEF Tasks, Stages
  <2>6. Continue(r, t) /\ UNCHANGED <<entity, model, registry>>
    BY <1>3, <2>1, <2>3 DEF SyncPlan
  <2> HIDE DEF t
  <2>7. Sound(t) /\ Fresh(t)
    BY <2>2, <2>4, <2>5 DEF Sound, Fresh
  <2> QED BY <2>5, <2>6, <2>7, ContinueFits
<1>4. CASE SyncWrite(r)
  <2>1. PICK plan : plan = task[r].plan
    OBVIOUS
  <2>2. plan \in Plans /\ \A e \in Entities : Resolves(e, plan[e])
    BY <2>1 DEF CatalogInv, CatalogTypeOK, Tasks, Sound
  <2>3. registry' = Upserted(plan) /\ UNCHANGED <<entity, model>> /\ Commit(r, Idle)
    BY <1>4, <2>1 DEF SyncWrite
  <2> QED BY <2>2, <2>3, UpsertFits, IdleCommit
<1>5. CASE DeleteRegistryRow(r)
  <2>1. Commit(r, Idle) /\ UNCHANGED <<entity, model>>
    BY <1>5 DEF DeleteRegistryRow
  <2>2. registry' \in Plans /\ \A e \in Entities : registry'[e] \in {registry[e], None}
    BY <1>5 DEF DeleteRegistryRow, CatalogInv, CatalogTypeOK, Plans
  <2>3. \A e \in Entities : Resolves(e, registry[e])'
    BY <2>1, <2>2 DEF CatalogInv, Resolves
  <2>4. Grows
    BY <2>1 DEF Grows
  <2> QED BY <2>1, <2>2, <2>3, <2>4, IdleCommit DEF CatalogInv, CatalogTypeOK
<1>6. CASE Abandon(r)
  BY <1>6, IdleFits, ContinueFits DEF Abandon
<1> QED BY <1>1, <1>2, <1>3, <1>4, <1>5, <1>6 DEF EntityNext

\* The write of a maintenance pass: its rows are current, the others as before.
LEMMA BackfillWriteFits ==
  ASSUME CatalogInv, NEW r \in Requests, NEW at \in {"devices", "assets"}, BackfillWrite(r, at)
  PROVE  CatalogInv'
<1>1. PICK x : x = task[r]
  OBVIOUS
<1>2. x \in Tasks /\ Sound(x) /\ Fresh(x) /\ x.op = "boot" /\ x.at = at /\ x.key = Planned
  BY <1>1 DEF BackfillWrite, CatalogInv, CatalogTypeOK
<1>3. x.plan \in Plans /\ (\A e \in Entities : Resolves(e, x.plan[e])) /\ x.quiet \in BOOLEAN
  BY <1>2 DEF Sound, Tasks
<1>4. registry' = Upserted(x.plan) /\ UNCHANGED <<entity, model>>
  BY <1>1 DEF BackfillWrite
<1>5. /\ registry' \in Plans /\ Grows /\ \A e \in Entities : Resolves(e, registry[e])'
      /\ entity' \in [Entities -> ModelIds \cup {None}] /\ model' \in [Keys -> Models \cup {None}]
      /\ \A e \in Entities : registry'[e] = IF x.plan[e] = None THEN registry[e] ELSE x.plan[e]
  BY <1>3, <1>4, UpsertFits
<1> DEFINE t == [Idle EXCEPT !.op = "boot", !.at = AfterPass(at), !.quiet = x.quiet]
<1>6. AfterPass(at) = IF at = "devices" THEN "assets" ELSE "sweep"
  BY DEF AfterPass
<1>7. /\ t \in Tasks /\ t.op = "boot" /\ t.at = AfterPass(at) /\ t.quiet = x.quiet /\ t.plan = Idle.plan /\ t.key = None
  <2>1. AfterPass(at) \in Stages
    BY <1>6 DEF Stages
  <2> HIDE DEF AfterPass
  <2>2. Idle.key = None
    BY DEF Idle
  <2> QED BY <1>3, <2>1, <2>2, IdleFits DEF Tasks, Ops
<1>8. Commit(r, t)
  BY <1>1 DEF BackfillWrite
<1> HIDE DEF t
<1>9. Sound(t)'
  <2>1. \A e \in Entities : t.plan[e] = None
    BY <1>7 DEF Idle
  <2> QED BY <1>6, <1>7, <2>1 DEF Sound, Resolves, Passes
<1>10. \A e : Candidates(e)' = Candidates(e)
  BY <1>4 DEF Candidates
<1>11. ASSUME NEW S, x.plan = Projected(S), NEW e \in S \cap Entities PROVE Current(e)'
  <2>1. x.plan[e] = ProjectDevice(e)
    BY <1>11, PlansFit
  <2>2. entity[e] # None => x.plan[e] # None /\ (Candidates(e) # {} => x.plan[e] # Unpinned)
    BY <2>1, Projects
  <2> QED BY <1>4, <1>5, <1>10, <2>2 DEF Current, Pinned
<1>12. ASSUME NEW S, x.plan = Projected(S), NEW e \in Entities \ S, Current(e) PROVE Current(e)'
  <2>1. x.plan[e] = None
    BY <1>12, PlansFit
  <2> QED BY <1>4, <1>5, <1>10, <1>12, <2>1 DEF Current, Pinned
<1>13. Fresh(t)'
  <2> SUFFICES ASSUME x.quiet PROVE Fresh(t)'
    BY <1>7 DEF Fresh
  <2>1. CASE at = "devices"
    <3>1. x.plan = Projected(Devices)
      BY <1>2, <2>1 DEF Fresh
    <3>2. \A e \in Devices : Current(e)'
      BY <1>11, <3>1 DEF Entities
    <3>3. t.op = "boot" /\ t.at = "assets" /\ t.key # Planned
      BY <1>6, <1>7, <2>1, NoneIsNoPin
    <3> QED BY <3>2, <3>3 DEF Fresh
  <2>2. CASE at = "assets"
    <3>1. x.plan = Projected(Assets) /\ \A e \in Devices : Current(e)
      BY <1>2, <2>2 DEF Fresh
    <3>2. \A e \in Assets : Current(e)'
      BY <1>11, <3>1 DEF Entities
    <3>3. \A e \in Devices : Current(e)'
      BY <1>12, <3>1, CatalogAssumption DEF Entities
    <3>4. t.op = "boot" /\ t.at = "sweep"
      BY <1>6, <1>7, <2>2
    <3> QED BY <3>2, <3>3, <3>4 DEF Fresh
  <2> QED BY <2>1, <2>2
<1> QED BY <1>5, <1>7, <1>8, <1>9, <1>13, CommitFits

\* A step of a maintenance pass that commits nothing and keeps its plan, or drops it.
LEMMA PassFits ==
  ASSUME CatalogInv, NEW r \in Requests, NEW t \in Tasks, Continue(r, t), UNCHANGED <<entity, model, registry>>,
         t.op = "boot", t.at \in Passes, Fresh(t), \A e \in Entities : Resolves(e, t.plan[e])
  PROVE  CatalogInv'
BY ContinueFits DEF Sound, Passes

LEMMA BootFits == ASSUME CatalogInv, NEW r \in Requests, BootNext(r) PROVE CatalogInv'
<1>1. PICK x : x = task[r]
  OBVIOUS
<1>2. x \in Tasks /\ Sound(x) /\ Fresh(x) /\ \A e \in Entities : Resolves(e, x.plan[e])
  BY <1>1 DEF CatalogInv, CatalogTypeOK, Sound
<1>3. \A e \in Entities : Resolves(e, Idle.plan[e])
  BY DEF Idle, Resolves
<1>4. CASE Boot(r)
  <2> DEFINE t == [Idle EXCEPT !.op = "boot", !.at = "devices", !.quiet = TRUE]
  <2>1. t \in Tasks /\ t.op = "boot" /\ t.at = "devices" /\ t.plan = Idle.plan /\ t.key = Idle.key
    BY IdleFits DEF Tasks, Ops, Stages
  <2>2. Continue(r, t) /\ UNCHANGED <<entity, model, registry>>
    BY <1>4 DEF Boot
  <2>3. Idle.key # Planned
    BY NoneIsNoPin DEF Idle
  <2> HIDE DEF t
  <2>4. Fresh(t)
    BY <2>1, <2>3 DEF Fresh
  <2> QED BY <1>3, <2>1, <2>2, <2>4, PassFits DEF Passes
<1>5. ASSUME NEW at \in {"devices", "assets"}, NEW S, (at = "devices" /\ S = Devices) \/ (at = "assets" /\ S = Assets),
             BackfillSnapshot(r, at, S)
      PROVE  CatalogInv'
  <2>1. PICK plan : plan = Projected(S)
    OBVIOUS
  <2>2. plan \in Plans /\ \A e \in Entities : Resolves(e, plan[e])
    BY <2>1, PlansFit
  <2> DEFINE t == [x EXCEPT !.key = Planned, !.plan = plan]
  <2>3. t \in Tasks /\ t.op = x.op /\ t.at = x.at /\ t.plan = plan /\ t.key = Planned /\ t.quiet = x.quiet
    BY <1>2, <2>2 DEF Tasks
  <2>4. Continue(r, t) /\ UNCHANGED <<entity, model, registry>> /\ x.op = "boot" /\ x.at = at
    BY <1>1, <1>5, <2>1 DEF BackfillSnapshot
  <2> HIDE DEF t
  <2>5. Fresh(t)
    BY <1>2, <1>5, <2>1, <2>3, <2>4 DEF Fresh
  <2> QED BY <2>2, <2>3, <2>4, <2>5, PassFits DEF Passes
<1>6. CASE SweepGuards(r)
  <2>1. x.op = "boot" /\ x.at = "sweep" /\ UNCHANGED <<entity, model, registry>>
    BY <1>1, <1>6 DEF SweepGuards
  <2>2. ASSUME Orphans = {}, Continue(r, [x EXCEPT !.at = "done"]) PROVE CatalogInv'
    <3> DEFINE t == [x EXCEPT !.at = "done"]
    <3>1. t \in Tasks /\ t.op = "boot" /\ t.at = "done" /\ t.plan = x.plan /\ t.quiet = x.quiet
      BY <1>2, <2>1 DEF Tasks, Stages
    <3> HIDE DEF t
    <3>2. Fresh(t)
      BY <1>2, <2>1, <2>2, <3>1 DEF Fresh
    <3>3. Continue(r, t)
      BY <2>2 DEF t
    <3> QED BY <1>2, <2>1, <3>1, <3>2, <3>3, PassFits DEF Passes
  <2>3. ASSUME Continue(r, [x EXCEPT !.at = "done", !.quiet = FALSE]) PROVE CatalogInv'
    <3> DEFINE t == [x EXCEPT !.at = "done", !.quiet = FALSE]
    <3>1. t \in Tasks /\ t.op = "boot" /\ t.at = "done" /\ t.plan = x.plan /\ t.quiet = FALSE
      BY <1>2, <2>1 DEF Tasks, Stages
    <3> HIDE DEF t
    <3>2. Fresh(t)
      BY <3>1 DEF Fresh
    <3>3. Continue(r, t)
      BY <2>3 DEF t
    <3> QED BY <1>2, <2>1, <3>1, <3>2, <3>3, PassFits DEF Passes
  <2>4. ASSUME Continue(r, [x EXCEPT !.at = "delete"]) PROVE CatalogInv'
    <3> DEFINE t == [x EXCEPT !.at = "delete"]
    <3>1. t \in Tasks /\ t.op = "boot" /\ t.at = "delete" /\ t.plan = x.plan /\ t.quiet = x.quiet
      BY <1>2, <2>1 DEF Tasks, Stages
    <3> HIDE DEF t
    <3>2. Fresh(t)
      BY <1>2, <2>1, <3>1 DEF Fresh
    <3>3. Continue(r, t)
      BY <2>4 DEF t
    <3> QED BY <1>2, <2>1, <3>1, <3>2, <3>3, PassFits DEF Passes
  <2> QED BY <1>1, <1>6, <2>2, <2>3, <2>4 DEF SweepGuards
<1>7. CASE SweepDelete(r)
  <2>1. /\ x.op = "boot" /\ x.at = "delete" /\ UNCHANGED <<entity, model>> /\ Commit(r, [x EXCEPT !.at = "done"])
        /\ registry' = [e \in Entities |-> IF e \in Orphans THEN None ELSE registry[e]]
    BY <1>1, <1>7 DEF SweepDelete
  <2> DEFINE t == [x EXCEPT !.at = "done"]
  <2>2. t \in Tasks /\ t.op = "boot" /\ t.at = "done" /\ t.plan = x.plan /\ t.quiet = x.quiet
    BY <1>2, <2>1 DEF Tasks, Stages
  <2>3. Commit(r, t)
    BY <2>1
  <2> HIDE DEF t
  <2>4. /\ registry' \in Plans
        /\ \A e \in Entities : registry'[e] = IF entity[e] = None THEN None ELSE registry[e]
    BY <2>1 DEF CatalogInv, CatalogTypeOK, Plans, Orphans
  <2>5. Grows /\ \A e \in Entities : Resolves(e, registry[e])'
    BY <2>1, <2>4 DEF Grows, CatalogInv, Resolves
  <2>6. Sound(t)'
    BY <1>2, <2>1, <2>2 DEF Sound, Resolves, Passes
  <2>7. Orphans' = {} /\ \A e \in Entities : Current(e) => Current(e)'
    BY <2>1, <2>4 DEF Orphans, Current, Candidates, Pinned
  <2>8. Fresh(t)'
    BY <1>2, <2>1, <2>2, <2>7 DEF Fresh, Entities
  <2>9. entity' \in [Entities -> ModelIds \cup {None}] /\ model' \in [Keys -> Models \cup {None}]
    BY <2>1 DEF CatalogInv, CatalogTypeOK
  <2> QED BY <2>2, <2>3, <2>4, <2>5, <2>6, <2>8, <2>9, CommitFits
<1>8. CASE PassFails(r)
  <2> DEFINE at == AfterPass(x.at)
             t == [Idle EXCEPT !.op = "boot", !.at = at]
  <2>1. Continue(r, t) /\ UNCHANGED <<entity, model, registry>>
    BY <1>1, <1>8 DEF PassFails
  <2>2. at \in Stages /\ at \in Passes
    <3>1. x.at \in {"devices", "assets", "sweep", "delete"}
      BY <1>1, <1>2, <1>8 DEF PassFails, Sound, Passes
    <3>2. at \in {"assets", "sweep", "done"}
      BY <3>1 DEF AfterPass
    <3> HIDE DEF at
    <3> QED BY <3>2 DEF Stages, Passes
  <2> HIDE DEF at
  <2>3. t \in Tasks /\ t.op = "boot" /\ t.at = at /\ t.plan = Idle.plan /\ t.quiet = FALSE
    BY <2>2, IdleFits DEF Tasks, Ops
  <2> HIDE DEF t
  <2>4. Fresh(t)
    BY <2>3 DEF Fresh
  <2> QED BY <1>3, <2>1, <2>2, <2>3, <2>4, PassFits DEF Passes
<1>9. CASE BootDone(r)
  BY <1>9, IdleFits, ContinueFits DEF BootDone
<1> QED BY <1>4, <1>5, <1>6, <1>7, <1>8, <1>9, BackfillWriteFits DEF BootNext, BackfillDevices, BackfillAssets

LEMMA ModelFits == ASSUME CatalogInv, NEW r \in Requests, ModelNext(r) PROVE CatalogInv'
<1>1. PICK x : x = task[r]
  OBVIOUS
<1>2. x \in Tasks /\ Sound(x) /\ Fresh(x)
  BY <1>1 DEF CatalogInv, CatalogTypeOK
<1>3. ASSUME NEW k \in Keys, NEW kind \in {"DEVICE", "ASSET"}, NEW p \in Policies, NEW d \in Declarations,
             CreateModel(r, k, kind, p, d)
      PROVE  CatalogInv'
  <2> DEFINE m == [kind |-> kind, policy |-> p, decl |-> d, deprecated |-> FALSE]
  <2>1. m \in Models /\ m.kind = kind
    BY DEF Models
  <2>2. m # None
    BY <2>1, CatalogAssumption
  <2>3. /\ model[k] = None /\ model' = [model EXCEPT ![k] = m] /\ registry' = Activated(k, kind)
        /\ Commit(r, Idle) /\ UNCHANGED entity
    BY <1>3 DEF CreateModel
  <2> HIDE DEF m
  <2>4. model' \in [Keys -> Models \cup {None}] /\ model'[k] = m /\ \A j \in Keys \ {k} : model'[j] = model[j]
    BY <2>1, <2>3 DEF CatalogInv, CatalogTypeOK
  <2>5. Grows
    BY <2>3, <2>4 DEF Grows
  <2> DEFINE new == [id |-> k.id, version |-> k.version]
  <2>6. new \in Pins /\ new.id = k.id /\ new.version = k.version
    BY DEF Pins, Keys
  <2> HIDE DEF new
  <2>7. /\ registry' \in Plans
        /\ \A e \in Entities : registry'[e] = registry[e]
                               \/ (registry'[e] = new /\ Home[e] = k.tenant /\ KindOf(e) = kind)
    BY <2>3, <2>6 DEF Activated, CatalogInv, CatalogTypeOK, Plans, new
  <2>8. ASSUME NEW e \in Entities PROVE Resolves(e, registry[e])'
    <3>1. CASE registry'[e] = registry[e]
      <4>1. PICK old : old = registry[e]
        OBVIOUS
      <4>2. Resolves(e, old)'
        BY <2>5, <4>1, ResolvesOn DEF CatalogInv, CatalogTypeOK, Plans
      <4> QED BY <3>1, <4>1, <4>2
    <3>2. CASE registry'[e] = new /\ Home[e] = k.tenant /\ KindOf(e) = kind
      <4>1. PinKey(e, new) = k
        BY <2>6, <3>2 DEF PinKey, Keys
      <4>2. model'[PinKey(e, new)] # None /\ model'[PinKey(e, new)].kind = KindOf(e)
        BY <2>1, <2>2, <2>4, <3>2, <4>1
      <4> QED BY <3>2, <4>2 DEF Resolves
    <3> QED BY <2>7, <3>1, <3>2
  <2> QED BY <2>3, <2>4, <2>5, <2>7, <2>8, IdleCommit DEF CatalogInv, CatalogTypeOK
<1>4. ASSUME NEW k \in Keys, Deprecate(r, k) PROVE CatalogInv'
  <2>1. /\ model[k] # None /\ ~ModelShared(k) /\ model' = [model EXCEPT ![k].deprecated = TRUE]
        /\ Commit(r, Idle) /\ UNCHANGED <<entity, registry>>
    BY <1>4 DEF Deprecate
  <2>2. model[k] \in Models
    BY <2>1 DEF CatalogInv, CatalogTypeOK
  <2> DEFINE m == [model[k] EXCEPT !.deprecated = TRUE]
  <2>3. m \in Models /\ m.kind = model[k].kind
    BY <2>2 DEF Models
  <2>4. m # None
    BY <2>3, CatalogAssumption
  <2>5. model' = [model EXCEPT ![k] = m]
    BY <2>1
  <2> HIDE DEF m
  <2>6. model' \in [Keys -> Models \cup {None}] /\ model'[k] = m /\ \A j \in Keys \ {k} : model'[j] = model[j]
    BY <2>3, <2>5 DEF CatalogInv, CatalogTypeOK
  <2>7. Grows
    BY <2>1, <2>3, <2>4, <2>6 DEF Grows
  <2>8. ASSUME NEW e \in Entities PROVE Resolves(e, registry[e])'
    <3>1. PICK old : old = registry[e]
      OBVIOUS
    <3>2. Resolves(e, old)'
      BY <2>7, <3>1, ResolvesOn DEF CatalogInv, CatalogTypeOK, Plans
    <3> QED BY <2>1, <3>1, <3>2
  <2> QED BY <2>1, <2>6, <2>7, <2>8, IdleCommit DEF CatalogInv, CatalogTypeOK
<1>5. ASSUME NEW e \in Entities, NEW tenant, NEW admin, NEW k \in Keys, Repoint(r, e, tenant, admin, k) PROVE CatalogInv'
  <2> DEFINE t == [Idle EXCEPT !.op = "repoint", !.at = "locked", !.ent = e, !.key = k]
  <2>1. t \in Tasks /\ t.op = "repoint" /\ t.at = "locked" /\ t.ent = e /\ t.key = k /\ t.plan = Idle.plan
    BY IdleFits DEF Tasks, Ops, Stages
  <2>2. Continue(r, t) /\ UNCHANGED <<entity, model, registry>>
    BY <1>5 DEF Repoint
  <2> HIDE DEF t
  <2>3. Sound(t) /\ Fresh(t)
    BY <2>1, IdleFits DEF Sound, Fresh
  <2> QED BY <2>1, <2>2, <2>3, ContinueFits
<1>6. CASE RepointCheck(r)
  <2> DEFINE k == ModelTenant(x.ent, x.key)
             t == [x EXCEPT !.at = "shared", !.key = k]
  <2>1. x.op = "repoint" /\ x.at = "locked" /\ UNCHANGED <<entity, model, registry>> /\ x.ent \in Entities /\ x.key \in Keys
    BY <1>1, <1>2, <1>6 DEF RepointCheck, Sound
  <2>2. CASE Continue(r, Idle)
    BY <2>1, <2>2, IdleFits, ContinueFits
  <2>3. CASE model[k] # None /\ ~model[k].deprecated /\ model[k].kind = KindOf(x.ent) /\ Continue(r, t)
    <3>1. k \in Keys /\ k.tenant = Home[x.ent]
      BY <2>1, CatalogAssumption DEF ModelTenant, Keys
    <3> HIDE DEF k
    <3>2. t \in Tasks /\ t.op = "repoint" /\ t.at = "shared" /\ t.ent = x.ent /\ t.key = k /\ t.plan = x.plan
      BY <1>2, <2>1, <3>1 DEF Tasks, Stages
    <3> HIDE DEF t
    <3>3. Sound(t)
      BY <1>2, <2>1, <2>3, <3>1, <3>2 DEF Sound
    <3>4. Fresh(t)
      BY <3>2 DEF Fresh
    <3> QED BY <2>1, <2>3, <3>2, <3>3, <3>4, ContinueFits
  <2> QED BY <1>1, <1>6, <2>2, <2>3 DEF RepointCheck
<1>7. CASE RepointCommit(r)
  <2> DEFINE new == [id |-> x.key.id, version |-> x.key.version]
  <2>1. /\ x.op = "repoint" /\ x.at = "shared" /\ UNCHANGED <<entity, model>> /\ Commit(r, Idle)
        /\ registry' = IF registry[x.ent] = None THEN registry ELSE [registry EXCEPT ![x.ent] = new]
    BY <1>1, <1>7 DEF RepointCommit
  <2>2. /\ x.ent \in Entities /\ x.key \in Keys /\ x.key.tenant = Home[x.ent] /\ model[x.key] # None
        /\ model[x.key].kind = KindOf(x.ent)
    BY <1>2, <2>1 DEF Sound
  <2>3. new \in Pins /\ PinKey(x.ent, new) = x.key
    BY <2>2 DEF Pins, PinKey, Keys
  <2> HIDE DEF new
  <2>4. registry' \in Plans /\ \A e \in Entities : registry'[e] = registry[e] \/ (e = x.ent /\ registry'[e] = new)
    BY <2>1, <2>2, <2>3 DEF CatalogInv, CatalogTypeOK, Plans
  <2>5. \A e \in Entities : Resolves(e, registry[e])'
    BY <2>1, <2>2, <2>3, <2>4 DEF CatalogInv, Resolves
  <2>6. Grows
    BY <2>1 DEF Grows
  <2> QED BY <2>1, <2>4, <2>5, <2>6, IdleCommit DEF CatalogInv, CatalogTypeOK
<1> QED BY <1>3, <1>4, <1>5, <1>6, <1>7 DEF ModelNext

LEMMA WriteFits == ASSUME CatalogInv, NEW r \in Requests, WriteNext(r) PROVE CatalogInv'
<1>1. PICK x : x = task[r]
  OBVIOUS
<1>2. x \in Tasks /\ Sound(x) /\ Fresh(x)
  BY <1>1 DEF CatalogInv, CatalogTypeOK
<1>3. ASSUME NEW op \in {"attributes", "features"}, NEW e \in Entities, NEW tenant, NEW admin, NEW v \in Values,
             SaveValues(r, op, e, tenant, admin, v)
      PROVE  CatalogInv'
  <2> DEFINE key == LookupTenant(e, tenant)
             t == [Idle EXCEPT !.op = op, !.at = "called", !.ent = e, !.value = v, !.key = key]
  <2>1. key = Home[e] /\ key \in Tenants
    BY CatalogAssumption DEF LookupTenant
  <2> HIDE DEF key
  <2>2. t \in Tasks /\ t.op = op /\ t.at = "called" /\ t.ent = e /\ t.key = key /\ t.plan = Idle.plan
    BY <2>1, IdleFits DEF Tasks, Ops, Stages
  <2>3. Continue(r, t) /\ UNCHANGED <<entity, model, registry>>
    BY <1>3 DEF SaveValues, key
  <2> HIDE DEF t
  <2>4. Sound(t) /\ Fresh(t)
    BY <2>1, <2>2, IdleFits DEF Sound, Fresh
  <2> QED BY <2>2, <2>3, <2>4, ContinueFits
<1>4. ASSUME NEW op \in {"attributes", "features"}, ResolveAndValidate(r, op) PROVE CatalogInv'
  <2> DEFINE t == [x EXCEPT !.at = "validated", !.quiet = TRUE]
  <2>1. x.op = op /\ x.at = "called" /\ UNCHANGED <<entity, model, registry>>
    BY <1>1, <1>4 DEF ResolveAndValidate
  <2>2. CASE Continue(r, Idle)
    BY <2>1, <2>2, IdleFits, ContinueFits
  <2>3. CASE Admits(x.ent, x.key, x.op, x.value) /\ Continue(r, t)
    <3>1. /\ t \in Tasks /\ t.op = x.op /\ t.at = "validated" /\ t.ent = x.ent /\ t.key = x.key /\ t.plan = x.plan
          /\ t.value = x.value
      BY <1>2 DEF Tasks, Stages
    <3> HIDE DEF t
    <3>2. Sound(t) /\ Fresh(t)
      BY <1>2, <2>1, <2>3, <3>1 DEF Sound, Fresh
    <3> QED BY <2>1, <2>3, <3>1, <3>2, ContinueFits
  <2> QED BY <1>1, <1>4, <2>1, <2>2, <2>3 DEF ResolveAndValidate
<1>5. CASE StoreValues(r)
  <2>1. UNCHANGED <<entity, model, registry>> /\ Commit(r, Idle)
    BY <1>5 DEF StoreValues
  <2> QED BY <2>1, TablesKept, IdleCommit DEF CatalogInv, CatalogTypeOK
<1> QED BY <1>3, <1>4, <1>5 DEF WriteNext, SaveAttributes, SaveFeatures, ValidateAttributes, ValidateFeatures

LEMMA CatalogStutter == ASSUME CatalogInv, UNCHANGED catalogVars PROVE CatalogInv'
<1>1. UNCHANGED <<entity, model, registry, task>>
  BY DEF catalogVars
<1>2. \A x : Sound(x)' <=> Sound(x)
  BY <1>1 DEF Sound, Resolves
<1>3. \A x : Fresh(x)' <=> Fresh(x)
  <2>1. /\ Projected(Devices)' = Projected(Devices) /\ Projected(Assets)' = Projected(Assets) /\ Orphans' = Orphans
        /\ \A e : Current(e)' <=> Current(e)
    BY <1>1 DEF Projected, ProjectDevice, ProjectAsset, Pinned, Candidates, Orphans, Current
  <2>2. \A e, k, op, v : Admits(e, k, op, v)' <=> Admits(e, k, op, v)
    BY <1>1 DEF Admits, HasPin, PinResolves, Pinned, KeyOfPin
  <2> QED BY <2>1, <2>2 DEF Fresh
<1>4. \A q \in Requests : (Sound(task[q]) /\ Fresh(task[q]))'
  BY <1>1, <1>2, <1>3 DEF CatalogInv
<1>5. (\A e \in Entities : Resolves(e, registry[e]))' /\ CatalogTypeOK'
  BY <1>1 DEF CatalogInv, Resolves, CatalogTypeOK
<1> QED BY <1>4, <1>5 DEF CatalogInv

LEMMA CatalogStep == CatalogInv /\ [CatalogNext]_catalogVars => CatalogInv'
  BY EntityFits, BootFits, ModelFits, WriteFits, CatalogStutter DEF CatalogNext

\* Whatever saves, deletes, boots, new versions and re-points interleave, statement
\* by statement and on any number of replicas (internal/twin/registry.go,
\* internal/twinmodel): a pin names a version of the entity's own tenant and kind,
\* and a maintenance pass that nothing interleaved with leaves one registry row per
\* entity, pinned if a model fits it.
THEOREM RegistryRight == CatalogSpec => []RegistryAgrees
  BY CatalogInvInit, CatalogStep, CatalogInvImplies, PTL DEF CatalogSpec

\* A re-point never commits a pin to a deprecated version, and a write whose request
\* nothing interleaved with is stored only if the model the entity is pinned to
\* admits it (internal/twin/write.go, internal/twinmodel/repoint).
THEOREM WritesPinned == CatalogSpec => [][WritesAsPinned]_catalogVars
<1>1. CatalogInv /\ [CatalogNext]_catalogVars => [WritesAsPinned]_catalogVars
  BY CatalogInvImplies
<1> QED BY <1>1, CatalogInvInit, CatalogStep, PTL DEF CatalogSpec
=============================================================================
