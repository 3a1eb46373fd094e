----------------------------- MODULE TwinCatalog -----------------------------
(***************************************************************************)
(* The catalogue of twin models and the twin registry: the tables          *)
(* twin_model, twin_registry and the device and asset rows they describe,  *)
(* and the requests that read and write them concurrently (internal/twin   *)
(* registry.go and write.go, internal/twinmodel).                          *)
(*                                                                         *)
(* Postgres runs them at READ COMMITTED.  A statement reads a snapshot and *)
(* may then wait for a row another transaction has locked, so an upsert    *)
(* that computes the row from other tables is two steps here: the          *)
(* snapshot (at = "planned") and the write.  A transaction whose           *)
(* statements touch only rows it has locked, or that nobody can observe    *)
(* half-way, is one step.                                                  *)
(***************************************************************************)
EXTENDS Naturals, FiniteSets

CONSTANTS
  Devices, Assets,   \* entity ids, by the table that holds them
  Tenants,
  Home,              \* the tenant each entity belongs to
  ModelIds,          \* model ids; an entity's sanitised type is one of them
  Versions,          \* model versions, ordered as integers
  Policies,          \* what an author may ask of writes: subset of PolicyRecords
  Declarations,      \* what a model may declare of relations (see Topology)
  Requests,          \* requests and maintenance passes in flight, on any replica
  MaxSwept,          \* TWIN_REGISTRY_SWEEP_MAX
  MaxStarts,         \* bound: requests started
  None

Entities == Devices \cup Assets

\* enforcementMode = "reject", unknownKeys = "reject".
PolicyRecords == [strict: BOOLEAN, closed: BOOLEAN]

\* A version in the catalogue is named by tenant, model id and version.
Keys == [tenant: Tenants, id: ModelIds, version: Versions]
Models == [kind: {"DEVICE", "ASSET"}, policy: Policies, decl: Declarations,
           deprecated: BOOLEAN]
Unpinned == [id |-> None, version |-> None]
Pins == [id: ModelIds, version: Versions] \cup {Unpinned}

\* In place of a key: the pass has its snapshot.
Planned == [tenant |-> None, id |-> None, version |-> None]

\* Versions are integers of a column, so some have a newest; None is no row.
ASSUME CatalogAssumption ==
  /\ Devices \cap Assets = {}
  /\ Home \in [Entities -> Tenants]
  /\ Policies \subseteq PolicyRecords
  /\ Versions \subseteq Nat /\ MaxSwept \in Nat /\ MaxStarts \in Nat
  /\ \A S \in (SUBSET Versions) \ {{}} : \E v \in S : \A w \in S : w <= v
  /\ None \notin Entities \cup ModelIds \cup Tenants \cup Pins \cup Models \cup {Planned}

KindOf(e) == IF e \in Devices THEN "DEVICE" ELSE "ASSET"

VARIABLES
  entity,    \* [Entities -> ModelIds \cup {None}]: the row's type, None if no row
  model,     \* [Keys -> Models \cup {None}]: the immutable versions of the catalogue
  registry,  \* [Entities -> Pins \cup {None}]: twin_registry, one row per entity
  stored,    \* [Entities -> Values]: the modelled value a write has stored
  task,      \* [Requests -> record]: what each request is doing
  starts     \* requests started so far

catalogVars == <<entity, model, registry, stored, task, starts>>

\* What a write carries: a value the model allows, one that violates a declared
\* property, or one of a feature the model does not declare.
Values == {"none", "good", "bad", "undeclared"}

Idle == [op |-> "none", at |-> "idle", ent |-> None, key |-> None, value |-> "none",
         plan |-> [e \in Entities |-> None], quiet |-> FALSE]

\* quiet is a history flag: no other request has committed a write since this
\* one last set it.  No action depends on it.
Commit(r, t) ==
  task' = [q \in Requests |-> IF q = r THEN t ELSE [task[q] EXCEPT !.quiet = FALSE]]

Continue(r, t) == task' = [task EXCEPT ![r] = t]

CanStart(r) == task[r] = Idle /\ starts < MaxStarts

(***************************************************************************)
(* The projection of an entity into its registry row.                      *)
(***************************************************************************)
Pinned(e) == registry[e] # None /\ registry[e] # Unpinned
KeyOfPin(e) == [tenant |-> Home[e], id |-> registry[e].id, version |-> registry[e].version]

\* The versions of the model named after the entity's type, in its tenant.
Candidates(e) ==
  {v \in Versions : LET m == model[[tenant |-> Home[e], id |-> entity[e], version |-> v]]
                    IN m # None /\ m.kind = KindOf(e)}
Newest(S) == CHOOSE v \in S : \A w \in S : w <= v

\* What the upsert's SELECT computes: an existing pin is kept, otherwise the
\* entity is pinned to the newest matching version, otherwise left unpinned.
ProjectDevice(e) ==
  IF entity[e] = None THEN None
  ELSE IF Pinned(e) THEN registry[e]
  ELSE IF Candidates(e) # {}
       THEN [id |-> entity[e], version |-> Newest(Candidates(e))]
       ELSE Unpinned

\* The asset template is a second copy of the same statement.
ProjectAsset(e) == ProjectDevice(e)

Projected(S) ==
  [e \in Entities |-> IF e \notin S THEN None
                      ELSE IF e \in Devices THEN ProjectDevice(e) ELSE ProjectAsset(e)]

\* ON CONFLICT DO UPDATE: the planned row replaces the stored one whole.
Upserted(plan) == [e \in Entities |-> IF plan[e] = None THEN registry[e] ELSE plan[e]]

(***************************************************************************)
(* Device and asset rows, and the registry hooks that follow each of them. *)
(***************************************************************************)
\* SELECT ... FOR UPDATE on the entity row, held by a repoint.
EntityLocked(e) ==
  \E q \in Requests : task[q].op = "repoint" /\ task[q].ent = e

\* The entity is created or its type changed (one INSERT or UPDATE); the hook
\* TwinRegistrySync runs after it, in the same request.
SaveEntity(r, e, ty) ==
  /\ CanStart(r) /\ ~EntityLocked(e)
  /\ entity' = [entity EXCEPT ![e] = ty]
  /\ starts' = starts + 1
  /\ Commit(r, [Idle EXCEPT !.op = "sync", !.at = "called", !.ent = e])
  /\ UNCHANGED <<model, registry, stored>>

\* The hook's upsert for one entity: its snapshot, then its write.
SyncPlan(r) ==
  /\ task[r].op = "sync" /\ task[r].at = "called"
  /\ Continue(r, [task[r] EXCEPT !.at = "planned", !.plan = Projected({task[r].ent})])
  /\ UNCHANGED <<entity, model, registry, stored, starts>>

SyncWrite(r) ==
  /\ task[r].op = "sync" /\ task[r].at = "planned"
  /\ registry' = Upserted(task[r].plan)
  /\ Commit(r, Idle)
  /\ UNCHANGED <<entity, model, stored, starts>>

\* The delete commits, then the hook TwinRegistryDelete reclaims the row.
DeleteEntity(r, e) ==
  /\ CanStart(r)
  /\ entity[e] # None /\ ~EntityLocked(e)
  /\ entity' = [entity EXCEPT ![e] = None]
  /\ stored' = [stored EXCEPT ![e] = "none"]
  /\ starts' = starts + 1
  /\ Commit(r, [Idle EXCEPT !.op = "reclaim", !.at = "called", !.ent = e])
  /\ UNCHANGED <<model, registry>>

DeleteRegistryRow(r) ==
  /\ task[r].op = "reclaim"
  /\ registry' = [registry EXCEPT ![task[r].ent] = None]
  /\ Commit(r, Idle)
  /\ UNCHANGED <<entity, model, stored, starts>>

\* The process dies, or a hook's statement fails and is only logged: what has
\* been committed stays, what was planned is lost, locks are released.
Abandon(r) ==
  /\ task[r] # Idle
  /\ Continue(r, Idle)
  /\ UNCHANGED <<entity, model, registry, stored, starts>>

(***************************************************************************)
(* The maintenance pass of a booting replica: backfill of the devices,     *)
(* backfill of the assets, sweep of the orphans.  A pass that fails does   *)
(* not stop the next.                                                      *)
(***************************************************************************)
Boot(r) ==
  /\ CanStart(r)
  /\ starts' = starts + 1
  /\ Continue(r, [Idle EXCEPT !.op = "boot", !.at = "devices", !.quiet = TRUE])
  /\ UNCHANGED <<entity, model, registry, stored>>

AfterPass(at) == CASE at = "devices" -> "assets" [] at = "assets" -> "sweep"
                   [] at = "sweep" -> "done"     [] at = "delete" -> "done"

BackfillSnapshot(r, at, S) ==
  /\ task[r].op = "boot" /\ task[r].at = at /\ task[r].key = None
  /\ Continue(r, [task[r] EXCEPT !.key = Planned, !.plan = Projected(S)])
  /\ UNCHANGED <<entity, model, registry, stored, starts>>

BackfillWrite(r, at) ==
  /\ task[r].op = "boot" /\ task[r].at = at /\ task[r].key = Planned
  /\ registry' = Upserted(task[r].plan)
  /\ Commit(r, [Idle EXCEPT !.op = "boot", !.at = AfterPass(at), !.quiet = task[r].quiet])
  /\ UNCHANGED <<entity, model, stored, starts>>

BackfillDevices(r) == BackfillSnapshot(r, "devices", Devices) \/ BackfillWrite(r, "devices")
BackfillAssets(r) == BackfillSnapshot(r, "assets", Assets) \/ BackfillWrite(r, "assets")

PassFails(r) ==
  /\ task[r].op = "boot" /\ task[r].at # "done"
  /\ Continue(r, [Idle EXCEPT !.op = "boot", !.at = AfterPass(task[r].at)])
  /\ UNCHANGED <<entity, model, registry, stored, starts>>

\* The tenant-aware predicate: a registry row whose entity is gone.
Orphans == {e \in Entities : registry[e] # None /\ entity[e] = None}

\* The two brakes, from three counts taken before the DELETE: an empty pair of
\* tables, or more candidates than the ceiling, aborts the sweep.
SweepGuards(r) ==
  /\ task[r].op = "boot" /\ task[r].at = "sweep"
  /\ IF Orphans = {} THEN Continue(r, [task[r] EXCEPT !.at = "done"])
     ELSE IF (\A e \in Entities : entity[e] = None) \/ Cardinality(Orphans) > MaxSwept
     THEN Continue(r, [task[r] EXCEPT !.at = "done", !.quiet = FALSE])
     ELSE Continue(r, [task[r] EXCEPT !.at = "delete"])
  /\ UNCHANGED <<entity, model, registry, stored, starts>>

SweepDelete(r) ==
  /\ task[r].op = "boot" /\ task[r].at = "delete"
  /\ registry' = [e \in Entities |-> IF e \in Orphans THEN None ELSE registry[e]]
  /\ Commit(r, [task[r] EXCEPT !.at = "done"])
  /\ UNCHANGED <<entity, model, stored, starts>>

BootDone(r) ==
  /\ task[r].op = "boot" /\ task[r].at = "done"
  /\ Continue(r, Idle)
  /\ UNCHANGED <<entity, model, registry, stored, starts>>

(***************************************************************************)
(* The model catalogue.                                                    *)
(***************************************************************************)
\* The unpinned rows a new version takes over.
Activated(k, kind) ==
  [e \in Entities |->
     IF /\ registry[e] = Unpinned /\ Home[e] = k.tenant
        /\ KindOf(e) = kind /\ entity[e] = k.id
     THEN [id |-> k.id, version |-> k.version]
     ELSE registry[e]]

\* One transaction: insert the version (an existing one is answered 409), then
\* activate it.
CreateModel(r, k, kind, policy, decl) ==
  /\ CanStart(r)
  /\ model[k] = None
  /\ model' = [model EXCEPT ![k] = [kind |-> kind, policy |-> policy, decl |-> decl,
                                    deprecated |-> FALSE]]
  /\ registry' = Activated(k, kind)
  /\ starts' = starts + 1
  /\ Commit(r, Idle)
  /\ UNCHANGED <<entity, stored>>

\* FOR SHARE on the version a repoint has checked.
ModelShared(k) == \E q \in Requests : task[q].at = "shared" /\ task[q].key = k

Deprecate(r, k) ==
  /\ CanStart(r)
  /\ model[k] # None /\ ~ModelShared(k)
  /\ model' = [model EXCEPT ![k].deprecated = TRUE]
  /\ starts' = starts + 1
  /\ Commit(r, Idle)
  /\ UNCHANGED <<entity, registry, stored>>

(***************************************************************************)
(* Repoint: lock the entity, look the version up in the entity's tenant    *)
(* and share-lock it, update the pin, commit.                              *)
(***************************************************************************)
Repoint(r, e, tenant, sysAdmin, k) ==
  /\ CanStart(r)
  /\ entity[e] # None /\ ~EntityLocked(e)
  /\ sysAdmin \/ tenant = Home[e]
  /\ starts' = starts + 1
  /\ Continue(r, [Idle EXCEPT !.op = "repoint", !.at = "locked", !.ent = e, !.key = k])
  /\ UNCHANGED <<entity, model, registry, stored>>

\* Mutant: the tenant of the caller.
CallerTenant(e, k) == k

\* The version is looked up in the entity's own tenant, whoever asks.
ModelTenant(e, k) == [k EXCEPT !.tenant = Home[e]]

RepointCheck(r) ==
  LET t == task[r]
      k == ModelTenant(t.ent, t.key)
  IN /\ t.op = "repoint" /\ t.at = "locked"
     /\ IF model[k] # None /\ ~model[k].deprecated /\ model[k].kind = KindOf(t.ent)
        THEN Continue(r, [t EXCEPT !.at = "shared", !.key = k])
        ELSE Continue(r, Idle)
     /\ UNCHANGED <<entity, model, registry, stored, starts>>

\* UPDATE ... and COMMIT; with no registry row nothing changes and it answers 404.
RepointCommit(r) ==
  LET t == task[r]
  IN /\ t.op = "repoint" /\ t.at = "shared"
     /\ registry' = IF registry[t.ent] = None THEN registry
                    ELSE [registry EXCEPT ![t.ent] = [id |-> t.key.id, version |-> t.key.version]]
     /\ Commit(r, Idle)
     /\ UNCHANGED <<entity, model, stored, starts>>

(***************************************************************************)
(* A write of attributes or features: the pinned schema is resolved, the   *)
(* values are validated against it, and only then stored.                  *)
(***************************************************************************)
\* Mutant: the tenant of the token.
ClaimedTenant(e, tenant) == tenant

\* The tenant the schema is looked up in: the entity's, for a SYS_ADMIN too.
LookupTenant(e, tenant) == Home[e]

SaveValues(r, op, e, tenant, sysAdmin, v) ==
  /\ CanStart(r)
  /\ entity[e] # None
  /\ sysAdmin \/ tenant = Home[e]
  /\ starts' = starts + 1
  /\ Continue(r, [Idle EXCEPT !.op = op, !.at = "called", !.ent = e, !.value = v,
                              !.key = LookupTenant(e, tenant)])
  /\ UNCHANGED <<entity, model, registry, stored>>

SaveAttributes(r, e, tenant, sysAdmin, v) == SaveValues(r, "attributes", e, tenant, sysAdmin, v)
SaveFeatures(r, e, tenant, sysAdmin, v) == SaveValues(r, "features", e, tenant, sysAdmin, v)

\* Without a registry row of that tenant, or without a pin, nothing is enforced.
HasPin(e, tenant) == tenant = Home[e] /\ Pinned(e)
PinResolves(e) == model[KeyOfPin(e)] # None /\ model[KeyOfPin(e)].kind = KindOf(e)

\* What a write may carry.  A pin that does not resolve is an error, never a
\* pass; unknown attributes always pass; an undeclared feature is refused when
\* unknownKeys is "reject", whatever the enforcement mode.
Admits(e, tenant, op, v) ==
  HasPin(e, tenant) =>
    /\ PinResolves(e)
    /\ v = "bad" => ~model[KeyOfPin(e)].policy.strict
    /\ v = "undeclared" /\ op = "features" => ~model[KeyOfPin(e)].policy.closed

ResolveAndValidate(r, op) ==
  LET t == task[r]
  IN /\ t.op = op /\ t.at = "called"
     /\ IF Admits(t.ent, t.key, op, t.value)
        THEN Continue(r, [t EXCEPT !.at = "validated", !.quiet = TRUE])
        ELSE Continue(r, Idle)
     /\ UNCHANGED <<entity, model, registry, stored, starts>>

ValidateAttributes(r) == ResolveAndValidate(r, "attributes")
ValidateFeatures(r) == ResolveAndValidate(r, "features")

\* The shared write path (TwinStore); the entity may be gone by now, and the
\* rows are written all the same.
StoreValues(r) ==
  /\ task[r].op \in {"attributes", "features"} /\ task[r].at = "validated"
  /\ stored' = [stored EXCEPT ![task[r].ent] = task[r].value]
  /\ Commit(r, Idle)
  /\ UNCHANGED <<entity, model, registry, starts>>

(***************************************************************************)
(* The specification.  Entities exist before the catalogue does: a row may *)
(* have been created by an older build, with no registry row yet.          *)
(***************************************************************************)
CatalogInit ==
  /\ entity \in [Entities -> ModelIds \cup {None}]
  /\ model = [k \in Keys |-> None]
  /\ registry \in [Entities -> {None, Unpinned}]
  /\ \A e \in Entities : entity[e] = None => registry[e] = None
  /\ stored = [e \in Entities |-> "none"]
  /\ task = [r \in Requests |-> Idle]
  /\ starts = 0

EntityNext(r) ==
  \/ \E e \in Entities, ty \in ModelIds : SaveEntity(r, e, ty)
  \/ \E e \in Entities : DeleteEntity(r, e)
  \/ SyncPlan(r) \/ SyncWrite(r) \/ DeleteRegistryRow(r) \/ Abandon(r)

BootNext(r) ==
  \/ Boot(r) \/ BackfillDevices(r) \/ BackfillAssets(r)
  \/ SweepGuards(r) \/ SweepDelete(r) \/ PassFails(r) \/ BootDone(r)

ModelNext(r) ==
  \/ \E k \in Keys, kind \in {"DEVICE", "ASSET"}, p \in Policies, d \in Declarations :
       CreateModel(r, k, kind, p, d)
  \/ \E k \in Keys : Deprecate(r, k)
  \/ \E e \in Entities, t \in Tenants, admin \in BOOLEAN, k \in Keys :
       k.tenant = t /\ Repoint(r, e, t, admin, k)
  \/ RepointCheck(r) \/ RepointCommit(r)

WriteNext(r) ==
  \/ \E e \in Entities, t \in Tenants, admin \in BOOLEAN, v \in Values \ {"none"} :
       SaveAttributes(r, e, t, admin, v) \/ SaveFeatures(r, e, t, admin, v)
  \/ ValidateAttributes(r) \/ ValidateFeatures(r) \/ StoreValues(r)

CatalogNext ==
  \E r \in Requests : EntityNext(r) \/ BootNext(r) \/ ModelNext(r) \/ WriteNext(r)

CatalogSpec == CatalogInit /\ [][CatalogNext]_catalogVars

(***************************************************************************)
(* Properties.                                                             *)
(***************************************************************************)
\* Every committed pin names a version of the entity's own tenant and of its
\* kind, also when a SYS_ADMIN of another tenant asked for it: otherwise every
\* later write of the entity fails on a dangling pin.
PinsResolve == \A e \in Entities : Pinned(e) => PinResolves(e)

\* A maintenance pass that nothing interleaved with, and whose passes all
\* succeeded with the brakes off, leaves one registry row per entity, none for a
\* deleted one, and no entity unpinned that has a model of its type.
BootConverges ==
  \A r \in Requests : task[r].op = "boot" /\ task[r].at = "done" /\ task[r].quiet =>
    \A e \in Entities :
      /\ registry[e] # None <=> entity[e] # None
      /\ entity[e] # None /\ Candidates(e) # {} => Pinned(e)

\* The registry agrees with the catalogue and the entity tables, whatever saves,
\* deletes, boots, new versions and re-points interleave.
RegistryAgrees == PinsResolve /\ BootConverges

\* A re-point never commits a pin to a version that is deprecated by then; and
\* unless another request commits between the validation and the store, a value is
\* stored only if the model the entity is really pinned to admits it.
WritesAsPinned ==
  \A r \in Requests :
    /\ RepointCommit(r) /\ registry[task[r].ent] # None => ~model[task[r].key].deprecated
    /\ StoreValues(r) /\ task[r].quiet =>
         Admits(task[r].ent, Home[task[r].ent], task[r].op, task[r].value)
=============================================================================
