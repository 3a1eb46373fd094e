# ThingsFlow: verification

TLA+ models of ThingsFlow (`src/`), checked with TLC and proved with TLAPS. ThingsFlow is
an IoT platform: a Go control plane, `flow-core`, that speaks the ThingsBoard UI's REST and
WebSocket interface, Postgres for entities, attributes and alarms, NATS JetStream as the bus
and as the KV store of the *twin state* (one JSON document per entity), and Bento pipelines
as the data plane. What can go wrong here that a unit test does not reach lies between
processes and between statements: two stores written one after the other, an optimistic
document merge beside an unconditional one, redelivered messages, watches that skip
revisions, goroutines that share WebSocket connections, and handlers that check a row in one
statement and write it in the next.

1. [The system](#the-system)
2. [The modules and the code](#the-modules-and-the-code)
3. [What the runs check](#what-the-runs-check)
4. [What is proved](#what-is-proved)
5. [Deviations of the code from its documents](#deviations)
6. [Not modelled](#not-modelled)
7. [Plan](#plan)

To repeat: `tlc -config AlarmSafety.cfg MCAlarmMaterializer` (each `.cfg` goes with the MC
module that `PROJECT.json` names) and `tlapm TwinStoreProofs.tla`.

## The system

Paths are relative to `src/`; `internal/` is `flow-core/internal/`.

| Component | State | Operations | Hard because | Correct when | Here |
|---|---|---|---|---|---|
| Alarm materializer (`cmd/alarm-materializer`, `internal/alarmmaterializer`) | tables `alarm`, `entity_alarm`, attribute `alarm_count`; durable consumer | apply an intent: create, extend, escalate or clear an alarm, recount the ancestors | several SQL statements without a transaction; redelivery; crash; replicas; operators and device deletes on the same rows | one active alarm per device and type; acked means applied; severity never falls; counts agree; every intent is settled | `AlarmMaterializer` |
| Twin state store (`internal/twinstore`, `tenant/attributes.go`, `tenant_handler.go`, `api.go`) | `attribute_kv`; twin document and revision | attribute save = transaction + merge + event; telemetry write = merge | optimistic retries, two stores, timestamps, replicas, half-failed updates | merges atomic per key; no acknowledged merge undone; stores agree | `TwinStore`, `LwwStore` |
| latest-kv consumer (`k8s/.../bento-nats-latest-kv.yaml`) | the same document; its place in the stream | get and merge every point of a message, then set every point, ack | unconditional set, several points per message, redelivery, backfilled timestamps, recovered errors | drained document = newest value per key, of the last points of the messages | `TwinStore` |
| Twin watch (`twin_state.go`, `NATSStore.Watch`) | last document per entity, changes channel | diff and push, resubscribe, evict | skipped revisions, lost watch, bounded memory | sessions converge on the document | `TwinWatch` |
| Event journal (`internal/twinevents`, `ws/journal.go`) | subscription | publish and route events | core NATS: gaps, any order | each save is shown | `TwinWatch` (delivery), `WsCommands` (routing) |
| WebSocket sessions (`internal/ws/ws.go`) | session map, per session: lock, connection, identity, subscriptions, bindings of commands | register, authenticate, subscribe, query, push, ping, unregister | two locks, deadlines, stalled clients, a connection that allows one writer; a goroutine per query beside later messages | writers exclude each other; no broadcast hangs; nothing is sent that the client may not read or did not ask for | `WsSession`, `WsCommands`, `TwinWatch` |
| Topology (`internal/topology`) | `topology_edge` and its mirror `relation` | save, delete, repair at boot, traverse | two tables; an advisory lock that only the save takes; snapshots older than the lock waited for | no mirror outlives its edge; both orientations judged alike; traversals agree and stay in the tenant | `Topology` |
| Twin models and registry (`internal/twinmodel`, `internal/twin`) | `twin_model`, `twin_registry` | create, deprecate, re-point, validate; rows follow entities; boot backfill and sweep | upserts computed from snapshots; the pin is read before the values are stored | pins resolve, registry rows agree with their entities, values obey the pin | `TwinCatalog` |
| Devices, provisioning, quotas (`internal/device`, `provisioning`, `quotas`) | `device`, `device_credentials`, `device_profile`; a cache of limits | create, update, delete, import, provision, rotate credentials, edit limits | count and insert apart, cache filled by a stale reader, retries of lost answers | references hold; limits overshot by what is in flight; an edit reaches all in 30 s; a retry gets the same token | `DeviceAdmin` |
| The rest of the administration (`tenant`, `customer`, `asset`, `dashboard`, `resource`, `ota`, `widget`, `notification`, ...) | a dozen tables | save, delete, assign, set the default, of a tenant's rows and of tenants | a row checked by one statement and written by id by another | a row is written by its own tenant only; foreign keys hold | `Administration` |
| Users and login (`internal/user`, `auth`, `throttle`) | `tb_user`, `user_credentials`, `external_identity`, throttle counters | login, refresh, activate, reset, edit, OIDC callback | check and record apart with a bcrypt between; tokens read and cleared by two statements | one account per email; limits hold up to what is in flight; used tokens end | `Accounts` |
| RPC (`internal/rpc`) | pending requests, listener | one-way, two-way, reply | late, duplicate and foreign replies, every replica hears all | a reply reaches its caller only, and a fast one is not lost | `Rpc` |
| Desired and reported state (`internal/desiredstate`, `twin/write.go`) | retained message, `attribute_kv` | deliver, converge | unordered goroutines, every replica consumes | at rest the device and the store agree | `DeviceState` |
| Audit log (`internal/audit`) | queue, monthly partitions | log, write, sweep | bounded queue, restarts, months of unequal length | no unaccounted loss, nothing dropped early, partitions ready | `AuditLog` |
| Usage (`internal/usage`) | baseline of the hour | measure and publish | unsigned differences over hours, restarts, recreated streams | never more than what arrived | `UsageReport` |
| Key dictionary (`internal/db`) | table `key_dictionary`, a cache per replica | look up or insert | `ON CONFLICT DO NOTHING` returns no row | one number per key, everywhere | `KeyDictionary` |
| Policy (`internal/policy`) | versions of policies | create, deprecate, resolve, authorize | resolved in one step, served in a later one; two precedence rules | served only what a policy in force permitted | `Policies` |
| Migrations and bootstrap (`internal/migrations`, `bootstrap`) | schema version, seeded catalogues | migrate, stamp, seed | replicas start together, time out and crash; loaders that skip a table with rows | an unharmed start leaves every catalogue whole | `StartUp` |
| Listings (all `list*` handlers) | none | count, read one page | two statements, offsets, ties, cursors | a walk finds each row once | `Listings` |

`PROJECT.json` lists every component with its sources and status, and under `hazards` what
is hard to test, each at its line.

How the parts interact. Devices publish telemetry; the pipelines feed the stream that the
latest-kv consumer merges into twin documents, and detect alarms whose intents the
materializer applies. REST saves commit to Postgres, merge into the same documents and
publish a journal event. Each flow-core replica watches the KV bucket and listens to the
journal, and pushes both to its sessions. Operators read and change alarms, and delete
devices, over the tables the materializer writes. Saving or deleting a device or an asset
calls a registry hook (`TwinCatalog`), and the registry decides which model judges an edge
(`Topology` extends `TwinCatalog`). Creating rows of any kind asks the quota (`Administration`
extends `DeviceAdmin`). Deleting a tenant deletes its users (`Administration`, and
`HandleTenantDelete` of `Accounts`). The other components meet in the database only.

## The modules and the code

**`AlarmMaterializer`** One action per SQL statement of `ApplyIntent`
(`FindActiveAlarm`, `ClearAlarm`, `EscalateAlarm`, `ExtendAlarm`, `InsertAlarm`,
`LinkEntityAlarm`, and of the recount `WalkAncestors`, `ResolveKey`, `CountBelow`,
`UpsertCount`), because the code opens no transaction and Postgres reads committed rows. `pc` and `loc` are a
handler's place and locals. `stream`, `delivered`, `unacked` and `acked` are the durable
JetStream consumer: explicit acks, `Deliver` both first and repeated; a message that
`Validate` refuses or whose device is missing is terminated. `StatementFails` leads to a nak,
`Crash` to a restart with empty locals, `AckLost` to a redelivery, `KeyDictFails` is the
error that `RefreshAncestorAlarmCounts` logs. `AckByOperator`, `ClearByOperator`,
`DeleteDeviceAlarms`/`CommitDeviceDelete`/`AbortDeviceDelete` and `Retention` are the other
writers. The device delete is an open transaction: `doomed` rows are locked until it ends.
Uuids are a finite set, names and payloads are model values or a few strings.

**`LwwStore`** The abstract promise of the document: one atomic merge per write; per key the
newest timestamp wins and the later one of two equal ones; `updatedTs` is the newest timestamp in it.

**`TwinStore`** Writers of one entity. `req[w]` is a request: `SaveRequest`,
`CommitAttributes`, `StampAttributes` (the merge's timestamp is read after the commit), then
the loop of `NATSStore.merge`: `GetDoc`, `PutDoc`, `PutConflicts`, with `PutLost` and
`PutUnacked` for an update that times out before or after the server applied it, and `PublishSaved`. REST
telemetry enters the same loop. A message of the stream is one point of the device or an
array of several (`Message`; at most `MaxPoints`), which the pipeline unarchives into a batch
(`bento-nats-latest-kv.yaml:76-95`). Bento runs a batch stage by stage, so the consumer is
`SampleGet` for every point, then `SampleSet` for every point (no revision check), then
`SampleAck`, with failing gets (`SampleGetFails`, recovered as an empty document), failing
sets (`SampleSetFails`, dropped and acknowledged) and `Redelivery` at each place. Two points of one message merge into the same
document, and the second set drops what the first brought. Points of other devices in the array touch other documents.
Values are the identity of who wrote them; JSON and key
names are abstracted. Wall clocks of replicas are assumed to agree and not to go back; equal
milliseconds occur. A point carries one timestamp: one without `ts`, which the pipeline stamps when it
processes it, and timestamps of single values are left out. The document has no size limit and no key is deleted.

**`TwinWatch`** extends `TwinStore` with one replica's watch (`Deliver`, `ApplyTwinChange`,
`WatchCloses`, `Resubscribe`, and `Forget` for the eviction of `boundLastStates`), one session
(`Subscribe`, `ReadAttributes` or `ReadAttributesFails`, which ends without an initial payload,
`SendInitialAttributes`) and the journal
(`RouteJournalEvent`, `JournalGap`). `watched` is what the watch pushed last, `view` what either
channel pushed last. The bucket's history of one revision appears as: `Deliver` hands over
the document as it is now, once per new revision seen. Backoff delays are left out.

**`WsSession`** Locks, goroutines and deadlines of the connections: the handler
(`Connect` ... `Unregister`), a query goroutine, the pinger and the broadcasters, which walk
over the map under the read lock of `sessionManager` and take `session.mu` per session. A
waiting `Unregister` holds new read locks back, as Go's RWMutex does. gorilla/websocket is
external and modelled from how the code uses it (one data writer, `WriteControl` beside it, a write deadline that stays
set, sticky write errors). Several `WriteJSON` calls of one broadcast to one session are one write;
taking the write lock, deleting the entry and closing the connection is one step.
Each modelled command is one the handler accepts.

**`WsCommands`** What a session may ask for: `Receive` is a message with its token and its
classification, `filterOwnedSubCmds` the gate (outside the lock), `RegisterSubs` the lists
under it. `tasks` are the goroutines: one per subscription (`SendInitial`) and one per
query, which takes the session's identity once (`TakeScope`) and then answers every query of the
message, `Gate` and `Bind` apart. `Walk` is the confined walk over relations. The broadcasters are operators that
say what a session is pushed for an event (`RouteEvent`), since they read it under `session.mu`. SQL filters,
pages and the budget of a walk are left out: a list stands for all its pages.

**`TwinCatalog`** The tables `twin_model` (`model`), `twin_registry` (`registry`), the entity
rows (`entity`) and one value that writes store (`stored`). An upsert of a registry row reads a
snapshot and may then wait for a row lock, so it is `SyncPlan` and `SyncWrite`, and the boot
passes are `BackfillDevices`/`BackfillAssets` (snapshot) and the writes they planned, then
`SweepGuards` and `SweepDelete`. `CreateModel`, `Deprecate`, `Repoint`/`RepointCheck`/
`RepointCommit` are the catalogue; `SaveAttributes` and `SaveFeatures` read the pin,
`ValidateAttributes`/`ValidateFeatures` judge the value and `StoreValues` stores it. `Abandon`
is the process dying between a commit and its hook.

**`Topology`** `edge` and `relation` are the committed rows, `txn[s]` an open transaction with
its uncommitted inserts and deletes, which other statements wait for. `SaveEdge` is
`CheckEdge` (relation type, models of both ends, tenant), `SaveTopologyEdge` under the
advisory lock, `SaveLegacyMirror`, `CommitEdge`; `DeleteEdge` is `DeleteTopologyEdges`,
`PickMirror` (the `NOT EXISTS` of its snapshot) and `DropMirror` (after the wait). `crossed` is history: the pairs of which deletes of both orientations were
under way at once. `RepairBackfill` is the repair at boot. The reads are operators: `Neighbors` with its two sources, `ExpandWithCTE`,
`ExpandDepths`, the walk of the WebSocket handler, `WalkRelations`, and that of the entity query, `RelationsQuery`.

**`DeviceAdmin`** `req[r]` is a request of one handler and `pc` its next statement: the
handlers of `crud_device.go`, `device_with_credentials.go`, `bulk_import.go` and
`provisioning.go`, with `LimitsFor`/`ReadLimits`/`StoreLimits`/`InvalidateCache` and `Enforce`
of the quota and its cache per tenant. Provisioning alone keeps its statements in a transaction, whose rows appear at
`CommitProvision`. `Fail` is a statement refused by a foreign key or unique index.

**`Administration`** All other administrated tables as one, `row`, because their handlers
guard a row in one of three ways: a select of its tenant and then a write by id, one
statement that names the tenant, or an upsert by name. Each REST operation is a definition
with its own guard (`CustomerSave`, `AssetSaveProfile`, `UpdateScoped`, `Upserted`,
`DeleteComment`, ...) over the statements they share, and `work[r]` is a request on these
tables as `req[r]` is one on devices. `RefersTo` names the foreign keys of the schema: an
insert or update they refuse is an error, a delete they refuse leaves the row (`Refused`).
`tenant` and `tprofile` are tenants and their profiles; `DropTenant` deletes all that a tenant
owns but what another tenant's rows refer to (`Kept`). It extends `DeviceAdmin`, so quotas,
profiles and tenants meet devices.

**`Accounts`** `user`, `credential`, `identity` are the tables, `work[r]` a request, one action
per statement; `Allow` and `RecordFail` are the two critical sections of the throttle.
`session` keeps what an access token says, `guessed` and `granted` (who holds SYS_ADMIN by a grant that
stands) are history. Passwords are
model values; what a bcrypt compares is equality.

**`Rpc`** `call[c]` with a fresh id: `Handle`, `IsOnline`, `Register`, `Publish`,
`PublishReturns`, `Return`; the broker may deliver a command twice and a publish it accepted may
look failed. `HandleResponse` is the listener. **`DeviceState`** One goroutine per write
(`SaveDesired`, `DeliverDesired`, `DeliveryFails`), a device that reconnects, and reported
values saved by each listener. **`AuditLog`** Days, months and partitions (`Sweep`: the first CREATE that fails ends it, a DROP that
fails leaves its partition), the queue
(`Write`), the writer (`WriterTakes`), `Stop` and `Restart`. **`UsageReport`** A snapshot
reads the clock, then each tenant's two sequences; unsigned differences are taken modulo
`2^Width`. **`KeyDictionary`** The lock of the cache, `InsertKey` and `SelectKey`.
**`Policies`** `Authorize` and `MatchResource` as operators over sequences of segments, and a
catalogue edited while a request is between `ResolveAndAuthorize` and `Served`; `Permitted` is the
reference definition they are checked against. **`StartUp`** `ReadVersion`, `ForceBaseline`, `LockForUp`, `Up`,
`Serve` (after the ten seconds, migrated or not), then the loaders in their order, each with
its check, its rows and its commit. **`Listings`** Each handler is the set of listings it
serves, a record of scope, sort, counting and paging; `CountRows` and `FetchPage` are the two
statements, `EditTable` everybody else.

`MC*` modules hold what TLC needs: intents, trees, requests, documents and symmetry sets.

## What the runs check

| Run | Question and answer |
|---|---|
| `alarm_safety` | One replica under failed statements, crashes, lost acks, operators, device delete and retention. `OneActivePerType`: no two active alarms of one device and type. `AckedIsMaterialized`: an acked intent left a row with at least its severity. `SeverityNeverDowngraded`: no statement that acts on a row read earlier lowers a severity or an end. All hold. |
| `alarm_counts` | Two devices, two types, a tree of assets, lost acks, malformed and foreign intents. `SettledTablesAgree`: when nothing is in flight every alarm is linked and every count right. `EveryIntentSettled`. Without statement failures, crashes and operators: see the deviations. |
| `alarm_two_replicas` | Refutes `OneActivePerType` for two replicas. |
| `twin_store` | Saves, one after the other, beside telemetry requests with any one fault; or the consumer by itself with redelivery, a failing set, two points in a message and timestamps in any order. The loop refines `LwwStore`, and so does the consumer but for the sets of a point that is not the first of its message (`ImplementsLww`); `MergedIsKept`, `ConflictNeedsOtherWrites`, `StoresAgreeWhenIdle`; `DrainedDocIsTheMerge`, of the last point of every message, until a set fails (`sink.failed`); `UpdatedTsIsNewest`. |
| `twin_concurrent_saves` | Refutes `StoresAgreeWhenIdle` for two overlapping saves. |
| `twin_live_view` | Saves, the consumer (also with a failing get) and the watch together, to a session: `NothingMissed` between registration and initial payload; `ViewConverges`; `SavesAreShown`, also when the merge gave up, and every request and message ends. |
| `ws_sessions` | One connection, two broadcasters, a client that stalls or leaves anywhere: `LockedWritersAreExclusive`, `BroadcastsReachRegistered`, `NobodyIsHeldUp`. |
| `ws_concurrent_writers` | Refutes `OneWriterPerConnection`. |
| `topology` | Edges: `EdgesStaySound` (the unique index is never met, no mirror outlives its edge, both orientations are judged alike), `TraversalsStayEqual` (the reads agree and stay in the tenant). Catalogue: `RegistryStaysRight` (rows, pins, versions and entities agree), `StoredAsPinned` (no re-point to a deprecated version; what is stored is what the pinned model admits, unless another request commits in between). |
| `topology_crossing_deletes` | Refutes `MirrorsAreRemoved`: two deletes of one pair, one of either orientation, leave a mirror without an edge. |
| `control_plane` | `ReferencesHold` through deletes between check and write, `OvershootBounded`, `EditsPropagate`, `RetryGetsSameToken`, and `TenantsKeptApart`: no interleaving writes a row for another tenant or moves it to one. |
| `services` | Ten components: `AccountsHold`, `GuessesBounded`, `TokensEndWithTheirUse`; `AnswersReachCallers`; `DeviceAndStoreAgree`; `AuditTrail`; `UsageIsMeasured`; `KeysHaveOneNumber`; `ServedAsPermitted`; `SeedsWhole`; `WalksFindAll`; `SubscriptionsHold` (what a session is sent is of a tenant whose token it showed, and was asked for by that command). |

`services` and `topology` put components that share no state into one run: the variable
`part`, chosen at the start, says whose behaviour it is, and the others rest in one state. The
state spaces add up instead of multiplying. Each property of a passing run has a mutant in
`PROJECT.json`: a plausible bug in one modelled definition under which TLC refutes it. The
mutants stand beside the definitions they replace.

**Bounds.** *Alarms*: two intents on one device and type reach every pair (raise and
escalate, raise and clear, clear and raise) with two faults between any of their statements;
more intents repeat these pairs, since a handler sees one message and the row. Two ticks give
earlier and later ends. The tree has an asset above an asset and a device directly below
the root, so that a count sums over paths of different length. *Twin*: two saves and two
posters give every order of two merges around a third; three attempts let a request lose
twice and succeed or lose thrice; two timestamps suffice for older, equal and newer. Three samples,
because the newest of two can be restored by the last one, and two points in a message, since a third is overtaken as the second is. *Watch*: two points, numbered as they are sent (`InOrder`), in one message or in two, and a save
let the watch skip a revision and evict or lose its base between two changes; a pending
channel of one forces it. *Sessions*: one connection suffices for the locks of a connection;
two broadcasters of both kinds contend for it. What several connections add, that a walk
may not meet a removed one, is proved for any number.

*Topology*: two sessions, three assets of one tenant and one of another, a directed and a
bidirectional declaration; a behaviour either mixes two transactions with changes of all they read (entities,
registry, models) and with two mirrors from before the edge table, one across tenants (`edges`), or runs five on
one pair of assets, so that a third transaction meets what two interleaved ones left (`pair`). *Catalogue*: one device and one asset (their hooks
differ), two versions of which the second is the stricter, three requests, two at once: a create, a deprecation and a re-point, or
a save, a delete and a boot. *Control plane*: three requests on devices, because a cached
limit takes a reader, an editor and a creator; two on the other tables, where a handler's check is
undone by one other. A clock of one tick is the cache's time to live, and no tick passes while a
request is between reading the limits and storing or counting with them (`Tick`): `EditsPropagate` relies on it, since a reader
held up for longer caches old limits for that much longer. *Accounts*: two requests
at once, three in all, and six logins against caps of two addresses and three attempts, so
that both caps are met and overshot. *Rpc*: two calls of one replica, two replies; a second
replica only hears replies it drops. *Device state*: two writes of either or both of two
features, two reports, two listeners. *Audit*: months of three and two days, nine days, a
queue of one, retention of three, so that partitions come and go twice. *Usage*: counters of
two bits wrap within two messages; two hours, two snapshots, one fault. *Keys*: two goroutines
of one replica and one of another. *Policies*: two versions, three edits, four documents whose
entries differ in depth, wildcards and revocations. *StartUp*: two replicas, one mishap, two
rows per catalogue: partly seeded differs from empty and from whole. *WebSocket commands*:
three messages of six, each sent once, so that a command is bound, completed by a second step and bound
again, under tokens of two tenants; a message is read while at most one goroutine is at work (the property also holds for three). *Listings*: five rows, two with one
key, pages of two, one edit. `MaxFaults` and its like bound only how many faults
one behaviour has, at every place they can happen. `CHECK_DEADLOCK FALSE` everywhere: each
instance has finitely many requests and stops when they are done.

**Symmetry** is used in safety runs only: uuids, requests, sessions, samples, keys of a kind and
connections are not distinguished by the specifications.

**Fairness.** *Alarms*: `WF` of a handler's own steps (Go runs the callback to its end);
`SF` of the delivery of a message, because JetStream redelivers it until it is acknowledged or
terminated (no `MaxDeliver`) and a replica is idle again and again; `WF` of the commit of an open device
delete. *Twin*: `WF` of requests, consumer, watch loop, snapshot and journal callback.
*Sessions*: `SF` where a goroutine waits for a mutex, since Go's mutexes do not starve;
`WF` of time (`Expire`, `PingTick`). Clients, devices, operators, the clock and faults have none; a
stalled client never has to read. `NobodyIsHeldUp` has an exception that the code does
have (`Unbounded`, below). `topology`, `control_plane` and `services` check safety and state no fairness.

## What is proved

For all constants that satisfy the named `ASSUME`s, checked by tlapm. No theorem uses a bound
of TLC: clocks, faults, requests, rows, sessions, keys and documents are parameters. Where a
theorem has a hypothesis of its own, it is named here, and it is one the code needs: a run shows
what happens without it, or the deviations say so.

**`AlarmMaterializerProofs`** `TypeCorrect` needs nothing. The others speak of one
replica (`alarm_two_replicas` shows why).

- `SingleReplica` (`OneActivePerType`, under every fault and operator). An insert is safe only
  because the handler's lookup found no row *and* nobody raised one since: `LookupHolds`, kept
  because only `InsertAlarm` raises an alarm.
- `AckedMaterialized` (`AckedIsMaterialized`) and `SeverityRises` (`SeverityNeverDowngraded`).
  `SingleInv` adds that rows and handlers are not ahead of the clock (`Ordered`), what a handler at
  `extend` or `escalate` still knows of the row it looked up, whatever an operator did to it
  (`Found`), and that an intent past its write is materialized (`Applied`).
- `SettledCounts` (`SettledTablesAgree`), for a replica that only redeliveries disturb. The
  invariant `CountInv` says that a count which is out of date is one the handler is on its way to
  count (`Counted`, `Recounts`), that a row out of its device's list is about to be linked
  (`Linked`), and what the handler knows of its row (`AtWork`, `Rows`). That the recursive query upward
  and the one downward are each other's inverse (`AboveBelow`) carries the step of
  the insert to the step of the count. `Undisturbed` names the hypotheses: no operator, no failed statement
  and no crash (see the deviations), the devices below an asset belong to one tenant, and a valid
  intent of another tenant than its device's neither clears nor escalates an alarm. The
  instance of `alarm_counts` meets them.

**`TwinStoreProofs`** The store, its consumer and the watch. `Inv` is `TypeOK`, `Handles` (where a
request is tells what it is and that it has a timestamp), `Reads` (a request about to write whose
revision is still current holds the current document: the heart of optimistic locking),
`Counts` (without faults each lost attempt was overtaken by another write) and `Docs` (every
document in sight has a truthful `updatedTs`).

- `TypeCorrect`, `NewestCorrect` (`UpdatedTsIsNewest`, whoever writes), `ConflictCorrect`
  (`ConflictNeedsOtherWrites`): no hypothesis.
- `MergesAreAtomic` (`Spec => ImplementsLww`, step by step) and `MergedCorrect` (`MergedIsKept`) for flow-core's
  writers alone (`Samples = {}`). `SinkIsAtomic` (`ImplementsLww` too): of the consumer alone, when its gets do
  not fail, the first set of a message is an atomic merge and a later one a merge into the document from
  before the message (`LaterPoint`), and `PointsAreAtomic`: with one point per message every set is an atomic merge. Together
  the two writers do not refine the store: the consumer does not check revisions.
- `StoresAgree` (`StoresAgreeWhenIdle`) for saves one after the other (`Overlap = FALSE`) without consumer.
  `SaveInv` follows each value from the row through the merge: who wrote it (`Owned`, `Wrote`), that
  the clock orders the stamps as the commits (`Stamped`), and when the stores agree (`Agreed`).
- `DrainedCorrect` (`DrainedDocIsTheMerge`) for samples beside attribute saves, not beside REST telemetry on the same
  keys (`Posters = {}`). The invariant `Drains` says of the processed prefix of the stream that
  the document has absorbed the last point of each message, redelivered messages included.
- `NothingIsMissed` (`NothingMissed`, of `LiveSpec`: everything, every fault of the watch). `LiveInv` says
  that a value the watch has seen was pushed or is in the initial payload (`Shown`), that the
  pending channel holds only what follows (`Channel`), and where each value comes from (`Sourced`).

**`WsSessionProofs`** `Inv` is `TypeOK`, `Walks` (a broadcast is at one session at a time; what it
has still to visit is registered) and `Locks` (`session.mu` names its owner; whoever is inside
`WriteJSON`, the handler apart, owns it). From it `TypeCorrect`, `LockedWritersExclude` and
`BroadcastsReach`, for any number of connections. `SubscriptionsStayRight` (`SubscriptionsHold`, of `WsSpec`)
follows from `WsInv`, which states for each place a command passes through (task, list,
binding, answer) that it was asked for and that its entity may be read under a token that was shown.

**`ServicesProofs`** Seven components of `services`, each by its own specification. `OneNumber`
(`KeysHaveOneNumber`) and `KeysTypeCorrect`: the table never changes a number and draws new ones
above all others, a cache holds only what the table answered. `CataloguesAreWhole` (`SeedsWhole`): a loader runs
its catalogues in order, and what it found full is whole unless a start was harmed. `AnswersReach`
(`AnswersReachCallers`) and `RpcTypeCorrect`: a reply in a channel names the call whose channel it is,
and a registered call listens. `StateAgrees` (`DeviceAndStoreAgree`): the retained message and
the device follow the last write that did not overlap; the queue of reported values ends with the device's.

- `AuditTrailKept` (`AuditTrail`): `AuditInv` counts every event (`EventsAccountedFor`), orders rows and queue
  (`EventsInOrder`) and puts a row into its month (`RowsInTheirMonth`). That a day lies in one month, and that the sweep
  drops a partition only when its last day has expired, are lemmas on a calendar of any lengths
  (`DayHasMonth`, `SweepDropsExpired`, `SweepCovers`).
- `UsageStaysMeasured` (`UsageIsMeasured`): the sequences are ahead of the baseline by no more than
  what arrived since the hour it was taken for (`Arrivals`), recreated streams included, and a snapshot that
  has read the first of them likewise. Sums over hours (`Since`) grow with what arrives (`SinceArrived`), and the difference modulo `2^Width` is the difference (`MinusIsDifference`).
- `WalksAlwaysFindAll` (`WalksFindAll`): a walk with a cursor has every lasting row up to its last one,
  whoever edits the table (`CursorOK`), and one by page numbers a prefix of the only order there is
  (`PagesOK`, from `OneOrder` and `PagesJoin`), for every listing of the handlers (`ListingsSound`).

**`AccessProofs`** `ServedIsPermitted` (`ServedAsPermitted`): the document a request holds was in force since it
began, and `Authorize`, which looks for the deepest match, agrees with the reference definition
`Permitted` on every document and resource. `UsedTokensEnd` (`TokensEndWithTheirUse`): a token is held by one
row at most and is not used yet, also between its SELECT and its UPDATE. `GuessesAreBounded`
(`GuessesBounded`): failures and requests under way together stay within the cap plus
the other requests. `AccountsStayRight` (`AccountsHold`): an edit about to write SYS_ADMIN for a caller who is not one read it from
the row, and a demotion meanwhile leaves the grant (`WritesBack`).

**`TopologyProofs`**, **`TwinCatalogProofs`** `EdgesSound` (`EdgesAreSound`, of `Spec`) and
`EdgesSoundHere` (`EdgesStaySound` of the run): `TopologyInv` says what each transaction holds
(`TxnOK`), that two hold different rows (`Apart`: the advisory lock and the row locks), and that a
mirror a delete neither drops nor has still to look at keeps an edge (`Leaves`), but for crossing
deletes. `RegistryRight` (`RegistryAgrees`) and `WritesPinned` (`WritesAsPinned`) of `CatalogSpec`, and
`RegistryRightHere`, `StoredRightHere` of the run: every pin, stored or planned, resolves
(`Resolves`), since versions are never deleted; a re-point past its lock holds a version in force
(`Sound`); what a boot or a write knows ends with another's commit (`Fresh`).

- `TraversalsEqual` (`TraversalsAgree`, of `Spec`) and `TraversalsEqualHere` (`TraversalsStayEqual` of the run).
  Of `TopologyInv` they need that the ends of an edge are of its tenant. The labels of the
  breadth-first search are what everything is compared with (`Labelled`: a step leads at most one label
  up, and every node but the root has a step into it from one label below). A path of `d` steps of the
  recursive query ends at a label of at most `d` (`PathsFollow`), and every node ends a path as long as
  its label that repeats no node (`NodesHavePaths`), cycles or not; the walk that asks for no tenant, but
  goes on from owned nodes only, stays among the labelled nodes (`WalkWithinQuery`).

**`AdministrationProofs`** Of `AdminSpec`, devices and all other tables together. The invariant
is `Types`, `Tables` (the constraints of the device tables) and `Settled`: foreign keys, unique
names and tenants' profiles (`Linked`, `HasProfile`), and for each request past its check what it
knows of the row it will write (`Knows`). It stays true until the write because a uuid is
used once and a row never changes its table or its tenant. From it `ReferencesKept` (`ReferencesHold`) and
`RowsStayWithTheirTenant` (`TenantsKeptApart`); with `Tokens` (who created a device and whether its
credential was replaced) `TokensAgree` (`RetryGetsSameToken`); with `Edits` (a cached or held limit older
than an edit expires within the time to live) `EditsReach` (`EditsPropagate`); with `Overshoot` (devices
and admissions under way together) `OvershootIsBounded` (`OvershootBounded`), for tenants that start within their
limits.

**Assumptions on constants.** Finite sets of requests, ids and users where the properties count;
distinct markers for "no row"; inputs that have the form their handler parses; tables that meet
their constraints at the start; a finite set of entities (a traversal's budget counts them); a calendar
that goes on for two months after the last day (`CalendarAssumption`); an unsigned width that holds every
sequence (`UsageAssumption`); rows of a listing with ids of their own (`ListingsAssumption`). They are the `ASSUME`s of the modules, and TLC evaluates all of them.

**Only model-checked.**

- Liveness (`EveryIntentSettled`, `ViewConverges`, `SavesAreShown`, `NobodyIsHeldUp`): fairness and
  `ENABLED` are beyond the prover.
- That a run's instance meets the hypotheses above, and that the models can do what they are meant to
  (every action of the passing runs fires).

Every safety property of the passing runs has its theorem.

**Induction.** The library's induction theorems take an operator as a parameter, which the provers do not
instantiate. Induction is therefore about a set of naturals, from the well-founded order of
finite sets (`NatSetInduction`, `LevelInduction`): a set that contains 0 and with `n` also `n + 1`
contains every natural number. A recursive function equals its equation because each of its finite parts exists
(`RunningSum`, `SumsExist`, `GrownExists`, `LevelsExist`, `WalkExists`). No module declares a recursive
operator: the ancestors of an asset, a recursive query in the code, are the least set closed under the
relation (`Reach`); paths and walks of a traversal, days before a month and sums over hours are recursive
functions.

**What the proofs changed in the models.** Overlapping `CASE` guards of `DeviceAdmin`, `Administration`, `Rpc`
and `WsCommands` are exclusive now; `Accounts` grants where the row is written; the scope of a session
(`allows` of `WsCommands`) admits no empty entity id; `DropTenant` keeps what rows of other tenants refer to, and a comment is deleted
from its own table. TLC had not told them apart on its instances. The rounds of a traversal and the sums of
the usage report have names of their own (`Onward`, `Further`, `Wider`, `Since`), so that lemmas can speak of them.

## Deviations

Refuted by a run (`findings` in `PROJECT.json` quotes the lines):

1. Two materializer replicas insert two active alarms of one device and type, although
   `values.yaml` calls replay and replicas safe ("no duplicate rows"): `alarm_two_replicas`.
2. Two overlapping saves of one attribute leave `attribute_kv` with one value and the twin document
   with the other, although `attributes.go` says "the two stores always agree": the merge timestamp is taken after the commit:
   `twin_concurrent_saves`.
3. The handler answers notification commands without `session.mu`, so two goroutines can be
   inside `WriteJSON` of one connection: `ws_concurrent_writers`.
4. Two deletes of one pair of entities, one of either orientation, leave a mirror in `relation`
   without an edge, although `docs/DIGITAL_TWIN.md:409` says that either removes both mirrors: each
   keeps the mirror for the edge that the other is about to delete (`topology.go:274`), and the
   repair of the next boot makes an edge of it again: `topology_crossing_deletes`.

Met while modelling, described rather than run. The properties state what holds in spite of them.

*Alarms and twins*

- A crash or failed statement between `InsertAlarm` and `LinkEntityAlarm` leaves the alarm unlinked:
  the redelivery takes the extend branch. The counts are likewise not refreshed until the next
  create or clear below the asset. `alarm_counts` therefore has no such fault.
- An operator's clear over REST does not refresh `alarm_count`.
- `FindActiveAlarm` (`postgres.go:19`) does not ask for the tenant of the intent, while the insert
  does. An intent of another tenant clears or escalates the alarm, and then counts
  the ancestors' alarms under its own tenant. The theorem `SettledCounts` names the hypothesis.
- An alarm inserted while a device delete is open survives the device.
- A merge that fails for good after the commit leaves the document stale until the next save
  of the key; the comment at `attributes.go:33-35` expects the watch to repair it, which only
  reads the document. `StoresAgreeWhenIdle` excludes such a save.
- The latest-kv consumer takes an error of its get for a new device and then overwrites the
  document (attributes included), and acknowledges a message whose set failed.
  The history field `sink.failed` marks both, and `DrainedDocIsTheMerge` ends there.
- Of a message with several points of one device only the last point is sure to arrive: all gets of the batch precede
  all sets (`bento-nats-latest-kv.yaml:187`, `:229`), so with no fault at all the last set drops the keys that
  only an earlier point had, against "keys absent from this batch are preserved" (`:158-159`) and "the
  read-modify-write is atomic w.r.t. this consumer" (`:60-61`). Devices that publish arrays meet this; the HTTP ingest splits an array
  and publishes one point per message (`bento-http-ingest-nats.yaml:31-54`), where `PointsAreAtomic` applies.
- Its unconditional set can undo a flow-core merge that landed after its get. The file
  documents this as accepted.
- Each save is pushed by the watch and once more by the journal (`journal.go:186-195`); the second
  push can replace a newer value in a live session.
- Desired properties are delivered by one goroutine per write (`write.go:279`), so two
  deliveries may overtake each other, and the retained payload holds the features of one write
  only. `DeviceAndStoreAgree` speaks of writes that did not overlap.
- A registry upsert computed from an older snapshot may set back what a re-point wrote
  (`registry.go:91`), although `docs/DIGITAL_TWIN.md:522` lets only the first touch and an
  explicit re-point select the pin; `RegistryAgrees` says what still holds of such a row.
- A save of an edge that overlaps with its deletion can end with an edge whose mirror is gone
  (`topology.go:274` decides from a snapshot older than the wait), while
  `docs/DIGITAL_TWIN.md:712` has `relation` synchronized. The repair at boot adds edges for mirrors, not
  mirrors for edges; the consistency report counts them.

*Sessions*

- A write deadline set by a push stays (`ws.go:2581`); an answer more than ten seconds later
  fails and breaks the connection of a client that reads.
- A query answer or alarm event written to a stalled client on a connection that never had a
  deadline blocks as long as the client keeps it open; if the handler has
  already ended, no ping closes the connection either, and the unregistration waits behind the
  broadcast. That is `Unbounded`.
- The initial payload may be written after a newer push (both carry timestamps);
  `NothingMissed` asks only that the newest value was in one of the two.
- `ws.go:1345` takes a query's identity once because "it never changes after authCmd"; a
  second token in a later message does change it. `SubscriptionsHold` therefore speaks of every
  tenant whose token was shown; subscriptions made under an earlier one stay.
- Nothing orders the goroutines of two messages: an older binding of a command may win, and a
  second step that names no entity may add its keys to the entity bound after it
  (`ws.go:1725`). `SubscriptionsHold` admits the second step's keys for any entity of the command.
- "Live and initial reads can never disagree" (`ws.go:2332`): for a scope written with blanks the initial
  read trims, and `strings.EqualFold` of a push does not, so it is never pushed.
- A binding of `EntityCmdMap` ends only with the session: no message removes one. Its attribute
  keys are also matched by telemetry, which is sent as `TIME_SERIES`.

*Control plane*

- Two requests that make two profiles the default (`ui_gap_handlers.go:165-173`) can leave two
  defaults: each clears what its snapshot showed.
- An edit of a user reads the authority and writes it back from the body (`crud_user.go:58`, `:81-92`), so an
  edit that changes nothing sets back what landed in between. It undoes a promotion, and it undoes a
  demotion: a TENANT_ADMIN's edit of a SYS_ADMIN of its tenant passes the check because the authority stays, a SYS_ADMIN
  demotes the user, and the UPDATE of the first makes it SYS_ADMIN again, although no SYS_ADMIN
  asked for that. `AccountsHold` counts a demotion as undone while such an edit is between its check and its UPDATE
  (`WritesBack`), and admits no other way to be SYS_ADMIN without a grant that stands; without that exception TLC refutes it.
- `quotas.go:8-10` speaks of "a single over-creation"; the code admits as many as there are requests
  between count and insert, less one, which is what `OvershootBounded` states.
- `migrations.go:21` says that a failed migration exits the process; the start logs it and goes
  on (`Serve`).
- Two starts insert the system images in the order of a Go map (`bootstrap.go:421`) and may wait for each other;
  the one Postgres aborts stores none of them (`AbortedByDeadlock`). The other one's rows are there.
- A user whose credential insert fails remains without one (`crud_user.go:142`), and the next
  attempt meets the taken email.
- Two assignments of one dashboard read and write the whole list of customers
  (`customer/assign.go:163`); one of them is lost.
- The policy middleware passes a request for an entity it does not find on to the handler, which
  answers 404; `ServedAsPermitted` therefore speaks of entities that exist.
- The months ahead are computed with `AddDate` from today (`audit.go:209`): from the 31st it runs
  past a shorter month. The partition is made by a later day's sweep unless a row was
  already stored in `DEFAULT`. `CoversMonths` excepts the month that is skipped.
- The OAuth2 templates are seeded one by one behind a check for an empty table
  (`bootstrap.go:124-150`): a start that crashed half-way is not completed. Demo dashboards are
  overwritten by title, while `bootstrap.go:186` says that operators' dashboards are not.
- `Force(1)` of a replica that read the version before another migrated stamps a lower version
  over it (`migrations.go:65`); the migrations are then applied again, which changes nothing more.
- Offset paging over rows that share their sort key is not a total order
  (`device_handler.go:128`), and a failed count is answered as an empty last page (`:124`).
  `WalksFindAll` asks for order only where the sort tells rows apart.
- The entity queries ignore the page asked for and answer the first one as the only one
  (`entityquery.go:176`); `WalksFindAll` leaves such listings out. An error of a relations query is written and
  then followed by an empty page (`entityquery.go:92`).

## Not modelled

`PROJECT.json` gives the reason per component. In the modelled components: the
SQL, key filters and pages of queries, formatting of pushes, fallback reads of old per-key entries, backoff delays,
rows inserted under a tenant after the delete of that tenant has passed their table
(`tenant_crud_handler.go:352-367`; `DropTenant` takes one snapshot of all its tables), several entities in one watch (`Forget` is what the others do to this one), clock skew
between replicas, cryptography (tokens, JWT, bcrypt, certificates), the parsing and normalising of documents and
definitions, and the bodies of widgets, dashboards and files. Telemetry
history and the twin views translate a request into one query and keep no state; of the entity queries,
the lists are in `Listings` and the walk in `Topology`, the reads of single entities are left out. Dead code is left out: the handlers of `device_state.go`, `UpsertAlarm` and
`ProcessAlarmDecision` of `alarms.go`, and `AllowTransport` of `quotas/transport.go` have no caller.

## Plan

Done: the alarm pipeline, the twin store with both of its writers, the way from the document
to a live session, the sessions, topology and catalogue, devices and the rest of the
administration, and the ten services. What is left, in this order.

Proofs: none of a safety property is open. The liveness properties stay with TLC.

Models: an abstract `AlarmLifecycle` with `AlarmMaterializer` as its refinement for one replica, step by
step; the reads of the twin store with their fallbacks; the counters of the throttle over several replicas.
