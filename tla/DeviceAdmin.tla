---------------------------- MODULE DeviceAdmin ----------------------------
(***************************************************************************)
(* How devices come and go: the REST handlers that create, update and      *)
(* delete devices, their credentials and their profiles, the bulk import,  *)
(* public provisioning (POST /api/v1/provision) and the per-tenant quota   *)
(* with its cache of limits.  A request runs one SQL statement or one      *)
(* access to the cache per action, so concurrent requests interleave       *)
(* between them; provisioning is the only handler that keeps its           *)
(* statements in one transaction, whose rows appear when it commits.       *)
(*                                                                         *)
(* Of a device row the model keeps the tenant, the name and the profile,   *)
(* of a credential its type and its id.  A failing statement of a read-    *)
(* only query is left out: it ends the request, or (the quota's count)     *)
(* lets it through.                                                        *)
(***************************************************************************)
EXTENDS Naturals, FiniteSets, Sequences

CONSTANTS
  Requests,    \* requests that may be under way at once
  Tenants,
  Profiles,    \* ids of device profiles
  Devices,     \* uuids of devices
  Names,       \* device names
  CredentialIds, \* credential ids that clients choose
  \* what clients ask for
  Saves,       \* devices saved: [tenant, dev, name, prof, cred], dev None to create
  Deletes,     \* devices deleted: [tenant, dev]
  Rotations,   \* credentials updated: [tenant, dev, cred]
  Imports,     \* files of the bulk import: [tenant, rows], rows of [name, cred, update]
  Provisions,  \* provisioning attempts: [prof, name]
  ProfileSaves, \* profiles saved: [id, tenant, default, type]
  LimitEdits,  \* maxDevices of a tenant's profile set: [tenant, lim]; 0 is unlimited
  ProfileDeletes, \* profiles deleted: [tenant, prof]
  ProfileAtStart, DeviceAtStart, CredentialAtStart, LimitAtStart,
  TTL,         \* quotas.cacheTTL, in ticks
  MaxTime,     \* bound on the clock
  MaxStarts,   \* bound on the requests started
  None, Gone   \* no row; no row any more: a uuid is used once

DeviceRow == [tenant : Tenants, name : Names, profile : Profiles]
ProfileTypes == {"DISABLED", "ALLOW_CREATE_NEW_DEVICES", "CHECK_PRE_PROVISIONED_DEVICES"}
ProfileRow == [tenant : Tenants, default : BOOLEAN, type : ProfileTypes]

\* What clients bring, and what generateAccessToken20 draws, which no client
\* has and which it draws once.
CredentialTypes == {"ACCESS_TOKEN", "X509_CERTIFICATE"}
Drawn == Requests \X Devices
Given == [type : CredentialTypes, id : CredentialIds]
Secret == [type : CredentialTypes, id : CredentialIds \cup Drawn]
FileRow == [name : Names, cred : Given \cup {None}, update : BOOLEAN]

ASSUME DeviceAdminAssumption ==
  /\ TTL \in Nat \ {0} /\ MaxTime \in Nat /\ MaxStarts \in Nat
  /\ IsFiniteSet(Requests) /\ IsFiniteSet(Tenants) /\ IsFiniteSet(Devices) /\ IsFiniteSet(LimitEdits)
  /\ CredentialIds \cap Drawn = {}
  /\ None # Gone /\ None \notin Tenants \cup Profiles \cup Devices \cup Names
  /\ {None, Gone} \cap DeviceRow = {} /\ None \notin ProfileRow \cup Secret

\* What is asked of the handlers has been parsed, and what the tables hold at
\* the start meets their constraints.
ASSUME DeviceInputAssumption ==
  /\ Saves \subseteq [tenant : Tenants, dev : Devices \cup {None}, name : Names,
                     prof : Profiles \cup {None}, cred : Given \cup {None}]
  /\ Deletes \subseteq [tenant : Tenants, dev : Devices]
  /\ Rotations \subseteq [tenant : Tenants, dev : Devices, cred : Given]
  /\ Imports \subseteq [tenant : Tenants, rows : Seq(FileRow)]
  /\ Provisions \subseteq [prof : Profiles, name : Names]
  /\ ProfileSaves \subseteq [id : Profiles, tenant : Tenants, default : BOOLEAN,
                            type : ProfileTypes]
  /\ LimitEdits \subseteq [tenant : Tenants, lim : Nat]
  /\ ProfileDeletes \subseteq [tenant : Tenants, prof : Profiles]
  /\ ProfileAtStart \in [Profiles -> ProfileRow \cup {None}]
  /\ DeviceAtStart \in [Devices -> DeviceRow \cup {None}]
  /\ CredentialAtStart \in [Devices -> Given \cup {None}]
  /\ LimitAtStart \in [Tenants -> Nat]
  /\ \A d \in Devices : DeviceAtStart[d] # None => ProfileAtStart[DeviceAtStart[d].profile] # None
  /\ \A d, e \in Devices :
       (CredentialAtStart[d] # None /\ CredentialAtStart[e] # None
        /\ CredentialAtStart[d].id = CredentialAtStart[e].id) => d = e

VARIABLES
  profile,  \* table device_profile
  device,   \* table device
  cred,     \* table device_credentials, device_id is unique
  rotated,  \* devices whose credential somebody replaced (history)
  limit,    \* maxDevices in tenant_profile.profile_data, by tenant
  edited,   \* when that was last changed (history, no step reads it)
  cache,    \* quotas.cache
  req,      \* the requests
  clock,
  starts

tables == <<profile, device, cred, rotated>>
quota  == <<limit, edited, cache>>
deviceVars == <<tables, quota, req, clock, starts>>

NoRequest == [op |-> "none", pc |-> "idle", tenant |-> None, dev |-> None, name |-> None,
              prof |-> None, cred |-> None, rows |-> <<>>, lim |-> 0,
              type |-> None, created |-> FALSE, token |-> None]

Goto(r, pc) == req' = [req EXCEPT ![r].pc = pc]
Over(r) == req[r].pc \in {"idle", "done"}

\* A request that is over is forgotten, but for what a provisioning answered.
Fail(r) == req' = [req EXCEPT ![r] = NoRequest]
End(r) == IF req[r].op = "provision" THEN Goto(r, "done") ELSE Fail(r)

Start(r, request) ==
  /\ Over(r) /\ starts < MaxStarts
  /\ starts' = starts + 1
  /\ req' = [req EXCEPT ![r] = request]
  /\ UNCHANGED <<tables, quota, clock>>

-----------------------------------------------------------------------------
(* The tables.                                                             *)

Live == {d \in Devices : device[d] \notin {None, Gone}}
DevicesOf(t) == {d \in Live : device[d].tenant = t}
Named(t, n) == {d \in DevicesOf(t) : device[d].name = n}

\* A device id the transaction of a provisioning request holds is taken.
Pending(r) == req[r].pc \in {"token", "write", "commit"} /\ req[r].created
Fresh(d) == device[d] = None /\ \A r \in Requests : Pending(r) => req[r].dev # d

\* An insert or update waits for a transaction that holds the same name.
NameFree(r, n) == \A x \in Requests \ {r} : ~(Pending(x) /\ req[x].name = n /\ req[x].tenant = req[r].tenant)

\* UNIQUE (tenant_id, name), and the profile a device refers to exists.
RowFits(t, n, p, d) == profile[p] # None /\ Named(t, n) \subseteq {d}

\* UNIQUE (credentials_id); a credential row in an open transaction is locked.
Holds(r, d) == req[r].pc = "commit" /\ req[r].dev = d /\ req[r].token = <<r, d>>
CredentialLocked(d) == \E r \in Requests : Holds(r, d)
IdTaken(d, id) == \E x \in Devices \ {d} : cred[x] # None /\ cred[x].id = id

\* generateAccessToken20
Generated(r, d) == [type |-> "ACCESS_TOKEN", id |-> <<r, d>>]

-----------------------------------------------------------------------------
(* The requests.                                                           *)

Asked(op, pc, t, d) == [NoRequest EXCEPT !.op = op, !.pc = pc, !.tenant = t, !.dev = d]
Saved(pc, i) == [Asked("save", pc, i.tenant, i.dev) EXCEPT !.name = i.name, !.prof = i.prof, !.cred = i.cred]

\* POST /api/device, with or without an id, and with or without a profile.
HandleDeviceCreateOrUpdate(r, i) ==
  /\ i.cred = None
  /\ Start(r, Saved(IF i.prof = None THEN "profile" ELSE IF i.dev = None THEN "limit" ELSE "owner", i))

\* The wizard's request brings a credential, which has been validated.
HandleDeviceWithCredentials(r, i) == i.cred # None /\ Start(r, Saved("profile", i))

HandleDeviceDelete(r, i) == Start(r, Asked("delete", "owner", i.tenant, i.dev))
HandleDeviceCredentialsUpdate(r, i) ==
  Start(r, [Asked("credentials", "owner", i.tenant, i.dev) EXCEPT !.cred = i.cred])
HandleDeviceBulkImport(r, i) ==
  Start(r, [Asked("import", "profile", i.tenant, None) EXCEPT !.rows = i.rows])

\* The key names one profile; the secret has been verified.
HandleProvision(r, i) ==
  Start(r, [Asked("provision", "provision", None, None) EXCEPT !.prof = i.prof, !.name = i.name])

\* PUT of a tenant profile: the row, then the cache.
HandleLimits(r, i) == Start(r, [Asked("limits", "saveLimits", i.tenant, None) EXCEPT !.lim = i.lim])

HandleDeviceProfileDelete(r, i) ==
  Start(r, [Asked("dropProfile", "inUse", i.tenant, None) EXCEPT !.prof = i.prof])

-----------------------------------------------------------------------------
(* Saving a device.                                                        *)

\* Any default profile of the tenant, or the request fails.
ResolveDefaultProfile(r) ==
  /\ req[r].pc = "profile"
  /\ LET defaults == {p \in Profiles : /\ profile[p] # None /\ profile[p].tenant = req[r].tenant
                                       /\ profile[p].default}
     IN IF defaults = {} THEN Fail(r)
        ELSE \E p \in defaults :
               req' = [req EXCEPT ![r].prof = p,
                                  ![r].pc = IF req[r].op = "import" THEN "row"
                                            ELSE IF req[r].dev = None THEN "limit" ELSE "owner"]
  /\ UNCHANGED <<tables, quota, clock, starts>>

\* SELECT tenant_id: the device exists and is the caller's.
CheckOwner(r) ==
  /\ req[r].pc = "owner"
  /\ IF req[r].dev \in DevicesOf(req[r].tenant)
     THEN Goto(r, CASE req[r].op = "save" -> "update"
                    [] req[r].op = "delete" -> "delete"
                    [] OTHER -> "upsert")
     ELSE Fail(r)
  /\ UNCHANGED <<tables, quota, clock, starts>>

\* What follows a saved device: the wizard's credential, if the row is there.
Credential(r, there) == IF req[r].cred # None /\ there THEN Goto(r, "upsert") ELSE End(r)

\* An update of a row that is gone changes nothing and reports no error.
UpdateDevice(r) ==
  LET d == req[r].dev
      row == [device[d] EXCEPT !.name = req[r].name, !.profile = req[r].prof]
  IN /\ req[r].pc = "update" /\ NameFree(r, req[r].name)
     /\ IF d \notin Live THEN End(r) /\ UNCHANGED device
        ELSE IF ~RowFits(req[r].tenant, req[r].name, req[r].prof, d) THEN Fail(r) /\ UNCHANGED device
        ELSE device' = [device EXCEPT ![d] = row] /\ Credential(r, TRUE)
     /\ UNCHANGED <<profile, cred, rotated, quota, clock, starts>>

\* Where a quota that is reached leaves a request: an import goes on.
NextRow(r) == req' = [req EXCEPT ![r].rows = Tail(@), ![r].pc = "row"]
Denied(r) == IF req[r].op = "import" THEN NextRow(r) ELSE Fail(r)

InsertDevice(r) ==
  LET n == req[r].name
      d == CHOOSE x \in Devices : Fresh(x)
  IN /\ req[r].pc = "insert" /\ req[r].op # "provision"
     /\ \E x \in Devices : Fresh(x)
     /\ NameFree(r, n)
     /\ IF RowFits(req[r].tenant, n, req[r].prof, d)
        THEN /\ device' = [device EXCEPT ![d] = [tenant |-> req[r].tenant, name |-> n,
                                                 profile |-> req[r].prof]]
             /\ req' = [req EXCEPT ![r].dev = d,
                                   ![r].pc = IF req[r].op = "import" THEN "upsert" ELSE "default"]
        ELSE Denied(r) /\ UNCHANGED device
     /\ UNCHANGED <<profile, cred, rotated, quota, clock, starts>>

\* The default ACCESS_TOKEN: a failed insert is only a warning.
DefaultCredential(r) ==
  LET d == req[r].dev
  IN /\ req[r].pc = "default" /\ ~CredentialLocked(d)
     /\ cred' = IF cred[d] = None THEN [cred EXCEPT ![d] = Generated(r, d)] ELSE cred
     /\ Credential(r, d \in Live)
     /\ UNCHANGED <<profile, device, rotated, quota, clock, starts>>

\* upsertDeviceCredentials replaces the device's credential, or its id is taken.
UpsertCredentials(r) ==
  LET d == req[r].dev
      c == IF req[r].cred = None THEN Generated(r, d) ELSE req[r].cred
  IN /\ req[r].pc = "upsert" /\ ~CredentialLocked(d)
     /\ IF IdTaken(d, c.id)
        THEN Denied(r) /\ UNCHANGED <<cred, rotated>>
        ELSE /\ cred' = [cred EXCEPT ![d] = c] /\ rotated' = rotated \cup {d}
             /\ IF req[r].op = "import" THEN NextRow(r) ELSE End(r)
     /\ UNCHANGED <<profile, device, quota, clock, starts>>

\* One transaction: credentials, alarms and attributes of the device, the device.
DeleteDevice(r) ==
  /\ req[r].pc = "delete" /\ ~CredentialLocked(req[r].dev)
  /\ cred' = [cred EXCEPT ![req[r].dev] = None]
  /\ device' = [device EXCEPT ![req[r].dev] = Gone]
  /\ rotated' = rotated \cup {req[r].dev}
  /\ End(r)
  /\ UNCHANGED <<profile, quota, clock, starts>>

\* A row of the import: an existing device is refused or (mapping.update) updated
\* and given the row's credential, a new one is created.
ImportRow(r) ==
  /\ req[r].pc = "row"
  /\ IF req[r].rows = <<>> THEN End(r)
     ELSE LET row == Head(req[r].rows)
              there == Named(req[r].tenant, row.name)
          IN IF there # {} /\ row.update /\ row.cred # None
             THEN req' = [req EXCEPT ![r].dev = CHOOSE d \in there : TRUE, ![r].cred = row.cred,
                                     ![r].pc = "upsert"]
             ELSE IF there # {} THEN NextRow(r)
             ELSE req' = [req EXCEPT ![r].name = row.name, ![r].cred = row.cred, ![r].pc = "limit"]
  /\ UNCHANGED <<tables, quota, clock, starts>>

-----------------------------------------------------------------------------
(* Quotas.                                                                 *)

\* Mutant: a cached limit is good for ever.
CachedForever(t) == cache[t] # None
Cached(t) == cache[t] # None /\ clock < cache[t].expires

LimitsFor(r) ==
  LET t == req[r].tenant
  IN /\ req[r].pc = "limit"
     /\ req' = IF Cached(t) THEN [req EXCEPT ![r].pc = "count", ![r].lim = cache[t].limit]
               ELSE [req EXCEPT ![r].pc = "read"]
     /\ UNCHANGED <<tables, quota, clock, starts>>

ReadLimits(r) ==
  /\ req[r].pc = "read"
  /\ req' = [req EXCEPT ![r].pc = "store", ![r].lim = limit[req[r].tenant]]
  /\ UNCHANGED <<tables, quota, clock, starts>>

StoreLimits(r) ==
  /\ req[r].pc = "store"
  /\ cache' = [cache EXCEPT ![req[r].tenant] = [limit |-> req[r].lim, expires |-> clock + TTL]]
  /\ Goto(r, "count")
  /\ UNCHANGED <<tables, limit, edited, clock, starts>>

\* Mutant: one device more than the limit.
WithinLimitInclusive(r) == req[r].lim = 0 \/ Cardinality(DevicesOf(req[r].tenant)) <= req[r].lim

\* Enforce and allowDeviceCreate count the committed rows.
WithinLimit(r) == req[r].lim = 0 \/ Cardinality(DevicesOf(req[r].tenant)) < req[r].lim

Enforce(r) ==
  /\ req[r].pc = "count"
  /\ IF WithinLimit(r) THEN Goto(r, "insert") ELSE Denied(r)
  /\ UNCHANGED <<tables, quota, clock, starts>>

SaveLimits(r) ==
  /\ req[r].pc = "saveLimits"
  /\ limit' = [limit EXCEPT ![req[r].tenant] = req[r].lim]
  /\ edited' = [edited EXCEPT ![req[r].tenant] = clock]
  /\ Goto(r, "invalidate")
  /\ UNCHANGED <<tables, cache, clock, starts>>

\* InvalidateCache(""): of every tenant.
InvalidateCache(r) ==
  /\ req[r].pc = "invalidate"
  /\ cache' = [t \in Tenants |-> None]
  /\ End(r)
  /\ UNCHANGED <<tables, limit, edited, clock, starts>>

-----------------------------------------------------------------------------
(* Profiles.                                                               *)

\* Created or updated; an update without "default" clears the flag.
HandleDeviceProfileSave(r, i) ==
  /\ Over(r) /\ starts < MaxStarts
  /\ profile[i.id] # None => profile[i.id].tenant = i.tenant
  /\ profile' = [profile EXCEPT ![i.id] = [tenant |-> i.tenant, default |-> i.default, type |-> i.type]]
  /\ req' = [req EXCEPT ![r] = NoRequest]
  /\ starts' = starts + 1
  /\ UNCHANGED <<device, cred, rotated, quota, clock>>

UsedBy(p) == {d \in Live : device[d].profile = p}

\* The caller's, not a default, and no device refers to it.
CheckProfileUnused(r) ==
  LET p == req[r].prof
  IN /\ req[r].pc = "inUse"
     /\ IF profile[p] # None /\ profile[p].tenant = req[r].tenant /\ ~profile[p].default /\ UsedBy(p) = {}
        THEN Goto(r, "drop") ELSE Fail(r)
     /\ UNCHANGED <<tables, quota, clock, starts>>

\* The foreign key refuses while a device refers to the profile, and the delete
\* waits for a transaction that has inserted one.
Referenced(p) == UsedBy(p) # {}

DropProfile(r) ==
  LET p == req[r].prof
  IN /\ req[r].pc = "drop"
     /\ \A x \in Requests : Pending(x) => req[x].prof # p
     /\ IF Referenced(p) THEN Fail(r) /\ UNCHANGED profile
        ELSE profile' = [profile EXCEPT ![p] = None] /\ End(r)
     /\ UNCHANGED <<device, cred, rotated, quota, clock, starts>>

-----------------------------------------------------------------------------
(* Provisioning.                                                           *)

\* The profile of the key allows creation, or the check of a device that is there.
ProvisionLookup(r) ==
  LET p == req[r].prof
  IN /\ req[r].pc = "provision"
     /\ IF profile[p] # None /\ profile[p].type # "DISABLED"
        THEN req' = [req EXCEPT ![r].tenant = profile[p].tenant, ![r].pc = "find",
                                ![r].type = profile[p].type]
        ELSE Fail(r)
     /\ UNCHANGED <<tables, quota, clock, starts>>

FindDevice(r) ==
  LET found == {d \in Named(req[r].tenant, req[r].name) : device[d].profile = req[r].prof}
  IN /\ req[r].pc = "find"
     /\ IF found # {} THEN req' = [req EXCEPT ![r].dev = CHOOSE d \in found : TRUE, ![r].pc = "token"]
        ELSE IF req[r].type = "ALLOW_CREATE_NEW_DEVICES" THEN Goto(r, "limit")
        ELSE Fail(r)
     /\ UNCHANGED <<tables, quota, clock, starts>>

\* The row stays in the transaction; a name that is taken ends it.
ProvisionInsert(r) ==
  /\ req[r].pc = "insert" /\ req[r].op = "provision"
  /\ \E x \in Devices : Fresh(x)
  /\ NameFree(r, req[r].name)
  /\ LET d == CHOOSE x \in Devices : Fresh(x)
     IN IF RowFits(req[r].tenant, req[r].name, req[r].prof, d)
        THEN req' = [req EXCEPT ![r].dev = d, ![r].created = TRUE, ![r].pc = "token"]
        ELSE Fail(r)
  /\ UNCHANGED <<tables, quota, clock, starts>>

HasToken(d) == cred[d] # None /\ cred[d].type = "ACCESS_TOKEN"

\* Mutant: every provisioning issues a token of its own.
KnownTokenNever(r) == FALSE
KnownToken(r) == ~req[r].created /\ HasToken(req[r].dev)

ReadToken(r) ==
  /\ req[r].pc = "token"
  /\ req' = IF KnownToken(r)
            THEN [req EXCEPT ![r].token = cred[req[r].dev].id, ![r].pc = "commit"]
            ELSE [req EXCEPT ![r].pc = "write"]
  /\ UNCHANGED <<tables, quota, clock, starts>>

WriteToken(r) ==
  /\ req[r].pc = "write" /\ ~CredentialLocked(req[r].dev)
  /\ req' = [req EXCEPT ![r].token = <<r, req[r].dev>>, ![r].pc = "commit"]
  /\ UNCHANGED <<tables, quota, clock, starts>>

CommitProvision(r) ==
  LET d == req[r].dev
  IN /\ req[r].pc = "commit"
     /\ device' = IF req[r].created
                  THEN [device EXCEPT ![d] = [tenant |-> req[r].tenant, name |-> req[r].name,
                                              profile |-> req[r].prof]]
                  ELSE device
     /\ cred' = IF Holds(r, d) THEN [cred EXCEPT ![d] = Generated(r, d)] ELSE cred
     /\ End(r)
     /\ UNCHANGED <<profile, rotated, quota, clock, starts>>

-----------------------------------------------------------------------------
\* A tick is longer than a request takes from LimitsFor to its count.
Tick ==
  /\ clock < MaxTime
  /\ \A r \in Requests : req[r].pc \notin {"read", "store", "count"}
  /\ clock' = clock + 1
  /\ UNCHANGED <<tables, quota, req, starts>>

DeviceInit ==
  /\ profile = ProfileAtStart /\ device = DeviceAtStart /\ cred = CredentialAtStart /\ rotated = {}
  /\ limit = LimitAtStart /\ edited = [t \in Tenants |-> 0] /\ cache = [t \in Tenants |-> None]
  /\ req = [r \in Requests |-> NoRequest]
  /\ clock = 0 /\ starts = 0

Arrival(r) ==
  \/ \E i \in Saves : HandleDeviceCreateOrUpdate(r, i) \/ HandleDeviceWithCredentials(r, i)
  \/ \E i \in Deletes : HandleDeviceDelete(r, i)
  \/ \E i \in Rotations : HandleDeviceCredentialsUpdate(r, i)
  \/ \E i \in Imports : HandleDeviceBulkImport(r, i)
  \/ \E i \in Provisions : HandleProvision(r, i)
  \/ \E i \in LimitEdits : HandleLimits(r, i)
  \/ \E i \in ProfileDeletes : HandleDeviceProfileDelete(r, i)
  \/ \E i \in ProfileSaves : HandleDeviceProfileSave(r, i)

DeviceStep(r) ==
  \/ ResolveDefaultProfile(r) \/ CheckOwner(r) \/ UpdateDevice(r) \/ InsertDevice(r)
  \/ DefaultCredential(r) \/ UpsertCredentials(r) \/ DeleteDevice(r) \/ ImportRow(r)
  \/ LimitsFor(r) \/ ReadLimits(r) \/ StoreLimits(r) \/ Enforce(r) \/ SaveLimits(r) \/ InvalidateCache(r)
  \/ CheckProfileUnused(r) \/ DropProfile(r)
  \/ ProvisionLookup(r) \/ FindDevice(r) \/ ProvisionInsert(r)
  \/ ReadToken(r) \/ WriteToken(r) \/ CommitProvision(r)

DeviceNext == Tick \/ \E r \in Requests : Arrival(r) \/ DeviceStep(r)

Spec == DeviceInit /\ [][DeviceNext]_deviceVars

-----------------------------------------------------------------------------
(* Properties.                                                             *)

LimitValues == {LimitAtStart[t] : t \in Tenants} \cup {i.lim : i \in LimitEdits}

\* Rows of their types, and no device whose profile is gone, although a profile
\* may be deleted between the check of a request and its insert.
DeviceTypeOK ==
  /\ \A d \in Live : device[d].tenant \in Tenants /\ device[d].name \in Names
  /\ \A d \in Live : profile[device[d].profile] # None
  /\ \A d, e \in Devices : cred[d] # None /\ cred[e] # None /\ cred[d].id = cred[e].id => d = e
  /\ \A t \in Tenants : limit[t] \in LimitValues

\* quotas.go accepts that count and insert are two steps: what requests can
\* overshoot the largest limit by is the number of other requests under way.
OvershootBounded ==
  0 \notin LimitValues =>
    \A t \in Tenants :
      Cardinality(DevicesOf(t)) <=
        (CHOOSE m \in LimitValues : \A v \in LimitValues : v <= m) + Cardinality(Requests) - 1

\* "TenantProfile edits propagate within 30s": once the cache's time to live
\* has passed since the last edit, every request is held to the new limit.
EditsPropagate ==
  \A r \in Requests :
    (req[r].pc = "count" /\ clock >= edited[req[r].tenant] + TTL) => req[r].lim = limit[req[r].tenant]

\* A device that provisions again, because an answer was lost or two of its
\* attempts overlap, is given the token of the attempt that created it, unless
\* somebody has replaced or deleted the credential.
RetryGetsSameToken ==
  \A p, q \in Requests :
    /\ req[p].op = "provision" /\ req[p].pc = "done" /\ req[p].created
    /\ req[q].op = "provision" /\ req[q].pc = "done" /\ req[q].dev = req[p].dev
    /\ req[p].dev \notin rotated
    => req[q].token = req[p].token
=============================================================================
