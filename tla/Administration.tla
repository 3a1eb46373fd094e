--------------------------- MODULE Administration ---------------------------
(***************************************************************************)
(* The rest of what a tenant's administrator and the SYS_ADMIN keep in     *)
(* Postgres beside the devices of DeviceAdmin: customers, assets, their    *)
(* profiles, dashboards, entity views, widget types, resources, OTA        *)
(* packages, notification rules and alarm comments; tenants and their      *)
(* profiles; and who is assigned to which customer.                        *)
(*                                                                         *)
(* The handlers guard a row in one of three ways, which differ when        *)
(* requests interleave: a SELECT of its tenant and then a write by id, one *)
(* statement that names the tenant, or an upsert by name.  A row is its    *)
(* table, tenant and name, the rows its foreign keys refer to, whether it  *)
(* is a default profile, and the customers it is assigned to.              *)
(***************************************************************************)
EXTENDS DeviceAdmin

CONSTANTS
  Ids,            \* uuids of rows
  RowAtStart,     \* the rows
  RowSaves,       \* rows saved: [table, tenant, id, name, refs, default, owner]
  RowDeletes,     \* rows deleted: [table, tenant, id, refs], refs the alarm of a comment
  Assignments,    \* [table, tenant, id, owner]: assign to the customers, or unassign from all
  Shares,         \* dashboards: [tenant, id, customer, assign]
  TenantProfiles, \* ids of tenant profiles
  TenantSaves,    \* [target, profile]: profile None for the default one
  System,         \* the system tenant
  Mixes,          \* "devices" or "tables": the kinds of requests of one behaviour
  MaxTableStarts  \* bound on the requests started in a behaviour of "tables"

RowTables == {"asset", "asset_profile", "customer", "dashboard", "entity_view", "widget_type", "resource",
              "ota_package", "notification_rule", "notification_template", "alarm", "alarm_comment"}
Row == [table : RowTables, tenant : Tenants, name : Names, refs : SUBSET Ids, default : BOOLEAN,
        owner : SUBSET Ids]

\* Bodies and paths have been parsed; a comment is named with its alarm.
ASSUME AdminInputAssumption ==
  /\ RowSaves \subseteq [table : RowTables, tenant : Tenants, id : Ids \cup {None}, name : Names,
                        refs : SUBSET Ids, default : BOOLEAN, owner : SUBSET Ids]
  /\ RowDeletes \subseteq [table : RowTables, tenant : Tenants, id : Ids, refs : SUBSET Ids]
  /\ \A i \in RowDeletes : i.table = "alarm_comment" => i.refs # {}
  /\ Assignments \subseteq [table : RowTables, tenant : Tenants, id : Ids, owner : SUBSET Ids]
  /\ Shares \subseteq [tenant : Tenants, id : Ids, customer : Ids, assign : BOOLEAN]
  /\ TenantSaves \subseteq [target : Tenants, profile : TenantProfiles \cup {None}]
  /\ TenantProfiles # {} /\ {None, Gone} \cap (Row \cup TenantProfiles) = {}
  /\ None \notin Ids \cup BOOLEAN
  /\ RowAtStart \in [Ids -> Row \cup {None}]

VARIABLES
  row,       \* all those tables, by id
  tenant,    \* table tenant: the profile of each, None or Gone
  tprofile,  \* table tenant_profile: is_default of each, or None
  work,      \* the requests on these tables; req[r] is one on devices
  mix

adminTables == <<row, tenant, tprofile>>
adminVars == <<deviceVars, adminTables, work, mix>>

NoWork == [op |-> "none", pc |-> "idle", table |-> "none", tenant |-> None, id |-> None,
           name |-> None, refs |-> {}, default |-> FALSE, owner |-> {}, prof |-> None,
           target |-> None, seen |-> {}]

Room == mix = "tables" /\ starts < MaxTableStarts
Take(r, w) ==
  /\ Room /\ Over(r) /\ work[r] = NoWork
  /\ starts' = starts + 1
  /\ work' = [work EXCEPT ![r] = w]
  /\ UNCHANGED <<tables, quota, req, clock, adminTables, mix>>

\* A step of a request under way that touches no table.
Look(r, ok, next) ==
  /\ work' = [work EXCEPT ![r] = IF ok THEN next ELSE NoWork]
  /\ UNCHANGED <<tables, quota, req, clock, starts, adminTables, mix>>

-----------------------------------------------------------------------------
(* Rows.                                                                   *)

Stored == {x \in Ids : row[x] \notin {None, Gone}}
RowsNamed(k, t, n) == {x \in Stored : row[x].table = k /\ row[x].tenant = t /\ row[x].name = n}

\* Tables with UNIQUE (tenant_id, name), and those saved ON CONFLICT DO UPDATE.
Unique == {"asset", "customer", "asset_profile", "widget_type", "resource", "notification_rule",
           "notification_template"}
Upserted == {"widget_type", "resource", "notification_rule", "notification_template"}
Quoted == {"asset", "customer", "dashboard"}

\* The foreign keys: what a row of a table refers to.
RefersTo(k, y) ==
  \/ k = "asset" /\ row[y].table = "asset_profile"
  \/ k = "notification_rule" /\ row[y].table = "notification_template"
  \/ k = "alarm_comment" /\ row[y].table = "alarm"
RefsFit(i) == \A y \in i.refs : y \in Stored /\ RefersTo(i.table, y)

\* The constraints a written row of request i meets, x its id.
FitsTable(i, x) ==
  /\ RefsFit(i)
  /\ i.table \in Unique => RowsNamed(i.table, i.tenant, i.name) \subseteq {x}

\* The schema's constraints on the tables, the names of upserted rows included, and
\* a comment has its alarm's tenant: the table has no tenant_id of its own.
Constrained ==
  /\ \A x \in Stored : \A y \in row[x].refs : y \in Stored /\ RefersTo(row[x].table, y)
  /\ \A x, y \in Stored :
       (row[x].table \in Unique /\ row[x].table = row[y].table /\ row[x].tenant = row[y].tenant
        /\ row[x].name = row[y].name) => x = y
  /\ \A x \in Stored : row[x].table = "alarm_comment" => \A y \in row[x].refs : row[y].tenant = row[x].tenant

RowOf(i) == [table |-> i.table, tenant |-> i.tenant, name |-> i.name, refs |-> i.refs,
             default |-> i.default, owner |-> i.owner]

-----------------------------------------------------------------------------
(* Saves and deletes of a row.                                             *)

FirstStep(i) ==
  IF i.table = "asset" /\ i.refs = {} THEN "assetProfile"
  ELSE IF i.table \in {"notification_rule", "alarm_comment"} THEN "reference"
  ELSE IF i.id = None THEN "insertRow"
  ELSE IF i.table \in {"ota_package", "resource"} THEN "updateScoped"
  ELSE "checkRow"

SaveRow(r, i, k) ==
  /\ i.table = k
  /\ Take(r, [NoWork EXCEPT !.op = "saveRow", !.pc = FirstStep(i), !.table = k, !.tenant = i.tenant,
                            !.id = i.id, !.name = i.name, !.refs = i.refs, !.default = i.default,
                            !.owner = i.owner])

CustomerSave(r, i)     == SaveRow(r, i, "customer")
AssetSave(r, i)        == SaveRow(r, i, "asset")
AssetSaveProfile(r, i) == SaveRow(r, i, "asset_profile")
DashboardSave(r, i)    == SaveRow(r, i, "dashboard")
EntityViewSave(r, i)   == SaveRow(r, i, "entity_view")
SaveWidgetType(r, i)   == SaveRow(r, i, "widget_type")
ResourceUpload(r, i)   == i.id = None /\ SaveRow(r, i, "resource")
ImageUpdate(r, i)      == i.id # None /\ SaveRow(r, i, "resource")
OtaSaveInfo(r, i)      == SaveRow(r, i, "ota_package")
SaveNotificationTemplate(r, i) == SaveRow(r, i, "notification_template")
SaveNotificationRule(r, i)     == SaveRow(r, i, "notification_rule")
AlarmCommentSave(r, i)         == SaveRow(r, i, "alarm_comment")

DropRow(r, i, k) ==
  /\ i.table = k
  /\ Take(r, [NoWork EXCEPT !.op = "dropRow", !.table = k, !.tenant = i.tenant, !.id = i.id, !.refs = i.refs,
                            !.pc = IF k \in {"ota_package", "resource"} THEN "deleteScoped"
                                   ELSE IF k = "alarm_comment" THEN "reference" ELSE "checkRow"])

CustomerDelete(r, i)     == DropRow(r, i, "customer")
AssetDelete(r, i)        == DropRow(r, i, "asset")
AssetDeleteProfile(r, i) == DropRow(r, i, "asset_profile")
DashboardDelete(r, i)    == DropRow(r, i, "dashboard")
EntityViewDelete(r, i)   == DropRow(r, i, "entity_view")
ResourceDelete(r, i)     == DropRow(r, i, "resource")
OtaDelete(r, i)          == DropRow(r, i, "ota_package")
AlarmCommentDelete(r, i) == DropRow(r, i, "alarm_comment")

\* The tenant's default asset profile.
ResolveAssetProfile(r) ==
  /\ work[r].pc = "assetProfile"
  /\ LET defaults == {p \in Stored : /\ row[p].table = "asset_profile" /\ row[p].default
                                     /\ row[p].tenant = work[r].tenant}
     IN IF defaults = {} THEN Look(r, FALSE, NoWork)
        ELSE \E p \in defaults :
               Look(r, TRUE, [work[r] EXCEPT !.refs = {p}, !.pc = IF work[r].id = None THEN "insertRow"
                                                                 ELSE "checkRow"])

\* The template of a rule, the alarm of a comment: the caller's.
CheckReference(r) ==
  /\ work[r].pc = "reference"
  /\ Look(r, RefsFit(work[r]) /\ \A x \in work[r].refs : row[x].tenant = work[r].tenant,
          [work[r] EXCEPT !.pc = IF work[r].op = "dropRow" THEN "deleteComment"
                                ELSE IF work[r].id = None THEN "insertRow" ELSE "checkRow"])

\* Mutant: any tenant's row will do.
OwnsAny(t, k, x) == x \in Stored /\ row[x].table = k
Owns(t, k, x) == x \in Stored /\ row[x].table = k /\ row[x].tenant = t
Mine(r) == Owns(work[r].tenant, work[r].table, work[r].id)

CheckRow(r) ==
  LET x == work[r].id
  IN /\ work[r].pc = "checkRow"
     /\ Look(r, /\ Mine(r)
                /\ work[r].table = "alarm_comment" => row[x].refs = work[r].refs
                /\ work[r].op = "dropRow" /\ work[r].table = "asset_profile" => ~row[x].default,
             [work[r] EXCEPT !.pc = IF work[r].op = "saveRow" THEN "updateRow" ELSE "deleteRow"])

WriteTable(r, new) ==
  /\ row' = new
  /\ work' = [work EXCEPT ![r] = NoWork]
  /\ UNCHANGED <<tables, quota, req, clock, starts, tenant, tprofile, mix>>

\* By id alone: the row was checked, or it is gone and nothing is written.
UpdateRow(r) ==
  LET x == work[r].id
  IN /\ work[r].pc = "updateRow"
     /\ WriteTable(r, IF x \in Stored /\ FitsTable(work[r], x)
                      THEN [row EXCEPT ![x] = [RowOf(work[r]) EXCEPT !.tenant = row[x].tenant]] ELSE row)

UpdateScoped(r) ==
  LET x == work[r].id
  IN /\ work[r].pc = "updateScoped"
     /\ WriteTable(r, IF Mine(r) /\ FitsTable(work[r], x) THEN [row EXCEPT ![x] = RowOf(work[r])] ELSE row)

\* The quota may refuse the insert; a conflict by name updates or fails.
InsertRow(r) ==
  LET same == RowsNamed(work[r].table, work[r].tenant, work[r].name)
      x == CHOOSE y \in Ids : row[y] = None
  IN /\ work[r].pc = "insertRow"
     /\ \E y \in Ids : row[y] = None
     /\ \/ work[r].table \in Quoted /\ WriteTable(r, row)
        \/ work[r].table \in Upserted /\ same # {} /\ RefsFit(work[r])
           /\ WriteTable(r, [y \in Ids |-> IF y \in same THEN RowOf(work[r]) ELSE row[y]])
        \/ ~(work[r].table \in Upserted /\ same # {})
           /\ WriteTable(r, IF FitsTable(work[r], x) THEN [row EXCEPT ![x] = RowOf(work[r])] ELSE row)

\* A foreign key that refers to the row refuses.
Referring(x) == {y \in Stored : x \in row[y].refs}

DeleteRow(r) ==
  LET x == work[r].id
  IN /\ work[r].pc = "deleteRow"
     /\ WriteTable(r, IF Referring(x) = {} THEN [row EXCEPT ![x] = Gone] ELSE row)

DeleteScoped(r) ==
  LET x == work[r].id
  IN /\ work[r].pc = "deleteScoped"
     /\ WriteTable(r, IF Mine(r) /\ Referring(x) = {} THEN [row EXCEPT ![x] = Gone] ELSE row)

DeleteComment(r) ==
  LET x == work[r].id
  IN /\ work[r].pc = "deleteComment"
     /\ WriteTable(r, IF x \in Stored /\ row[x].table = "alarm_comment" /\ row[x].refs = work[r].refs
                      THEN [row EXCEPT ![x] = Gone] ELSE row)

-----------------------------------------------------------------------------
(* Customers.                                                              *)

HandleAssignToCustomer(r, i) ==
  Take(r, [NoWork EXCEPT !.op = "assign", !.pc = "assigned", !.table = i.table, !.tenant = i.tenant,
                         !.id = i.id, !.owner = i.owner])
HandleAssignDashboardToCustomer(r, i) ==
  Take(r, [NoWork EXCEPT !.op = "share", !.pc = "assigned", !.table = "dashboard", !.tenant = i.tenant,
                         !.id = i.id, !.owner = {i.customer}, !.default = i.assign])

CheckAssigned(r) ==
  /\ work[r].pc = "assigned"
  /\ Look(r, Mine(r),
          [work[r] EXCEPT !.pc = "belongs",
                         !.seen = IF work[r].id \in Stored THEN row[work[r].id].owner ELSE {}])

CustomerBelongsToTenant(r) ==
  /\ work[r].pc = "belongs"
  /\ Look(r, \A c \in work[r].owner : Owns(work[r].tenant, "customer", c), [work[r] EXCEPT !.pc = "assign"])

\* A dashboard's whole array is rewritten from the one that was read.
NewOwners(r) ==
  IF work[r].op = "assign" THEN work[r].owner
  ELSE IF work[r].default THEN work[r].seen \cup work[r].owner ELSE work[r].seen \ work[r].owner

WriteAssignment(r) ==
  /\ work[r].pc = "assign"
  /\ WriteTable(r, IF work[r].id \in Stored THEN [row EXCEPT ![work[r].id].owner = NewOwners(r)] ELSE row)

\* ListCustomers leaves out customers that are deleted or of another tenant.
ListCustomers(x) ==
  {c \in row[x].owner : c \in Stored /\ row[c].table = "customer" /\ row[c].tenant = row[x].tenant}

-----------------------------------------------------------------------------
(* Default profiles of devices.                                            *)

HandleSetDefaultProfile(r, t, p) ==
  Take(r, [NoWork EXCEPT !.op = "default", !.pc = "isMine", !.tenant = t, !.prof = p])

CheckDefaultProfile(r) ==
  LET p == work[r].prof
  IN /\ work[r].pc = "isMine"
     /\ Look(r, profile[p] # None /\ profile[p].tenant = work[r].tenant, [work[r] EXCEPT !.pc = "swap"])

\* One transaction; it does not count the rows its second statement sets.
SwapDefaultProfile(r) ==
  /\ work[r].pc = "swap"
  /\ profile' = [p \in Profiles |->
       IF profile[p] = None \/ profile[p].tenant # work[r].tenant THEN profile[p]
       ELSE [profile[p] EXCEPT !.default = (p = work[r].prof)]]
  /\ work' = [work EXCEPT ![r] = NoWork]
  /\ UNCHANGED <<device, cred, rotated, quota, req, clock, starts, adminTables, mix>>

-----------------------------------------------------------------------------
(* Tenants and their profiles, by the SYS_ADMIN.                           *)

DefaultTenantProfiles == {p \in TenantProfiles : tprofile[p] = TRUE}
ReferencedProfiles == {tenant[t] : t \in Tenants}

HandleTenantSave(r, i) ==
  Take(r, [NoWork EXCEPT !.op = "tenant", !.target = i.target, !.prof = i.profile,
                         !.pc = IF i.profile = None THEN "tenantDefault" ELSE "saveTenant"])

ResolveTenantProfile(r) ==
  /\ work[r].pc = "tenantDefault"
  /\ IF DefaultTenantProfiles = {} THEN Look(r, FALSE, NoWork)
     ELSE \E p \in DefaultTenantProfiles : Look(r, TRUE, [work[r] EXCEPT !.prof = p, !.pc = "saveTenant"])

WriteTenants(r, newTenant, newProfile) ==
  /\ tenant' = newTenant /\ tprofile' = newProfile
  /\ work' = [work EXCEPT ![r] = NoWork]
  /\ UNCHANGED <<tables, quota, req, clock, starts, row, mix>>

\* INSERT or UPDATE, under the foreign key to the profile.
SaveTenant(r) ==
  LET p == work[r].prof
      t == work[r].target
  IN /\ work[r].pc = "saveTenant"
     /\ WriteTenants(r, IF tprofile[p] # None /\ tenant[t] # Gone THEN [tenant EXCEPT ![t] = p] ELSE tenant,
                     tprofile)

\* The transaction deletes the devices that are committed by then ...
HandleTenantDelete(r, t) ==
  t # System /\ Take(r, [NoWork EXCEPT !.op = "dropTenant", !.target = t, !.pc = "dropDevices"])

DropTenantDevices(r) ==
  /\ work[r].pc = "dropDevices"
  /\ Look(r, TRUE, [work[r] EXCEPT !.seen = DevicesOf(work[r].target), !.pc = "dropTenant"])

\* ... and table by table the rest.  A table whose delete fails keeps its rows:
\* device profiles a device still refers to, asset profiles an asset of another
\* tenant refers to, templates, which are deleted before the rules that refer to
\* them; device_credentials has no tenant_id.  Comments go with their alarms.
Refused(y) == \E z \in Referring(y) : row[z].tenant # row[y].tenant \/ row[z].table = "notification_rule"
Kept(t) ==
  {x \in Stored : row[x].tenant = t /\
     \E y \in Stored : row[y].table = row[x].table /\ row[y].tenant = t /\ Refused(y)}
DropTenant(r) ==
  LET t == work[r].target
      kept == \E d \in Live \ work[r].seen : profile[device[d].profile] # None /\ profile[device[d].profile].tenant = t
  IN /\ work[r].pc = "dropTenant"
     /\ \A x \in Requests : Pending(x) => profile[req[x].prof].tenant # t
     /\ IF tenant[t] \in {None, Gone} THEN UNCHANGED <<device, profile, row, tenant>>
        ELSE /\ device' = [d \in Devices |-> IF d \in work[r].seen THEN Gone ELSE device[d]]
             /\ profile' = [p \in Profiles |->
                  IF profile[p] # None /\ profile[p].tenant = t /\ ~kept THEN None ELSE profile[p]]
             /\ row' = [x \in Ids |->
                  IF x \in Stored /\ row[x].tenant = t /\ x \notin Kept(t) THEN Gone ELSE row[x]]
             /\ tenant' = [tenant EXCEPT ![t] = Gone]
     /\ rotated' = rotated \cup work[r].seen
     /\ work' = [work EXCEPT ![r] = NoWork]
     /\ UNCHANGED <<cred, quota, req, clock, starts, tprofile, mix>>

\* Never the default one, and none a tenant refers to.
TenantProfileDelete(r, p) == Take(r, [NoWork EXCEPT !.op = "tenantProfile", !.prof = p, !.pc = "preflight"])

Preflight(r) ==
  LET p == work[r].prof
  IN /\ work[r].pc = "preflight"
     /\ Look(r, tprofile[p] = FALSE /\ p \notin ReferencedProfiles, [work[r] EXCEPT !.pc = "dropTenantProfile"])

\* Mutant: the count of the preflight is all that protects the tenants.
RefersToNone(p) == TRUE
Unreferenced(p) == p \notin ReferencedProfiles

DropTenantProfile(r) ==
  LET p == work[r].prof
  IN /\ work[r].pc = "dropTenantProfile"
     /\ WriteTenants(r, tenant, IF Unreferenced(p) THEN [tprofile EXCEPT ![p] = None] ELSE tprofile)

\* The transaction clears the defaults of its snapshot and then sets one.
SetDefault(r, p) == Take(r, [NoWork EXCEPT !.op = "tenantProfile", !.prof = p, !.pc = "clear"])

ClearDefaults(r) ==
  /\ work[r].pc = "clear"
  /\ Look(r, TRUE, [work[r] EXCEPT !.seen = DefaultTenantProfiles, !.pc = "setDefault"])

CommitDefault(r) ==
  LET p == work[r].prof
  IN /\ work[r].pc = "setDefault"
     /\ tprofile' = IF tprofile[p] = None THEN tprofile
                    ELSE [q \in TenantProfiles |-> IF tprofile[q] = None THEN None
                                                   ELSE q = p \/ (tprofile[q] /\ q \notin work[r].seen)]
     /\ work' = [work EXCEPT ![r].pc = "invalidate"]
     /\ UNCHANGED <<tables, quota, req, clock, starts, row, tenant, mix>>

\* The new default's limits hold for others by now: the cache is emptied.
InvalidateDefaults(r) ==
  /\ work[r].pc = "invalidate"
  /\ cache' = [t \in Tenants |-> None]
  /\ work' = [work EXCEPT ![r] = NoWork]
  /\ UNCHANGED <<tables, limit, edited, req, clock, starts, adminTables, mix>>

-----------------------------------------------------------------------------
\* No request of "devices" reads the other tables, which are left empty there.
AdminInit ==
  /\ DeviceInit
  /\ mix \in Mixes
  /\ row = IF mix = "tables" THEN RowAtStart ELSE [x \in Ids |-> None]
  /\ Constrained
  /\ tenant = [t \in Tenants |-> CHOOSE p \in TenantProfiles : TRUE]
  /\ tprofile = [p \in TenantProfiles |-> p = CHOOSE q \in TenantProfiles : TRUE]
  /\ work = [r \in Requests |-> NoWork]

RowRequest(r) ==
  \/ \E i \in RowSaves :
       \/ CustomerSave(r, i) \/ AssetSave(r, i) \/ AssetSaveProfile(r, i) \/ DashboardSave(r, i)
       \/ EntityViewSave(r, i) \/ SaveWidgetType(r, i) \/ ResourceUpload(r, i) \/ ImageUpdate(r, i)
       \/ OtaSaveInfo(r, i) \/ SaveNotificationTemplate(r, i)
       \/ SaveNotificationRule(r, i) \/ AlarmCommentSave(r, i)
  \/ \E i \in RowDeletes :
       \/ CustomerDelete(r, i) \/ AssetDelete(r, i) \/ AssetDeleteProfile(r, i) \/ DashboardDelete(r, i)
       \/ EntityViewDelete(r, i) \/ ResourceDelete(r, i) \/ OtaDelete(r, i) \/ AlarmCommentDelete(r, i)
  \/ \E i \in Assignments : HandleAssignToCustomer(r, i)
  \/ \E i \in Shares : HandleAssignDashboardToCustomer(r, i)

TenantRequest(r) ==
  \/ \E t \in Tenants, p \in Profiles : HandleSetDefaultProfile(r, t, p)
  \/ \E i \in TenantSaves : HandleTenantSave(r, i)
  \/ \E t \in Tenants : HandleTenantDelete(r, t)
  \/ \E p \in TenantProfiles : TenantProfileDelete(r, p) \/ SetDefault(r, p)

AdminStep(r) ==
  \/ ResolveAssetProfile(r) \/ CheckReference(r) \/ CheckRow(r) \/ UpdateRow(r) \/ UpdateScoped(r)
  \/ InsertRow(r) \/ DeleteRow(r) \/ DeleteScoped(r) \/ DeleteComment(r)
  \/ CheckAssigned(r) \/ CustomerBelongsToTenant(r) \/ WriteAssignment(r)
  \/ CheckDefaultProfile(r) \/ SwapDefaultProfile(r)
  \/ ResolveTenantProfile(r) \/ SaveTenant(r) \/ DropTenantDevices(r) \/ DropTenant(r)
  \/ Preflight(r) \/ DropTenantProfile(r) \/ ClearDefaults(r) \/ CommitDefault(r)
  \/ InvalidateDefaults(r)

\* The requests of DeviceAdmin that meet the tables of a tenant that goes.
DeviceArrival(r) ==
  /\ work[r] = NoWork
  /\ \/ mix = "devices" /\ Arrival(r)
     \/ Room /\ \/ \E i \in Saves : i.dev = None /\ i.cred = None /\ HandleDeviceCreateOrUpdate(r, i)
                \/ \E i \in ProfileDeletes : HandleDeviceProfileDelete(r, i)

AdminNext ==
  \/ (Tick \/ \E r \in Requests : DeviceArrival(r) \/ DeviceStep(r)) /\ UNCHANGED <<adminTables, work, mix>>
  \/ \E r \in Requests : RowRequest(r) \/ TenantRequest(r) \/ AdminStep(r)

AdminSpec == AdminInit /\ [][AdminNext]_adminVars

-----------------------------------------------------------------------------
(* Properties.                                                             *)

\* What the foreign keys promise, although rows are deleted between the check
\* and the write of other requests.
ReferencesHold ==
  /\ DeviceTypeOK
  /\ Constrained
  /\ \A t \in Tenants : tenant[t] \notin {None, Gone} => tprofile[tenant[t]] # None

\* Whatever requests interleave, a row is written or deleted only by a request
\* of its own tenant, or with its tenant, and no write moves it to another tenant.
TenantsKeptApart ==
  [][\A x \in Ids :
       (row[x] \notin {None, Gone} /\ row'[x] # row[x]) =>
         /\ \E r \in Requests :
              /\ work'[r] # work[r]
              /\ row[x].tenant \in {work[r].tenant, work[r].target}
         /\ row'[x] # Gone => row'[x].tenant = row[x].tenant]_adminVars
=============================================================================
