------------------------------ MODULE Listings ------------------------------
(***************************************************************************)
(* The listings of the REST API: a client walks a listing page by page     *)
(* while rows come and go.  A handler counts the rows that match and then  *)
(* reads one page of them, in two statements; it answers hasNext, and the  *)
(* client asks for the next page by its number, or with a cursor.          *)
(*                                                                         *)
(* The handlers differ in whose rows they read, in how they sort them, in  *)
(* how they count and in how they page; each is the set of listings it     *)
(* serves.  Filters and search texts are one: a row is a hit or not.       *)
(***************************************************************************)
EXTENDS Naturals, Sequences, FiniteSets, FiniteSetsExt, SequencesExt

CONSTANTS
  ListRows,      \* rows there may be: [id, tenant, key, hit]
  Viewer,        \* the tenant of the client
  SystemTenant,  \* the tenant of what all tenants share
  PageSizes,     \* what clients ask for; PageSize bounds it by 1000
  MaxListEdits   \* bound

\* A row is known by its id.
ASSUME ListingsAssumption ==
  /\ IsFiniteSet(ListRows) /\ PageSizes \subseteq Nat \ {0}
  /\ \A x \in ListRows : x.id \in Nat /\ x.key \in Nat /\ x.hit \in BOOLEAN
  /\ \A x, y \in ListRows : x.id = y.id => x = y

VARIABLES
  table,         \* rows there are
  walk,          \* the client: [pc, listing, filtered, size, page, total, got, edited, failed, lasting]
  listEdits

listVars == <<table, walk, listEdits>>

-----------------------------------------------------------------------------
(* Listings.                                                               *)

\* scope: "own" rows, those and the "shared" ones, or "every" row.
\* sort: by a column that is "unique" in the scope, or one that may be "tied".
\* count: "ignored" when it fails, "required", or taken from the "same" rows.
\* paging: by "offset", with a "cursor", the "whole" at once, or the "first" only.
Listing(scope, sort, count, paging) == {[scope |-> scope, sort |-> sort, count |-> count, paging |-> paging]}
Offset(scope, sort, count) == Listing(scope, sort, count, "offset")
Whole(scope, sort) == Listing(scope, sort, "same", "whole")

\* By name, or by a type, label or time.
listDeviceInfos == Offset("own", "unique", "ignored") \cup Offset("own", "tied", "ignored")
HandleDeviceTypes == Whole("own", "unique")
ListByTenant == Offset("own", "tied", "ignored")
\* One query; the page is cut from what it returned.
ListByCustomer == Offset("own", "tied", "same")
ListCustomers == Whole("own", "unique")
HandleAlarmsQueryFind == Offset("own", "tied", "ignored")
handleAlarmsByDevice == Offset("own", "tied", "ignored")
HandleTenantsList == Offset("every", "tied", "required")
TenantProfiles == Offset("every", "tied", "required")
OtaPackages == Offset("own", "tied", "required")
Images == Offset("shared", "tied", "ignored") \cup Offset("own", "tied", "ignored")
Resources == Offset("shared", "tied", "ignored")
TenantResources == Offset("own", "tied", "ignored")
AlarmComments == Offset("own", "tied", "ignored")
listNotificationTargets == Offset("own", "unique", "ignored")
listNotificationTemplates == Offset("own", "unique", "ignored")
listNotificationRules == Offset("own", "unique", "ignored")
listNotificationRequests == Offset("own", "tied", "ignored")
HandleAuditLogs == Offset("own", "tied", "ignored")
AuditByDimension == Offset("own", "tied", "ignored")
\* Of every tenant.
listOAuth2Clients == Listing("every", "tied", "same", "first")
listAssetInfos == Offset("own", "tied", "ignored")
listEntityViewInfos == Offset("own", "tied", "ignored")
HandleDeviceProfileInfos == Offset("own", "unique", "ignored")
HandleAssetProfileInfos == Offset("own", "unique", "ignored")
HandleDeviceProfileNames == Whole("own", "unique")
HandleTenantDeviceProfiles == Offset("own", "unique", "ignored")
HandleTenantAssetProfiles == Offset("own", "unique", "ignored")
HandleTenantAssets == Offset("own", "unique", "ignored")
HandleTenantEntityViews == Offset("own", "tied", "ignored")
HandleTenantCustomers == Offset("own", "tied", "ignored")
HandleAlarmTypes == Listing("own", "unique", "same", "first")
HandleRuleChains == Offset("own", "tied", "ignored")
listUsers == Offset("own", "unique", "ignored")
HandleTenantDashboardsByID == Offset("own", "tied", "ignored")
HandleTenantUsersByID == Offset("own", "unique", "ignored")
WidgetTypes == Offset("every", "tied", "ignored") \cup Whole("every", "tied")
WidgetBundles == Offset("every", "tied", "ignored") \cup Whole("every", "tied")
BundlesFlat == Whole("every", "tied")
WidgetTypesInfos == Offset("every", "tied", "required")
\* The newest version of each model or policy, with the count of the same statement.
TwinModels == Offset("own", "unique", "same")
TwinPolicies == Offset("own", "unique", "same")
\* By the key of the table, one row more than the page to know of a next one.
HandleList == Listing("own", "unique", "required", "cursor")
\* The entity queries answer their first page as the only one.
EntityQuery(sort) == Listing("own", sort, "same", "first")
handleDeviceTypeFilter == EntityQuery("unique")
handleAssetTypeFilter == EntityQuery("unique")
handleEntityViewTypeFilter == EntityQuery("tied")
handleEntityNameFilter == EntityQuery("tied")

Listings == UNION {
  listDeviceInfos, HandleDeviceTypes, ListByTenant, ListByCustomer, ListCustomers, HandleAlarmsQueryFind,
  handleAlarmsByDevice, HandleTenantsList, TenantProfiles, OtaPackages, Images, Resources, TenantResources,
  AlarmComments, listNotificationTargets, listNotificationTemplates, listNotificationRules,
  listNotificationRequests, HandleAuditLogs, AuditByDimension, listOAuth2Clients, listAssetInfos,
  listEntityViewInfos, HandleDeviceProfileInfos, HandleAssetProfileInfos, HandleDeviceProfileNames,
  HandleTenantDeviceProfiles, HandleTenantAssetProfiles, HandleTenantAssets, HandleTenantEntityViews,
  HandleTenantCustomers, HandleAlarmTypes, HandleRuleChains, listUsers, HandleTenantDashboardsByID,
  HandleTenantUsersByID, WidgetTypes, WidgetBundles, BundlesFlat, WidgetTypesInfos, TwinModels,
  TwinPolicies, HandleList, handleDeviceTypeFilter, handleAssetTypeFilter, handleEntityViewTypeFilter,
  handleEntityNameFilter}

-----------------------------------------------------------------------------
(* One statement over the rows there are.                                  *)

InScope(scope) ==
  CASE scope = "own"    -> {x \in table : x.tenant = Viewer}
    [] scope = "shared" -> {x \in table : x.tenant \in {Viewer, SystemTenant}}
    [] scope = "every"  -> table
Selected(listing, filtered) == {x \in InScope(listing.scope) : filtered => x.hit}

SortKey(listing, x) == IF listing.sort = "unique" THEN x.id ELSE x.key
\* ORDER BY leaves rows of one key in any order, in each statement anew.
Ordered(listing, S) ==
  {s \in SetToSeqs(S) : \A i, j \in DOMAIN s : i < j => SortKey(listing, s[i]) <= SortKey(listing, s[j])}
Least(a, b) == IF a <= b THEN a ELSE b
\* LIMIT n OFFSET o
Slice(s, o, n) == SubSeq(s, o + 1, Least(o + n, Len(s)))

WholePages(total, size) == total \div size
TotalPages(total, size) == (total + size - 1) \div size

-----------------------------------------------------------------------------
(* The client and the handlers.                                            *)

Away == [pc |-> "away"]

Ask(listing, filtered, size) ==
  /\ walk = Away
  /\ walk' = [pc |-> "count", listing |-> listing, filtered |-> filtered, size |-> size, page |-> 0, total |-> 0,
              got |-> <<>>, edited |-> FALSE, failed |-> FALSE, lasting |-> Selected(listing, filtered)]
  /\ UNCHANGED <<table, listEdits>>

Over(failed) == [walk EXCEPT !.pc = "over", !.failed = @ \/ failed]

\* The count; a handler that ignores its error goes on with a total of 0.
CountRows ==
  LET Counted(total, failed) == [walk EXCEPT !.pc = "fetch", !.total = total, !.failed = @ \/ failed]
      all == Cardinality(Selected(walk.listing, walk.filtered))
  IN  /\ walk.pc = "count"
      /\ walk' \in CASE walk.listing.count = "same"     -> {Counted(0, FALSE)}
                     [] walk.listing.count = "ignored"  -> {Counted(all, FALSE), Counted(0, TRUE)}
                     [] walk.listing.count = "required" -> {Counted(all, FALSE), Over(TRUE)}
      /\ UNCHANGED <<table, listEdits>>

\* The client has a page and, when there is a next one, asks for it.
Answered(page, hasNext) ==
  walk' = [walk EXCEPT !.pc = IF hasNext THEN "count" ELSE "over", !.page = @ + 1, !.got = @ \o page]

OffsetPage ==
  /\ walk.listing.paging = "offset"
  /\ LET S == Selected(walk.listing, walk.filtered)
         total == IF walk.listing.count = "same" THEN Cardinality(S) ELSE walk.total
     IN  \E s \in Ordered(walk.listing, S) :
           Answered(Slice(s, walk.page * walk.size, walk.size), walk.page + 1 < TotalPages(total, walk.size))

\* The rows after the last one the client has, and one more to know of a next page.
CursorPage ==
  /\ walk.listing.paging = "cursor"
  /\ LET S == {x \in Selected(walk.listing, walk.filtered) :
                 walk.got # <<>> => Last(walk.got).id < x.id}
     IN  \E s \in Ordered(walk.listing, S) : Answered(Slice(s, 0, walk.size), Len(s) > walk.size)

WholeAnswer ==
  /\ walk.listing.paging = "whole"
  /\ \E s \in Ordered(walk.listing, Selected(walk.listing, walk.filtered)) : Answered(s, FALSE)

\* A page that says it is the last, whatever there is.
FirstPage ==
  /\ walk.listing.paging = "first"
  /\ \E s \in Ordered(walk.listing, Selected(walk.listing, walk.filtered)) : Answered(Slice(s, 0, walk.size), FALSE)

\* The query fails: an error, or an empty page.
FetchPage ==
  /\ walk.pc = "fetch"
  /\ OffsetPage \/ CursorPage \/ WholeAnswer \/ FirstPage \/ walk' = Over(TRUE)
  /\ UNCHANGED <<table, listEdits>>

Forget ==
  /\ walk.pc = "over"
  /\ walk' = Away
  /\ UNCHANGED <<table, listEdits>>

\* Other requests insert and delete rows.
EditTable(x) ==
  /\ listEdits < MaxListEdits /\ listEdits' = listEdits + 1
  /\ table' = IF x \in table THEN table \ {x} ELSE table \cup {x}
  /\ walk' = IF walk = Away THEN walk ELSE [walk EXCEPT !.edited = TRUE, !.lasting = @ \ {x}]

ListingsInit == table \in SUBSET ListRows /\ walk = Away /\ listEdits = 0

ListingsNext ==
  \/ CountRows \/ FetchPage \/ Forget
  \/ \E x \in ListRows : EditTable(x)
  \/ \E listing \in Listings, filtered \in BOOLEAN, size \in PageSizes : Ask(listing, filtered, size)

ListingsSpec == ListingsInit /\ [][ListingsNext]_listVars

-----------------------------------------------------------------------------
\* A walk that ends, with no statement failed, has every row that matched once and
\* in order, if nobody edited the table and the sort tells rows apart (a whole
\* answer needs neither).  With a cursor it does so whatever is edited: no row
\* comes twice, and none that stayed is left out.
WalksFindAll ==
  walk.pc = "over" /\ ~walk.failed /\ walk.listing.paging # "first" =>
    LET l == walk.listing
        once == \A i, j \in DOMAIN walk.got : i < j => SortKey(l, walk.got[i]) <= SortKey(l, walk.got[j])
                                                     /\ walk.got[i] # walk.got[j]
    IN  /\ l.paging = "cursor" \/ (~walk.edited /\ (l.sort = "unique" \/ l.paging = "whole")) =>
             once /\ walk.lasting \subseteq ToSet(walk.got)
        /\ ~walk.edited => ToSet(walk.got) \subseteq walk.lasting
=============================================================================
