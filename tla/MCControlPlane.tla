-------------------------- MODULE MCControlPlane --------------------------
(* Administration, and with it DeviceAdmin, with small sets for TLC.       *)
EXTENDS Administration, MCDeviceAdmin

CONSTANTS c1, c2, a2, ap1, da1, v1, w1, o1, nt1, al1, i1, nr1, cm1, new1, new2, sp1, sp2

Stub(k, t, n, refs) == [table |-> k, tenant |-> t, name |-> n, refs |-> refs, default |-> FALSE, owner |-> {}]
Body(k, t, x, n, refs, owner) ==
  [table |-> k, tenant |-> t, id |-> x, name |-> n, refs |-> refs, default |-> FALSE, owner |-> owner]

\* Tenant t1 has a row of every table, t2 a customer.
MCRowAtStart ==
  [x \in Ids |->
     CASE x = c1  -> Stub("customer", t1, n1, {})
       [] x = c2  -> Stub("customer", t2, n1, {})
       [] x = ap1 -> [Stub("asset_profile", t1, n1, {}) EXCEPT !.default = TRUE]
       [] x = a2  -> Stub("asset", t1, n1, {ap1})
       [] x = da1 -> [Stub("dashboard", t1, n1, {}) EXCEPT !.owner = {c1}]
       [] x = v1  -> Stub("entity_view", t1, n1, {})
       [] x = w1  -> Stub("widget_type", t1, n1, {})
       [] x = o1  -> Stub("ota_package", t1, n1, {})
       [] x = nt1 -> Stub("notification_template", t1, n1, {})
       [] x = al1 -> Stub("alarm", t1, n1, {})
       [] x = i1  -> Stub("resource", t1, n1, {})
       [] x = nr1 -> Stub("notification_rule", t1, n1, {nt1})
       [] x = cm1 -> Stub("alarm_comment", t1, n1, {al1})
       [] OTHER   -> None]

\* Creates with a name that is free or taken, updates by the owner and by the
\* other tenant, a new default profile that replaces none.
MCRowSaves ==
  {Body("customer", t1, None, n2, {}, {}), Body("customer", t2, c1, n1, {}, {}),
   Body("asset", t1, None, n2, {}, {c1}), Body("asset", t1, a2, n1, {}, {}), Body("asset", t2, a2, n2, {ap1}, {}),
   Body("asset", t2, None, n1, {ap1}, {}),
   Body("asset_profile", t1, ap1, n2, {}, {}), Body("asset_profile", t1, None, n2, {}, {}),
   Body("dashboard", t1, da1, n1, {}, {c1}), Body("dashboard", t2, da1, n1, {}, {}),
   Body("entity_view", t1, None, n2, {}, {}), Body("entity_view", t2, v1, n1, {}, {}),
   Body("widget_type", t1, None, n1, {}, {}), Body("widget_type", t2, w1, n1, {}, {}),
   Body("resource", t1, None, n1, {}, {}), Body("resource", t1, i1, n2, {}, {}), Body("resource", t2, i1, n1, {}, {}),
   Body("ota_package", t1, None, n2, {}, {}), Body("ota_package", t2, o1, n1, {}, {}),
   Body("notification_template", t2, None, n1, {}, {}),
   Body("notification_rule", t1, None, n2, {nt1}, {}), Body("notification_rule", t2, None, n1, {nt1}, {}),
   Body("alarm_comment", t1, None, n1, {al1}, {}), Body("alarm_comment", t1, cm1, n2, {al1}, {}),
   Body("alarm_comment", t2, cm1, n2, {al1}, {})}
Drop(k, t, x, refs) == [table |-> k, tenant |-> t, id |-> x, refs |-> refs]
MCRowDeletes ==
  {Drop("customer", t1, c1, {}), Drop("customer", t1, c2, {}), Drop("asset", t1, a2, {}),
   Drop("asset_profile", t1, ap1, {}), Drop("dashboard", t1, da1, {}), Drop("entity_view", t1, v1, {}),
   Drop("resource", t2, i1, {}), Drop("resource", t1, i1, {}), Drop("ota_package", t2, o1, {}),
   Drop("alarm_comment", t1, cm1, {al1})}
MCAssignments ==
  {[table |-> "asset", tenant |-> t, id |-> a2, owner |-> c] : t \in {t1}, c \in {{}, {c1}, {c2}}}
    \cup {[table |-> "asset", tenant |-> t2, id |-> a2, owner |-> {c2}]}
MCShares == {[tenant |-> t1, id |-> da1, customer |-> c1, assign |-> u] : u \in BOOLEAN}
MCTenantSaves == {[target |-> t1, profile |-> None], [target |-> t1, profile |-> sp2]}
=============================================================================
