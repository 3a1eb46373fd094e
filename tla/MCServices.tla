----------------------------- MODULE MCServices -----------------------------
(***************************************************************************)
(* The components that share nothing with each other but the database,     *)
(* each on a small instance of its own.  A behaviour is one of one         *)
(* component, chosen at the start, while the others rest in a state of     *)
(* theirs: the state spaces add up instead of multiplying.                 *)
(***************************************************************************)
EXTENDS Accounts, Rpc, DeviceState, AuditLog, UsageReport, KeyDictionary, Policies, StartUp, Listings, WsCommands

VARIABLE part

serviceVars == <<accountVars, rpcVars, deviceStateVars, auditVars, usageVars, keyVars, policyVars,
                 startUpVars, listVars, wsVars, part>>

-----------------------------------------------------------------------------
(* Accounts: the SYS_ADMIN, an administrator of t1 and a customer who is   *)
(* not activated yet; two requests at once, three in all, and six logins.  *)

CONSTANTS s1, u1, u2, n1, n2, t0, t1, e0, e1, e2, e3, ip1, ip2, id1, good, bad1, bad2, bad3

Row(t, a, e) == [tenant |-> t, authority |-> a, email |-> e]
Secret(p, a) == [password |-> p, enabled |-> a = Null, reset |-> Null, activate |-> a]
MCUserAtStart ==
  [u \in Users |-> CASE u = s1 -> Row(t0, "SYS_ADMIN", e0)
                     [] u = u1 -> Row(t1, "TENANT_ADMIN", e1)
                     [] u = u2 -> Row(t1, "CUSTOMER_USER", e2)
                     [] OTHER -> Null]
MCCredentialAtStart ==
  [u \in Users |-> CASE u = s1 -> Secret(good, Null)
                     [] u = u1 -> Secret(good, Null)
                     [] u = u2 -> Secret(Null, [n |-> 1, expires |-> 1])
                     [] OTHER -> Null]
MCSessionsAtStart ==
  {[user |-> s1, tenant |-> t0, authority |-> "SYS_ADMIN"], [user |-> u1, tenant |-> t1, authority |-> "TENANT_ADMIN"]}
\* Wrong passwords of one address and the right one of another, and of both users.
MCLogins ==
  {[ip |-> ip1, email |-> e1, password |-> p] : p \in {bad1, bad2, bad3, good}}
  \cup {[ip |-> ip1, email |-> e2, password |-> bad1]}
MCUserSaves ==
  {[target |-> u1, authority |-> "TENANT_ADMIN", email |-> e1], [target |-> u1, authority |-> "CUSTOMER_USER", email |-> e1],
   [target |-> u2, authority |-> "SYS_ADMIN", email |-> e2], [target |-> u2, authority |-> "TENANT_ADMIN", email |-> e2],
   [target |-> Null, authority |-> "CUSTOMER_USER", email |-> e3]}
MCPasswordChanges == {[user |-> u1, old |-> good, new |-> bad1]}
MCCallbacks == {[identity |-> id1, email |-> e1], [identity |-> id1, email |-> e3]}

-----------------------------------------------------------------------------
(* Rpc: two calls at once, of both kinds, one of them to the device of     *)
(* another tenant.  A second replica would only hear replies it drops.     *)

CONSTANTS d1, d2, rep1

MCOwner == (d1 :> "acme") @@ (d2 :> "other")
MCCommands ==
  {[tenant |-> "acme", device |-> d1, oneway |-> FALSE, replica |-> rep1],
   [tenant |-> "acme", device |-> d1, oneway |-> TRUE, replica |-> rep1],
   [tenant |-> "acme", device |-> d2, oneway |-> FALSE, replica |-> rep1],
   [tenant |-> "other", device |-> d2, oneway |-> FALSE, replica |-> rep1]}

-----------------------------------------------------------------------------
(* AuditLog: months of two and three days.                                 *)
MCMonthLengths == <<3, 2, 3, 3, 3, 3>>

(* KeyDictionary: two goroutines of a replica and one of another.          *)
CONSTANTS l1, l2, l3, p1, p2
MCProcessOf == (l1 :> p1) @@ (l2 :> p1) @@ (l3 :> p2)

-----------------------------------------------------------------------------
(* Policies: documents whose entries differ in depth, in wildcards and in  *)
(* what they revoke.                                                       *)

P(s, g, r) == [subjects |-> s, grants |-> g, revokes |-> r]
Twin == <<"acme", "DEVICE", "d1">>
Temp == Twin \o <<"features", "temp">>
MCDocuments ==
  {P({"acme"}, <<"acme">> :> {"*"}, Temp :> {"WRITE"}),
   P({"*"}, (Twin \o <<"#">>) :> {"READ"} @@ <<"acme">> :> {"READ", "WRITE"}, <<>>),
   P({"acme"}, <<"acme", "*", "*">> :> {"READ"} @@ (Twin \o <<"features", "*">>) :> {"WRITE"}, (Twin \o <<"features", "*">>) :> {"READ"}),
   P({"acme"}, <<"acme">> :> {"WRITE"}, Temp :> {"READ"})}
Pin(t, i) == [tenant |-> t, id |-> i]
AskOf(s, a, ps, pin) == [subject |-> s, action |-> a, tenant |-> "acme", pin |-> pin, paths |-> ps]
MCAsked ==
  {AskOf("acme", "READ", {Twin}, Pin("acme", "default")),
   AskOf("acme", "WRITE", {Temp}, Pin("acme", "default")),
   AskOf("acme", "WRITE", {Temp, Twin \o <<"features", "hum">>}, Pin("acme", "default")),
   AskOf("other", "READ", {<<"acme">>}, Pin("acme", "default")),
   AskOf(SysAdmin, "READ", {<<"acme">>}, Pin("acme", "default")),
   AskOf("acme", "WRITE", {Temp}, Pin("other", "default")),
   AskOf("acme", "READ", {Twin}, Pin("acme", "other"))}

-----------------------------------------------------------------------------
(* Listings: three rows of the tenant, two of them with one sort key, one  *)
(* of the system and one of another tenant.                                *)
Stored(i, t, k, h) == [id |-> i, tenant |-> t, key |-> k, hit |-> h]
MCListRows ==
  {Stored(1, "acme", 1, TRUE), Stored(2, "acme", 1, TRUE), Stored(3, "acme", 2, FALSE),
   Stored(4, "system", 2, TRUE), Stored(5, "other", 1, TRUE)}

-----------------------------------------------------------------------------
(* Sessions: two devices and the usage state of acme, a device of another  *)
(* tenant; three messages of a client that shows tokens of both tenants,   *)
(* rebinds a command and sends its second step.                            *)
CONSTANTS w1, w2, w3, w4

MCWsKind == [e \in WsEntities |-> IF e = w4 THEN "API_USAGE_STATE" ELSE "DEVICE"]
MCWsEdges == {<<w1, w3>>, <<w3, w2>>, <<w1, w2>>, <<w2, w4>>}
MCWsOwner == [e \in WsEntities |-> IF e = w3 THEN "other" ELSE "acme"]
Token(t, a) == [valid |-> TRUE, tenant |-> t, admin |-> a]
Scoped(n, p) == [name |-> n, padded |-> p]
NoScope == Scoped("", FALSE)
Sub(ch, e, c, ks, sc, un) ==
  [op |-> "sub", channel |-> ch, entity |-> e, type |-> "DEVICE", cmd |-> c, keys |-> ks, scope |-> sc, unsubscribe |-> un]
Query(k, e, ty, c, ks, ak) ==
  [op |-> "query", query |-> k, entity |-> e, type |-> ty, cmd |-> c, keys |-> ks, attrKeys |-> ak]
Message(a, ss, qs, cs) == [auth |-> a, subs |-> ss, queries |-> qs, counts |-> cs]
MCWsMessages ==
  {Message(Token("acme", FALSE), <<Sub("telemetry", w1, 1, {"temp"}, NoScope, FALSE)>>,
           <<Query("entity", w1, "DEVICE", 5, {"temp"}, "mode" :> "SHARED_SCOPE")>>, <<>>),
   Message(Token("other", FALSE), <<Sub("attributes", w3, 2, {}, Scoped("SHARED_SCOPE", TRUE), FALSE),
                                    Sub("alarms", w1, 3, {}, NoScope, FALSE)>>, <<>>, <<>>),
   Message(Unset, <<Sub("telemetry", w1, 1, {}, NoScope, TRUE), Sub("attributes", w1, 2, {"mode"}, Scoped("SHARED_SCOPE", FALSE), FALSE)>>,
           <<Query("entity", w2, "DEVICE", 5, {"hum"}, <<>>)>>, <<>>),
   Message(Unset, <<>>, <<Query("entity", Unset, "", 5, {"rate"}, "mode" :> "ATTRIBUTE"), Query("usage", Unset, "", 7, {}, <<>>)>>, <<>>),
   Message(Unset, <<>>, <<Query("relations", w1, "DEVICE", 6, {}, <<>>)>>,
           <<Query("list", Unset, "DEVICE", 8, {}, <<>>)>>),
   Message([Token("acme", FALSE) EXCEPT !.valid = FALSE], <<>>, <<>>, <<>>)}
Change(ty, e, sc, ks, fs) == [type |-> ty, entity |-> e, scope |-> sc, keys |-> ks, features |-> fs]
WsKeys == {"temp", "hum", "rate", "mode"}
MCWsEvents ==
  {Change("twin.attribute.saved", e, sc, WsKeys, <<>>) : e \in WsEntities, sc \in {"SHARED_SCOPE", "SERVER_SCOPE"}}
  \cup {Change("twin.device_state.saved", e, Unset, WsKeys, <<>>) : e \in WsEntities}
  \cup {Change("twin.alarm.saved", e, Unset, {}, <<>>) : e \in WsEntities}
  \cup {Change("twin.feature.saved", e, Unset, {}, "f1" :> {"mode"}) : e \in WsEntities}
  \cup {Change("twin.attribute.saved", Unset, Unset, WsKeys, <<>>)}

-----------------------------------------------------------------------------
\* Of the components that do not run, one state each.
Rest ==
  /\ part # "accounts" => area = "guess"
  /\ part # "audit" => day = 1
  /\ part # "usage" => states = UsageTenants
  /\ part # "startup" => schema = 0
  /\ part # "listings" => table = {}

Init ==
  /\ part \in {"accounts", "calls", "device", "audit", "usage", "keys", "policies", "startup", "listings", "sessions"}
  /\ AccountsInit /\ RpcInit /\ DeviceStateInit /\ AuditInit /\ UsageInit
  /\ KeyInit /\ PolicyInit /\ StartUpInit /\ ListingsInit /\ WsInit
  /\ Rest

Next ==
  \/ part = "accounts" /\ AccountsNext /\ UNCHANGED <<part, rpcVars, deviceStateVars, auditVars, usageVars, keyVars, policyVars, startUpVars, listVars, wsVars>>
  \/ part = "calls" /\ RpcNext /\ UNCHANGED <<part, accountVars, deviceStateVars, auditVars, usageVars, keyVars, policyVars, startUpVars, listVars, wsVars>>
  \/ part = "device" /\ DeviceStateNext /\ UNCHANGED <<part, accountVars, rpcVars, auditVars, usageVars, keyVars, policyVars, startUpVars, listVars, wsVars>>
  \/ part = "audit" /\ AuditNext /\ UNCHANGED <<part, accountVars, rpcVars, deviceStateVars, usageVars, keyVars, policyVars, startUpVars, listVars, wsVars>>
  \/ part = "usage" /\ UsageNext /\ UNCHANGED <<part, accountVars, rpcVars, deviceStateVars, auditVars, keyVars, policyVars, startUpVars, listVars, wsVars>>
  \/ part = "keys" /\ KeyNext /\ UNCHANGED <<part, accountVars, rpcVars, deviceStateVars, auditVars, usageVars, policyVars, startUpVars, listVars, wsVars>>
  \/ part = "policies" /\ PolicyNext /\ UNCHANGED <<part, accountVars, rpcVars, deviceStateVars, auditVars, usageVars, keyVars, startUpVars, listVars, wsVars>>
  \/ part = "startup" /\ StartUpNext /\ UNCHANGED <<part, accountVars, rpcVars, deviceStateVars, auditVars, usageVars, keyVars, policyVars, listVars, wsVars>>
  \/ part = "listings" /\ ListingsNext /\ UNCHANGED <<part, accountVars, rpcVars, deviceStateVars, auditVars, usageVars, keyVars, policyVars, startUpVars, wsVars>>
  \/ part = "sessions" /\ WsNext /\ UNCHANGED <<part, accountVars, rpcVars, deviceStateVars, auditVars, usageVars, keyVars, policyVars, startUpVars, listVars>>

Spec == Init /\ [][Next]_serviceVars
=============================================================================
