--------------------------- MODULE MCDeviceAdmin ---------------------------
(* DeviceAdmin with small sets for TLC.                                    *)
EXTENDS DeviceAdmin, TLC

CONSTANTS t1, t2, p1, p2, d1, d2, d3, d4, n1, n2, n3, n4, x1, a1

X509 == [type |-> "X509_CERTIFICATE", id |-> x1]
Token == [type |-> "ACCESS_TOKEN", id |-> a1]

Save(t, d, n, p, c) == [tenant |-> t, dev |-> d, name |-> n, prof |-> p, cred |-> c]

\* Creates and updates by the owner and by another tenant, with the default
\* profile or a given one, with a free and with a taken credential id.
MCSaves ==
  {Save(t1, None, n2, None, None), Save(t1, None, n3, p2, None), Save(t1, d1, n2, p2, None),
   Save(t2, d1, n1, p1, None), Save(t2, None, n2, None, None),
   Save(t1, None, n4, None, Token), Save(t1, None, n3, None, X509), Save(t1, d1, n1, None, Token)}
MCDeletes == {[tenant |-> t1, dev |-> d1], [tenant |-> t1, dev |-> d2]}
MCRotations == {[tenant |-> t1, dev |-> d1, cred |-> Token], [tenant |-> t1, dev |-> d2, cred |-> Token]}

\* One file with a device that is there and one that is not.
MCImports ==
  {[tenant |-> t1,
    rows |-> <<[name |-> n1, cred |-> Token, update |-> u], [name |-> n2, cred |-> None, update |-> u]>>]
     : u \in BOOLEAN}
MCProvisions == {[prof |-> p1, name |-> n1], [prof |-> p1, name |-> n3], [prof |-> p2, name |-> n2]}
MCLimitEdits == {[tenant |-> t1, lim |-> v] : v \in {1, 2}}
MCProfileDeletes ==
  {[tenant |-> t1, prof |-> p1], [tenant |-> t1, prof |-> p2], [tenant |-> t2, prof |-> p2]}
MCProfileSaves ==
  {[id |-> p1, tenant |-> t1, default |-> FALSE, type |-> "DISABLED"],
   [id |-> p2, tenant |-> t1, default |-> FALSE, type |-> "ALLOW_CREATE_NEW_DEVICES"]}

\* Two profiles of one tenant, the default one allows provisioning; one device,
\* which has a certificate.  The other tenant has nothing.
MCProfileAtStart ==
  p1 :> [tenant |-> t1, default |-> TRUE, type |-> "ALLOW_CREATE_NEW_DEVICES"]
  @@ p2 :> [tenant |-> t1, default |-> FALSE, type |-> "CHECK_PRE_PROVISIONED_DEVICES"]
MCDeviceAtStart ==
  [d \in Devices |-> IF d = d1 THEN [tenant |-> t1, name |-> n1, profile |-> p1] ELSE None]
MCCredentialAtStart == [d \in Devices |-> IF d = d1 THEN X509 ELSE None]
MCLimitAtStart == [t \in Tenants |-> 2]
=============================================================================
