------------------------ MODULE MCAlarmMaterializer ------------------------
(***************************************************************************)
(* Instances of AlarmMaterializer for TLC.                                 *)
(***************************************************************************)
EXTENDS AlarmMaterializer, TLC

\* site contains hall, hall contains dev1; dev2 hangs directly below site.
TreeContains == {<<"site", "hall">>, <<"hall", "dev1">>, <<"site", "dev2">>}
ShelfContains == {<<"site", "dev1">>}

OwnedByAcme == [d \in Devices |-> "acme"]

Create(d, t, s) ==
    [action |-> ActionCreateOrUpdate, tenant |-> "acme", device |-> d, type |-> t, severity |-> s]
Clear(d, t) ==
    [action |-> ActionClear, tenant |-> "acme", device |-> d, type |-> t, severity |-> ""]
Malformed == [Clear("dev1", "hot") EXCEPT !.action = ActionCreateOrUpdate]
WrongTenant == [Create("dev1", "hot", "MINOR") EXCEPT !.tenant = "other"]

\* One device, one type: raise, escalate, clear, an intent that Validate
\* refuses and one that names a device of another tenant.
LifecycleIntents ==
    {Create("dev1", "hot", "MINOR"), Create("dev1", "hot", "MAJOR"), Clear("dev1", "hot"),
     Malformed, WrongTenant}

\* The valid ones among them.
ValidIntents == LifecycleIntents \ {Malformed, WrongTenant}

\* Two devices below one root, and two types on one of them.
TreeIntents ==
    {Create("dev1", "hot", "MINOR"), Create("dev1", "leak", "MAJOR"),
     Create("dev2", "hot", "MINOR"), Clear("dev1", "hot"), Malformed, WrongTenant}

\* newID's uuids are interchangeable.
AlarmIdSymmetry == Permutations(AlarmIds)
=============================================================================
