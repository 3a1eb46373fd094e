\* Two requests at once, three in all for the devices, two for the other tables.
SPECIFICATION AdminSpec
CONSTANTS
  t1 = t1  t2 = t2  p1 = p1  p2 = p2  d1 = d1  d2 = d2  d3 = d3  d4 = d4  n1 = n1  n2 = n2  n3 = n3  n4 = n4  x1 = x1  a1 = a1
  c1 = c1  c2 = c2  a2 = a2  ap1 = ap1  da1 = da1  v1 = v1  w1 = w1  o1 = o1  nt1 = nt1  al1 = al1
  i1 = i1  nr1 = nr1  cm1 = cm1  new1 = new1  new2 = new2  sp1 = sp1  sp2 = sp2
  Requests = {r1, r2}
  Tenants = {t1, t2}
  Profiles = {p1, p2}
  Devices = {d1, d2, d3, d4}
  Names = {n1, n2, n3, n4}
  CredentialIds = {x1, a1}
  Saves <- MCSaves
  Deletes <- MCDeletes
  Rotations <- MCRotations
  Imports <- MCImports
  Provisions <- MCProvisions
  ProfileSaves <- MCProfileSaves
  LimitEdits <- MCLimitEdits
  ProfileDeletes <- MCProfileDeletes
  ProfileAtStart <- MCProfileAtStart
  DeviceAtStart <- MCDeviceAtStart
  CredentialAtStart <- MCCredentialAtStart
  LimitAtStart <- MCLimitAtStart
  TTL = 1
  MaxTime = 1
  MaxStarts = 3
  None = None
  Gone = Gone
  Ids = {c1, c2, a2, ap1, da1, v1, w1, o1, nt1, al1, i1, nr1, cm1, new1, new2}
  RowAtStart <- MCRowAtStart
  RowSaves <- MCRowSaves
  RowDeletes <- MCRowDeletes
  Assignments <- MCAssignments
  Shares <- MCShares
  TenantProfiles = {sp1, sp2}
  TenantSaves <- MCTenantSaves
  System = t2
  Mixes = {"devices", "tables"}
  MaxTableStarts = 2
INVARIANTS ReferencesHold OvershootBounded EditsPropagate RetryGetsSameToken
PROPERTY TenantsKeptApart
CHECK_DEADLOCK FALSE
