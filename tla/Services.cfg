\* Ten components, each on its own: a behaviour is one of one component.
SPECIFICATION Spec
CONSTANTS
  s1 = s1  u1 = u1  u2 = u2  n1 = n1  n2 = n2  t0 = t0  t1 = t1  e0 = e0  e1 = e1  e2 = e2  e3 = e3
  ip1 = ip1  ip2 = ip2  id1 = id1  good = good  bad1 = bad1  bad2 = bad2  bad3 = bad3
  AccountRequests = {r1, r2}
  Users = {s1, u1, u2, n1}
  Emails = {e0, e1, e2, e3}
  Passwords = {good, bad1, bad2, bad3}
  AccountTenants = {t0, t1}
  Forgotten = {e1}
  NewPasswords = {bad2}
  Identities = {id1}
  Addresses = {ip1}
  Logins <- MCLogins
  UserSaves <- MCUserSaves
  PasswordChanges <- MCPasswordChanges
  Callbacks <- MCCallbacks
  MaxFails = 2
  MaxAttempts = 3
  Window = 1
  TokenTTL = 1
  DefaultTenant = t1
  DefaultAuthority = "CUSTOMER_USER"
  UserAtStart <- MCUserAtStart
  CredentialAtStart <- MCCredentialAtStart
  SessionsAtStart <- MCSessionsAtStart
  Areas = {"guess", "manage"}
  MaxTime = 2
  MaxAccountStarts = 3
  MaxLogins = 6
  Unguessable = Unguessable
  Null = Null
  d1 = d1  d2 = d2  rep1 = rep1
  Replicas = {rep1}
  Calls = {c1, c2}
  RpcDevices = {d1, d2}
  Owner <- MCOwner
  Commands <- MCCommands
  MaxReplies = 2
  Nobody = Nobody
  Listeners = {n1, n2}
  Features = {"f1", "f2"}
  MaxWrites = 2
  MaxReports = 2
  Nothing = Nothing
  MonthLengths <- MCMonthLengths
  FirstDays = {1, 3}
  QueueSize = 1
  RetentionDays = 3
  MaxEvents = 2
  MaxDay = 9
  UsageTenants = {"acme", "other"}
  Width = 2
  MaxHour = 2
  MaxSeq = 2
  MaxSnapshots = 2
  MaxFaults = 1
  NotMeasured = NotMeasured
  l1 = l1  l2 = l2  l3 = l3  p1 = p1  p2 = p2
  Processes = {p1, p2}
  DictKeys = {k1, k2}
  Lookers = {l1, l2, l3}
  ProcessOf <- MCProcessOf
  Unknown = Unknown
  MaxLookups = 4
  PolicyTenants = {"acme"}
  PolicyIds = {"default", "other"}
  DefaultPolicyID = "default"
  PolicyVersions = {1, 2}
  Documents <- MCDocuments
  Callers = {c1}
  Asked <- MCAsked
  MaxCatalogueEdits = 3
  Absent = Absent
  Starters = {n1, n2}
  RowCount = 2
  LatestSchema = 3
  MaxMishaps = 1
  Unlocked = Unlocked
  ListRows <- MCListRows
  Viewer = "acme"
  SystemTenant = "system"
  PageSizes = {2}
  MaxListEdits = 1
  w1 = w1  w2 = w2  w3 = w3  w4 = w4
  WsEntities = {w1, w2, w3, w4}
  WsKind <- MCWsKind
  WsOwner <- MCWsOwner
  WsEdges <- MCWsEdges
  WalkLevels = 2
  OwnedTables = {"DEVICE", "API_USAGE_STATE"}
  WsMessages <- MCWsMessages
  WsEvents <- MCWsEvents
  MaxWsMessages = 3
  MaxTasks = 1
  ShortLived = {w1}
  Unset = Unset
CHECK_DEADLOCK FALSE
INVARIANTS
  AccountsHold GuessesBounded TokensEndWithTheirUse
  AnswersReachCallers DeviceAndStoreAgree UsageIsMeasured KeysHaveOneNumber ServedAsPermitted
  SeedsWhole WalksFindAll SubscriptionsHold
PROPERTIES AuditTrail
