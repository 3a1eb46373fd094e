\* Two deletes of one pair cross, one of either orientation.
CONSTANTS
  a1 = a1  a2 = a2  a3 = a3  b1 = b1  d1 = d1  t1 = t1  t2 = t2
  r1 = r1  s1 = s1  s2 = s2  m1 = m1  m2 = m2
  Devices = {}
  Assets = {a1, a2, a3, b1}
  Tenants = {t1, t2}
  Home <- MCHome
  ModelIds = {m1, m2}
  Versions = {1}
  Policies <- MCPolicies
  Declarations <- MCDeclarations
  Requests = {r1}
  MaxSwept = 1
  MaxStarts = 1
  None = None
  RelTypes = {"Feeds"}
  AllowedFrom <- MCAllowedFrom
  AllowedTo <- MCAllowedFrom
  Pairs <- MCPairs
  Legacy <- MCLegacy
  TypeAtStart <- MCTypeAtStart
  Catalogues <- MCCatalogues
  Depths = {1, 2}
  EnforceMode = "reject"
  Sessions = {s1, s2}
  MaxEdgeStarts = 5
  Parts = {"pair"}
  MaxMixed = 0
SPECIFICATION MCSpec
SYMMETRY Symmetry
CHECK_DEADLOCK FALSE
INVARIANTS MirrorsAreRemoved
