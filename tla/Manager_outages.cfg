SPECIFICATION FairBooted
CONSTANTS
  None = None
  a = a b = b c1 = c1 c2 = c2 s1 = s1 s2 = s2 p0 = p0 p1 = p1 h1 = h1 h2 = h2 k1 = k1
  Names = {a}
  Configs = {c1}
  Subnets = {s1, s2}
  SubnetsOf <- OneSubnetEach
  Ifaces = {p0}
  Hooks = {h1}
  Checks = {}
  Budget <- BudgetOutages
PROPERTY Recovers
PROPERTY DisabledEnds
