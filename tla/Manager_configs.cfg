SPECIFICATION SpecStart
CONSTANTS
  None = None
  a = a b = b c1 = c1 c2 = c2 s1 = s1 s2 = s2 p0 = p0 p1 = p1 h1 = h1 h2 = h2 k1 = k1
  Names = {a, b}
  Configs = {c1, c2}
  Subnets = {s1, s2}
  SubnetsOf <- OneSubnetEach
  Ifaces = {}
  Hooks = {}
  Checks = {}
  Budget <- BudgetConfigs
INVARIANT TypeOK
INVARIANT DialsWhatItWants
PROPERTY SkipIsSound
