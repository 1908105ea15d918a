SPECIFICATION SpecBooted
CONSTANTS
  None = None
  a = a b = b c1 = c1 c2 = c2 s1 = s1 s2 = s2 p0 = p0 p1 = p1 h1 = h1 h2 = h2 k1 = k1
  Names = {a}
  Configs = {c1}
  Subnets = {s1, s2}
  SubnetsOf <- OneSubnetEach
  Ifaces = {p0, p1}
  Hooks = {h1, h2}
  Checks = {k1}
  Budget <- BudgetSessions
SYMMETRY Symmetry
INVARIANT NoUnmanagedSession
INVARIANT UpIsBacked
INVARIANT NoLeakedRules
PROPERTY ImplementsRedial
