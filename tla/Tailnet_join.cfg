SPECIFICATION FairSpec
CONSTANTS
  Remotes = {"far"}
  Locals = {"lan"}
  Requests = {"r1"}
  MaxFaults = 1
  MaxChanges = 2
INVARIANTS TypeOK LoginReplaysExitNode
PROPERTY RoutesConverge
