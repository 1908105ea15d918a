SPECIFICATION FairSpec
CONSTANTS
  Daemons = {charon}
  MinBackoff = 1
  MaxBackoff = 30
  PipeSize = 1
  MaxVersion = 2
  Retention = 1
  None = None
INVARIANT TypeOK
INVARIANT SchemaIsWhole
INVARIANT DaemonsAreServed
INVARIANT OneInstance
INVARIANT WaitFollowsStreak
INVARIANT LogIsKept
PROPERTY KeepsServing
PROPERTY SignalEnds
