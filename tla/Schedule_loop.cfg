SPECIFICATION FairSpec
CONSTANTS
  Names = {a, b}
  Tick = 3
  RetryTick = 2
  DialTimeout = 4
  MinRedialDelay = 2
  MaxRedialDelay = 4
  MaxShift = 1
  Second = 2
  PassTime = 1
  MaxMissed = 1
  Followed = a
INVARIANT TypeOK
INVARIANT EditIsNotSleptOver
INVARIANT BackoffWakes
INVARIANT NothingLingers
PROPERTY ImplementsRedial
