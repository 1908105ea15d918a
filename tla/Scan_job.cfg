SPECIFICATION FairSpec
CONSTANTS
  Width = 4
  MaxSweepBits = 1
  Workers = 2
  None = None
INVARIANT TypeOK
INVARIANT FinishedScanIsWhole
PROPERTY Finishes
CHECK_DEADLOCK FALSE
