SPECIFICATION FairSpec
CONSTANTS
  Names = {"office"}
  Requests = {"button"}
  FailureLimit = 3
  MaxChanges = 5
INVARIANT TypeOK
INVARIANT TripIsEarned
PROPERTY NoticesDeadTunnel
