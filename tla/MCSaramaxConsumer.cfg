SPECIFICATION FairSpec
CONSTANTS
  Procs = {p1, p2}
  ConsumeNum = 2
  RetryAttempts = 2
  SkipAttempts = 2
  MaxSkipEntries = 1
  MaxOffset = 2
  MaxFaults = 2
INVARIANT NoMessagePassedOver
INVARIANT DropsAreEarned
PROPERTY PartitionDrains
CHECK_DEADLOCK FALSE
