SPECIFICATION StartupFairSpec
CONSTANTS
  Workers = {t1, t2}
  Configs <- MCConfigs
  MaxSegments = 2
  RepeatsTruncate = TRUE
  MaxInits = 3
  MaxFailures = 1
  MaxCrashes = 2
INVARIANTS OnlyOneWorks WorkersHaveTheirMemory NothingStaysOpen CompleteInstanceStarts OwnData
PROPERTIES StateFollowsDoc StopReturns InstanceIsKept
CHECK_DEADLOCK FALSE
