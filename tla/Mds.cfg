SPECIFICATION Spec
CONSTANTS
  EpochsPerPage = 2
  kNvwalMdsReadPrefetch = 2
  Iterators = {i1}
  MaxEpoch = 7
  MaxRange = 3
  MaxCrashes = 2
  TornCopies = "first"
  FsyncMayFail = FALSE
  RollbackAllowed = TRUE
  CrashWhilePaging = FALSE
INVARIANTS EveryDurableEpochIsReadable PagedIsOnDisk IteratorGetsItsEpoch NobodyReadsPastTheEnd
CHECK_DEADLOCK FALSE
