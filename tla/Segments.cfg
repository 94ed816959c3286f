SPECIFICATION FairSpec
CONSTANTS
  SegmentCount = 2
  SegmentSize = 1
  Cursors = {c1}
  MaxDsid = 5
  Builds = {"O0", "O2"}
  FailuresAllowed = TRUE
  FsyncMayFail = FALSE
  StopAllowed = TRUE
INVARIANTS RecycledSegmentIsOnDisk SyncedSegmentIsOnDisk
PROPERTIES PinnedSegmentStays FlusherMovesOn FullSegmentReachesDisk UninitReturns
CHECK_DEADLOCK FALSE
