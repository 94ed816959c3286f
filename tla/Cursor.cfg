SPECIFICATION FairSpec
CONSTANTS
  SegmentSize = 3
  kNvwalCursorEpochPrefetches = 2
  MaxEpoch = 4
  MaxEpochBytes = 3
  Builds = {"O0", "O2"}
  OpenMayFail = TRUE
INVARIANTS ReadsEveryByteOnce ShowsOnlyWhatWasAsked
PROPERTIES EndsWhenAllIsRead CursorEnds
