SPECIFICATION FairSpec
CONSTANTS
  SegmentCount = 2
  SegmentSize = 2
  ResumingEpochs = {0, 1}
  Hazards = {}
  UInt32Range = 64
  MaxDsid = 4
  MaxEpoch = 3
  MaxLogs = 5
  MaxCrashes = 2
INVARIANTS AnnouncedEpochsSurvive SegmentsCoverTheWindow
PROPERTIES ImplementsDurableLog FullSegmentsReachDisk
CHECK_DEADLOCK FALSE
