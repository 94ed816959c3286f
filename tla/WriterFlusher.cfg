SPECIFICATION FairSpec
CONSTANTS
  WriterCount = 2
  FrameCount = 3
  BufferSize = 3
  SegmentSize = 2
  Callers = {c1, c2}
  Tags = {}
  MaxAhead = 1
  MaxWrite = 1
  MaxTagged = 0
  MaxEpoch = 2
  MaxBytes = 2
  StopAllowed = FALSE
  FailuresAllowed = TRUE
INVARIANTS DurableLogsAreInNv
PROPERTIES AdvanceTakesEffect StableBecomesDurable SubmittedLogsReachNv
CHECK_DEADLOCK FALSE
