SPECIFICATION Spec
CONSTANTS
  WriterCount = 2
  FrameCount = 2
  BufferSize = 3
  SegmentSize = 4
  Callers = {c1}
  Tags = {}
  MaxAhead = 1
  MaxWrite = 1
  MaxTagged = 0
  MaxEpoch = 1
  MaxBytes = 1
  StopAllowed = TRUE
  FailuresAllowed = FALSE
INVARIANT DurableLogsAreInNv
CHECK_DEADLOCK FALSE
