SPECIFICATION Spec
CONSTANTS
  WriterCount = 1
  FrameCount = 3
  BufferSize = 3
  SegmentSize = 2
  Callers = {c1}
  Tags = {0, 1, 2}
  MaxAhead = 1
  MaxWrite = 1
  MaxTagged = 2
  MaxEpoch = 4
  MaxBytes = 4
  StopAllowed = TRUE
  FailuresAllowed = FALSE
INVARIANTS TypeOK ReusedFrameIsIrrelevant BufferNeverFull NvLogFollowsWriters EpochRegionsAreExact TagsBecomeDurable
CHECK_DEADLOCK FALSE
