SPECIFICATION Spec
CONSTANTS
  SegmentCount = 2
  SegmentSize = 1
  Cursors = {c1}
  MaxDsid = 4
  Builds = {"O2"}
  FailuresAllowed = FALSE
  FsyncMayFail = FALSE
  StopAllowed = FALSE
INVARIANT CursorOpensItsSegment
