SPECIFICATION FairSpec
CONSTANTS
  Readers = {r1, r2, r3}
  Flushers = {f1}
INVARIANTS PinCountIsExact MutualExclusion
PROPERTY FlusherGetsIn
