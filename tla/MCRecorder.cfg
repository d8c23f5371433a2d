SPECIFICATION FairSpec
CONSTANTS
  Period = 2
  MaxLen = 11
  StopWait = 2
INVARIANTS
  RecorderInv
  VideoNotAhead
  BurstBounded
  ResultKept
PROPERTY
  RecordingEnds
