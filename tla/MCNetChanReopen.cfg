SPECIFICATION ReopenSpec
CONSTANTS
  MaxSequence <- Sequence
  MaxReliable <- Reliable
  MaxConnects = 1
  TimeoutPackets = 3
INVARIANT ConnectionSurvives
CHECK_DEADLOCK FALSE
