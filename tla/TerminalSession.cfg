SPECIFICATION Spec
CONSTANTS
  ChanCap = 1
  Threshold = 2
  SendBuf = 1
  MaxChunks = 3
INVARIANTS TypeOK OneWriter NothingLost
PROPERTIES ImplementsStream OutputArrives StopEndsAll LostEndReaped
CHECK_DEADLOCK FALSE
