SPECIFICATION Spec
CONSTANTS
  ChanCap = 2
  Threshold = 2
  SendBuf = 1
  MaxChunks = 1
PROPERTY SilentBrowserReaped
CHECK_DEADLOCK FALSE
