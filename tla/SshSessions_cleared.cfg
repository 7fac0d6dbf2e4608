SPECIFICATION SafeSpec
CONSTANTS
  Requests = {c1}
  Tunnels = {t1}
  FileRequests = {f1}
  Tokens = {k1}
  MaxTries = 3
  None = None
INVARIANT FinderStateCleared
CHECK_DEADLOCK FALSE
