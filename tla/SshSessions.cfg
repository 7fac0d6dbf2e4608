SPECIFICATION Spec
CONSTANTS
  Requests = {c1, c2}
  Tunnels = {t1, t2}
  FileRequests = {f1, f2}
  Tokens = {k1, k2}
  MaxTries = 2
  None = None
INVARIANTS CloseOnce StoredIsOpen OpenIsAccounted FinderIsolation ServedFromOwnSession
PROPERTIES ImplementsLifecycle LeaverCloses
CHECK_DEADLOCK FALSE
