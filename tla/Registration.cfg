SPECIFICATION Spec
CONSTANTS
  MaxRetries = 3
  Addrs <- MCAddrs
INVARIANT MessagesAreTheirOwn
PROPERTIES RegistrationSettles EarlyRequestsServed
CHECK_DEADLOCK FALSE
