SPECIFICATION Spec
CONSTANTS
  Streams <- MCStreams
  Asked <- MCAsked
  Parameters <- MCParameters
INVARIANTS HandshakeOutcome  OneMessageAfterStop
PROPERTY StopEndsForwarding
CHECK_DEADLOCK FALSE
