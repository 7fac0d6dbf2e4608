SPECIFICATION ConnectSpec
CONSTANTS
  Hops = 4
  Targets <- MCTargets
  Half = 4
INVARIANTS ChainUnbroken OnlyEarlierHopsRemain EveryGatewayOnce ChainInOrder EndsAtHost
PROPERTIES FirstHopTimesOut LateHandshakeReclaimed DefaultNeverRefused
CHECK_DEADLOCK FALSE
