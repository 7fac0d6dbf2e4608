SPECIFICATION Spec
CONSTANTS
  Resources = {r1, r2}
  Sessions = {s1, s2}
  None = None
INVARIANTS OneConnectAtATime TerminalIsShown
PROPERTY TerminalEnds
CHECK_DEADLOCK FALSE
