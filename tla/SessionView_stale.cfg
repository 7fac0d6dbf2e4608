SPECIFICATION SafeSpec
CONSTANTS
  Resources = {r1, r2}
  Sessions = {s1}
  None = None
INVARIANT ShownIsOfResource
CHECK_DEADLOCK FALSE
