SPECIFICATION Spec
CONSTANT Hops = 2
PROPERTY DialTimesOut
CHECK_DEADLOCK FALSE
