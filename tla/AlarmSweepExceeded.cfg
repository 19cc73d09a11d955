SPECIFICATION SweepSpec
CONSTANT
  N = 3
INVARIANT
  ThresholdIsExceeded
CHECK_DEADLOCK FALSE
