SPECIFICATION ClusterSpec
CONSTANTS
  Workers = {w1, w2}
  HeadNode = head
INVARIANT
  FallbackTakesEffect
CHECK_DEADLOCK FALSE
