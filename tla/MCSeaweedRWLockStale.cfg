SPECIFICATION FairSpec
CONSTANTS
  w1 = w1
  w2 = w2
  w3 = w3
  m1 = m1
  m2 = m2
  Workers = {w1, w2, w3}
  Maintainers = {m1, m2}
  Timed = {w1, m1, m2}
  Mortal = {w2}
  MaxCrashes = 1
INVARIANTS
  MaintenanceExclusive
CHECK_DEADLOCK FALSE
