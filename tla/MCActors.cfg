SPECIFICATION MCSpec
CONSTANTS
  n1 = n1
  n2 = n2
  g1 = g1
  g2 = g2
  t1 = t1
  t2 = t2
  j1 = j1
  Ips = {n1, n2}
  Gpus = {g1, g2}
  Trials = {t1, t2}
  Jobs = {j1}
  NoJob = NoJob
  Full = 2
  Fractions = {1, 2}
  Views <- MCViews
  Requests <- MCRequests
  AllDevices = AllDevices
  NoFile = NoFile
  Torn = Torn
  MaxRevision = 3
  w1 = w1
  w2 = w2
  w3 = w3
  m1 = m1
  m2 = m2
  Workers = {w1, w2, w3}
  Maintainers = {m1, m2}
  Timed = {w1, m1}
  Mortal = {w2}
  MaxCrashes = 1
INVARIANTS
  NoOversubscription
  ReservationsAllowed
  CheckpointCurrent
PROPERTIES
  RemovedGpusOnlyDrain
  ImplementsLock
  EverybodyGetsThrough
CHECK_DEADLOCK FALSE
