SPECIFICATION FairTrialsSpec
CONSTANTS
  n1 = n1
  g1 = g1
  t1 = t1
  t2 = t2
  t3 = t3
  j1 = j1
  j2 = j2
  Ips = {n1}
  Gpus = {g1}
  Trials = {t1, t2, t3}
  Jobs = {j1, j2}
  NoJob = NoJob
  Full = 2
  Fractions = {1, 2}
  Views <- MCViews
  Requests <- MCRequests
  AllDevices = AllDevices
  NoFile = NoFile
  Torn = Torn
  MaxRevision = 3
  JobOf <- MCJobOf
  FractionOf <- MCFractionOf
  NoDevice = NoDevice
  Unpinned = Unpinned
INVARIANTS
  PinnedProcessHoldsLease
  PinnedLoadWithinCapacity
PROPERTIES
  StartsOnlyWhereAllowed DeadLeaseReclaimed
CHECK_DEADLOCK FALSE
