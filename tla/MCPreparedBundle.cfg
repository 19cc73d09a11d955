\* Two calls that share a root and one of another; everything may go wrong.
CONSTANTS
  c1 = c1
  c2 = c2
  c3 = c3
  r1 = r1
  r2 = r2
  NoOne = NoOne
  Clients = {c1, c2, c3}
  Roots = {r1, r2}
  RootOf <- MCRootOf
  Files = {f1, f2}
  Faults = {"s3", "build", "write", "timeout", "kill"}
SPECIFICATION FairSpec
INVARIANTS
  PublishedIsComplete
  WholeUntilInterrupted
  OneNodeBuilds
  LockWillBeReleased
PROPERTIES
  EveryCallEnds
\* Every call has ended.
CHECK_DEADLOCK FALSE
