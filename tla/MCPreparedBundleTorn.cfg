\* The writing of a manifest raises, or its process is killed.
CONSTANTS
  c1 = c1
  c2 = c2
  c3 = c3
  r1 = r1
  r2 = r2
  NoOne = NoOne
  Clients = {c1, c2, c3}
  Roots = {r1, r2}
  RootOf <- MCRootOf
  Files = {f1, f2}
  Faults = {"write", "kill"}
SPECIFICATION Spec
INVARIANTS
  ReturnedIsWhole
\* Every call has ended.
CHECK_DEADLOCK FALSE
