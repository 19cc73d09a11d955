-------------------------- MODULE MCSeaweedRWLock --------------------------
(* Three workers, one of which gives up waiting, and two maintenances.     *)
EXTENDS SeaweedRWLock

CONSTANTS w1, w2, w3, m1, m2
============================================================================
