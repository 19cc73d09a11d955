------------------------------ MODULE MCActors ------------------------------
(* The two named actors of a cluster, the GPU allowlist and the lock of    *)
(* the SeaweedFS maintenance.  One of them is called in each behaviour     *)
(* while the other rests; the fairness is the lock's, of which nothing is  *)
(* enabled while it rests.                                                 *)
EXTENDS MCRuntimeGpuAllowlist, MCSeaweedRWLock

VARIABLE called   \* the actor that is called

MCInit == called \in {"allowlist", "lock"} /\ Init /\ LockInit

MCNext ==
  \/ called = "allowlist" /\ Next /\ UNCHANGED <<called, lockVars>>
  \/ called = "lock" /\ LockNext /\ UNCHANGED <<called, vars>>

MCSpec == MCInit /\ [][MCNext]_<<called, vars, lockVars>> /\ Fairness
=============================================================================
