----------------------------- MODULE MCPairJobs -----------------------------
(* PairJobs for TLC, where the second pair thrashes its node, and after it *)
(* is over the same pairs once more under the local controller.            *)
EXTENDS PairJobs

MCThrashing == {2}

VARIABLES localMain, localPair, localStatus, localResults

localVars == <<localMain, localPair, localStatus, localResults>>

Local == INSTANCE LocalPairJobs WITH
           main <- localMain, pair <- localPair, status <- localStatus, results <- localResults

RayIsOver ==
  /\ main \in {"returned", "raised"}
  /\ queue = <<>> /\ asked = {}
  /\ \A p \in Pairs : job[p] \in {"unsubmitted", "ended"}

MCInit == Init /\ Local!Init

MCNext ==
  \/ Next /\ UNCHANGED localVars
  \/ RayIsOver /\ Local!Next /\ UNCHANGED vars

MCSpec == MCInit /\ [][MCNext]_<<vars, localVars>> /\ Fairness

\* The local controller keeps the promise of PairCampaign too.
LocalImplementsCampaign == Local!ImplementsCampaign
=============================================================================
