--------------------------- MODULE ClusterBringUp ---------------------------
(***************************************************************************)
(* One call of run_cluster_job (noboom_cli_lib/ray_lifecycle.py): it finds *)
(* a Ray cluster or starts one (start_script of job_lifecycle.py), waits   *)
(* until cluster_validation.py finds every node of the inventory in it,    *)
(* and submits the campaign.  If anything raises on the way it tries once  *)
(* more with the private addresses of the nodes.                           *)
(*                                                                         *)
(* Nodes join and leave the cluster as the network allows; Ray's node      *)
(* table keeps the rows of those that left.                                *)
(***************************************************************************)
EXTENDS Integers, FiniteSets

CONSTANTS Workers, \* the nodes of the inventory besides the head
          HeadNode     \* the first one

ASSUME InventoryAssumption == HeadNode \notin Workers /\ IsFiniteSet(Workers)

VARIABLES bringUp,   \* where the call is
          force,     \* --force-restart
          exclusive, \* --exclusive
          answered,  \* the job server answered the last probe
          plan,      \* the addresses Ray is to use: "configured", "private"
          routes,    \* the workers that can join under each plan
          placeable, \* whether the nodes can hold the pairs of this campaign
          cluster,   \* the plan the cluster was started or updated with, or "down"
          members,   \* the nodes in it
          short,     \* those without all of their GPUs
          table,     \* the nodes Ray's node table has a row of
          campaign   \* the campaigns submitted to the head

callVars == <<bringUp, force, exclusive, answered, plan>>
nodeVars == <<cluster, members, short, table>>
clusterVars == <<callVars, routes, placeable, nodeVars, campaign>>

Nodes == Workers \cup {HeadNode}
Plans == {"configured", "private"}
Campaigns == {"earlier", "first", "second"}
Down == cluster = "down"

\* Before the call there is no cluster, or one with a campaign on it or not.
ClusterInit ==
  /\ bringUp = "probing"
  /\ force \in BOOLEAN /\ exclusive \in BOOLEAN
  /\ answered = FALSE
  /\ plan = "configured"
  /\ routes \in [Plans -> SUBSET Workers]
  /\ placeable \in BOOLEAN
  /\ cluster \in Plans \cup {"down"}
  /\ members \in IF Down THEN {{}} ELSE {{HeadNode} \cup W : W \in SUBSET routes[cluster]}
  /\ short = {}
  /\ table = members
  /\ \E old \in IF Down THEN {"none"} ELSE {"none", "active"} :
       campaign = [c \in Campaigns |-> IF c = "earlier" THEN old ELSE "none"]

----------------------------------------------------------------------------
(* The call.  Before start_script a failure ends it; inside of it          *)
(* (starting, up, validating, stopping, submitting) it leads to the        *)
(* fallback.                                                               *)

\* is_job_server_running: the request has five seconds.
Answers == IF Down THEN {FALSE} ELSE BOOLEAN

\* bootstrap up to the rendering of the cluster configuration
Probe ==
  /\ bringUp = "probing"
  /\ \/ /\ answered' \in IF force THEN {FALSE} ELSE Answers
        /\ bringUp' = "preparing"
     \/ /\ bringUp' = "failed"
        /\ UNCHANGED answered
  /\ UNCHANGED <<force, exclusive, plan, routes, placeable, nodeVars, campaign>>

\* A live cluster is given the new configuration (ray up --no-restart).
Prepare ==
  /\ bringUp = "preparing"
  /\ \/ /\ cluster' = IF answered THEN plan ELSE cluster
        /\ bringUp' = "starting"
     \/ /\ cluster' \in IF answered THEN {cluster, plan} ELSE {cluster}
        /\ bringUp' = "failed"
  /\ UNCHANGED <<force, exclusive, answered, plan, routes, placeable, members, short, table, campaign>>

\* ray down: the head forgets its nodes, and its jobs are gone.
TearDown ==
  /\ cluster' = "down"
  /\ members' = {} /\ short' = {} /\ table' = {}
  /\ campaign' = [c \in Campaigns |-> IF campaign[c] \in {"active", "stopping"} THEN "lost" ELSE campaign[c]]

\* Mutant: a cluster that answers is trusted, and not validated again.
StartTrusting ==
  /\ bringUp = "starting"
  /\ answered' \in IF force THEN {FALSE} ELSE Answers
  /\ \/ answered' /\ bringUp' = "stopping" /\ UNCHANGED <<nodeVars, campaign>>
     \/ ~ answered' /\ bringUp' = "up" /\ TearDown
     \/ ~ answered' /\ bringUp' = "raised" /\ UNCHANGED <<nodeVars, campaign>>
  /\ UNCHANGED <<force, exclusive, plan, routes, placeable>>

\* Mutant: --force-restart is heeded the first time only.
StartForcedOnce ==
  /\ bringUp = "starting"
  /\ answered' \in IF force /\ plan = "configured" THEN {FALSE} ELSE Answers
  /\ \/ answered' /\ bringUp' = "validating" /\ UNCHANGED <<nodeVars, campaign>>
     \/ ~ answered' /\ bringUp' = "up" /\ TearDown
  /\ UNCHANGED <<force, exclusive, plan, routes, placeable>>

\* start_script, up to ray down: a running cluster is left as it is.
Start ==
  /\ bringUp = "starting"
  /\ answered' \in IF force THEN {FALSE} ELSE Answers
  /\ \/ answered' /\ bringUp' = "validating" /\ UNCHANGED <<nodeVars, campaign>>
     \/ ~ answered' /\ bringUp' \in {"up", "raised"} /\ TearDown
     \/ ~ answered' /\ bringUp' = "raised" /\ UNCHANGED <<nodeVars, campaign>>
  /\ UNCHANGED <<force, exclusive, plan, routes, placeable>>

\* ray up, tried twice, then the head's services: the head is up if one of
\* those fails.
Up ==
  /\ bringUp = "up"
  /\ \/ /\ cluster' = plan
        /\ members' = {HeadNode} /\ table' = {HeadNode}
        /\ bringUp' \in {"validating", "raised"}
     \/ /\ bringUp' = "raised"
        /\ UNCHANGED <<cluster, members, table>>
  /\ UNCHANGED <<force, exclusive, answered, plan, routes, placeable, short, campaign>>

\* validate_cluster_snapshot: every node of the inventory is found among the
\* live ones, with its GPUs, and the nodes can hold the pairs.  Counting the
\* live nodes and summing their resources adds nothing to that.
Passes == Nodes \subseteq members /\ short = {} /\ placeable

\* validate_cluster_before_submission: it returns on the first snapshot that
\* passes, and raises if the last one before the deadline does not, or could
\* not be queried.
Validate ==
  /\ bringUp = "validating"
  /\ \/ Passes /\ bringUp' = "stopping"
     \/ bringUp' = "raised"
  /\ UNCHANGED <<force, exclusive, answered, plan, routes, placeable, nodeVars, campaign>>

\* With --exclusive the jobs that run are asked to stop, one after the other.
StopOthers ==
  /\ bringUp = "stopping"
  /\ \E asked \in SUBSET Campaigns :
       /\ campaign' = [c \in Campaigns |->
                         IF c \in asked /\ campaign[c] = "active" THEN "stopping" ELSE campaign[c]]
       /\ \/ bringUp' = "submitting" /\ asked = IF exclusive THEN Campaigns ELSE {}
          \/ bringUp' = "raised" /\ exclusive
  /\ UNCHANGED <<force, exclusive, answered, plan, routes, placeable, nodeVars>>

\* submit_job: its answer may be lost.  The two attempts have names of
\* their own, made from the time.
Submit ==
  /\ bringUp = "submitting"
  /\ LET mine == IF plan = "configured" THEN "first" ELSE "second"
     IN  \/ /\ campaign' = [campaign EXCEPT ![mine] = "active"]
            /\ bringUp' \in {"submitted", "raised"}
         \/ /\ bringUp' = "raised"
            /\ UNCHANGED campaign
  /\ UNCHANGED <<force, exclusive, answered, plan, routes, placeable, nodeVars>>

\* _validate_private_ray_provider_fallback: the head must reach the workers,
\* and they the head's GCS, which somebody has to have started.
PrivateReachable == ~ Down /\ routes["private"] = Workers

FallBack ==
  /\ bringUp = "raised"
  /\ \/ /\ Workers # {} /\ plan = "configured" /\ PrivateReachable
        /\ plan' = "private"
        /\ bringUp' = "starting"
     \/ /\ bringUp' = "failed"
        /\ UNCHANGED plan
  /\ UNCHANGED <<force, exclusive, answered, routes, placeable, nodeVars, campaign>>

----------------------------------------------------------------------------
(* The cluster meanwhile                                                   *)

Join(w) ==
  /\ ~ Down
  /\ w \in routes[cluster] \ members
  /\ members' = members \cup {w}
  /\ short' \in {short \ {w}, short \cup {w}}
  /\ table' = table \cup {w}
  /\ UNCHANGED <<callVars, routes, placeable, cluster, campaign>>

Leave(w) ==
  /\ w \in members
  /\ members' = members \ {w}
  /\ UNCHANGED <<callVars, routes, placeable, cluster, short, table, campaign>>

CampaignEnd(c) ==
  /\ campaign[c] \in {"active", "stopping"}
  /\ campaign' = [campaign EXCEPT ![c] = "ended"]
  /\ UNCHANGED <<callVars, routes, placeable, nodeVars>>

ClusterNext ==
  \/ Probe \/ Prepare \/ Start \/ Up \/ Validate \/ StopOthers \/ Submit \/ FallBack
  \/ \E w \in Workers : Join(w) \/ Leave(w)
  \/ \E c \in Campaigns : CampaignEnd(c)

ClusterSpec == ClusterInit /\ [][ClusterNext]_clusterVars

----------------------------------------------------------------------------
Submitted(c) == campaign[c] = "none" /\ campaign'[c] = "active"

\* No campaign starts on an incomplete cluster: every node of the inventory
\* has been in it since it was last started, and the pairs fit on them,
\* whichever way the call got there.
SubmitsToWholeCluster ==
  [][(\E c \in Campaigns : Submitted(c)) => table = Nodes /\ placeable]_clusterVars

\* A forced call leaves one campaign on the cluster, its own, and an
\* exclusive one leaves no other that was not asked to stop, even if the
\* answer to its first submission was lost.
RunsAloneIfAsked ==
  bringUp = "submitted" /\ (force \/ exclusive)
    => \A c \in Campaigns : campaign[c] = "active" => c = IF plan = "private" THEN "second" ELSE "first"

\* As the log has it, the call falls back to the private addresses: what is
\* validated then is a cluster that uses them.
FallbackTakesEffect == bringUp = "validating" /\ plan = "private" => cluster = "private"
=============================================================================
