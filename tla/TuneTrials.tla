----------------------------- MODULE TuneTrials -----------------------------
(***************************************************************************)
(* Ray Tune jobs under the LeaseAwareTrialScheduler, against the allowlist *)
(* actor: the scheduler asks for a lease before a trial is placed, the     *)
(* trial's process activates it and pins itself to the leased GPU, and the *)
(* scheduler gives it back when the trial ends.  Jobs die without a word,  *)
(* the actor crashes and restarts, operators change the allowlist.         *)
(*                                                                         *)
(* The Tune controller around the scheduler is Ray's: what it may do with  *)
(* a trial (place, pause, retry, end) is taken from the callbacks that the *)
(* scheduler implements.                                                   *)
(***************************************************************************)
EXTENDS RuntimeGpuAllowlist

CONSTANTS JobOf,      \* the job each trial belongs to
          FractionOf, \* its GPU request
          NoDevice,   \* no process
          Unpinned    \* a process whose CUDA_VISIBLE_DEVICES was left alone

ASSUME TrialsAssumption ==
  /\ JobOf \in [Trials -> Jobs]
  /\ FractionOf \in [Trials -> Fractions]
  /\ NoDevice # Unpinned
  /\ {NoDevice, Unpinned} \cap (Ips \X Gpus) = {}

VARIABLES live,    \* the jobs that are alive
          ownerOf, \* _owner_job_id of each job's scheduler
          phase,   \* "pending", "placed", "running", "ended"
          device,  \* what the trial's process computes on
          overlooked \* history: the processes whose job, though alive, was
                     \* missing from a listing that pruned by it

trialVars == <<live, ownerOf, phase, device, overlooked>>

actorVars == <<clusterNodes, allowed, leases, revision, checkpoint, actor>>

allVars == <<actorVars, trialVars>>

TrialsTypeOK ==
  /\ TypeOK
  /\ live \in SUBSET Jobs
  /\ ownerOf \in [Jobs -> Jobs \cup {NoJob}]
  /\ phase \in [Trials -> {"pending", "placed", "running", "ended"}]
  /\ device \in [Trials -> (Ips \X Gpus) \cup {NoDevice, Unpinned}]
  /\ overlooked \in SUBSET Trials

\* Resolving the job id may fail, which leaves the job's leases ownerless.
TrialsInit ==
  /\ Init
  /\ live = Jobs
  /\ ownerOf \in {own \in [Jobs -> Jobs \cup {NoJob}] : \A j \in Jobs : own[j] \in {j, NoJob}}
  /\ phase = [t \in Trials |-> "pending"]
  /\ device = [t \in Trials |-> NoDevice]
  /\ overlooked = {}

Pinned == {t \in Trials : device[t] \in Ips \X Gpus}

----------------------------------------------------------------------------
(* choose_trial_to_run asks, and the actor lists the jobs that are alive.  *)
(* The listing may fail (known); one that answers may lack jobs that live, *)
(* since _list_live_job_ids asks for no more than Ray's default number of  *)
(* them and takes a partial output, and may still hold jobs that died.  A  *)
(* reply lost in a crash leaves the trial where it was, and the call is    *)
(* made again.                                                             *)
AskForLease(t, known, listed) ==
  /\ phase[t] = "pending"
  /\ JobOf[t] \in live
  /\ AcquireLease(t, FractionOf[t], ownerOf[JobOf[t]], known, listed)
  /\ overlooked' = overlooked \cup
       {u \in Pinned : known /\ ownerOf[JobOf[u]] \notin listed \cup {NoJob}}

ChooseTrial(t, known, listed) ==
  /\ AskForLease(t, known, listed)
  /\ phase' = IF \E l \in leases' : l.trial = t
              THEN [phase EXCEPT ![t] = "placed"] ELSE phase
  /\ UNCHANGED <<live, ownerOf, device>>

LoseChoice(t, known, listed) ==
  /\ AskForLease(t, known, listed)
  /\ UNCHANGED <<live, ownerOf, phase, device>>

Start(t, dev) ==
  /\ phase' = [phase EXCEPT ![t] = "running"]
  /\ device' = [device EXCEPT ![t] = dev]
  /\ UNCHANGED <<live, ownerOf, overlooked>>

\* run_tune_trainable: activate, and pin only to a lease that came back.
StartTrial(t) ==
  /\ phase[t] = "placed"
  /\ \/ /\ ActivateLease(t)
        /\ \/ \E l \in leases' : l.trial = t /\ Start(t, <<l.ip, l.gpu>>)
           \/ (\A l \in leases' : l.trial # t) /\ Start(t, Unpinned)
     \/ /\ actor = "up"
        /\ \E l \in leases : /\ l.trial = t
                             /\ l.state = "active"
                             /\ IsLeaseAllowed(l, allowed)
                             /\ Start(t, <<l.ip, l.gpu>>)
        /\ UNCHANGED actorVars
     \/ /\ actor = "up"
        /\ \A l \in leases : l.trial # t
        /\ Start(t, Unpinned)
        /\ UNCHANGED actorVars
     \/ /\ actor = "dead"
        /\ Start(t, Unpinned)
        /\ UNCHANGED actorVars

LoseActivation(t) ==
  /\ phase[t] = "placed"
  /\ ActivateLease(t)
  /\ UNCHANGED trialVars

Leave(t, where) ==
  /\ phase' = [phase EXCEPT ![t] = where]
  /\ device' = [device EXCEPT ![t] = NoDevice]
  /\ overlooked' = overlooked \ {t}
  /\ UNCHANGED <<live, ownerOf>>

\* on_trial_complete, on_trial_remove, on_trial_error: the lease goes back,
\* unless the call fails, which is logged and forgotten.
EndTrial(t) ==
  /\ phase[t] \in {"pending", "placed", "running"}
  /\ JobOf[t] \in live
  /\ ReleaseLease(t) \/ UNCHANGED actorVars
  /\ Leave(t, "ended")

RetryTrial(t) ==
  /\ phase[t] = "running"
  /\ ReleaseLease(t) \/ UNCHANGED actorVars
  /\ Leave(t, "pending")

\* A paused trial is pending again, and keeps its lease.
PauseTrial(t) ==
  /\ phase[t] = "running"
  /\ UNCHANGED actorVars
  /\ Leave(t, "pending")

JobDies(j) ==
  /\ j \in live
  /\ live' = live \ {j}
  /\ phase' = [t \in Trials |-> IF JobOf[t] = j THEN "ended" ELSE phase[t]]
  /\ device' = [t \in Trials |-> IF JobOf[t] = j THEN NoDevice ELSE device[t]]
  /\ overlooked' = {t \in overlooked : JobOf[t] # j}
  /\ UNCHANGED <<actorVars, ownerOf>>

Operator ==
  /\ \/ \E view \in Views, req \in Requests :
          Initialize(view, req) \/ InitializeFails(view, req)
     \/ \E req \in Requests, reordered \in BOOLEAN : ApplyAllowlist(req, reordered)
     \/ Crash
     \/ CrashInSave
     \/ Restart
  /\ UNCHANGED trialVars

TrialsNext ==
  \/ \E t \in Trials, known \in BOOLEAN, listed \in SUBSET Jobs :
       ChooseTrial(t, known, listed) \/ LoseChoice(t, known, listed)
  \/ \E t \in Trials : \/ StartTrial(t) \/ LoseActivation(t)
                       \/ EndTrial(t) \/ RetryTrial(t) \/ PauseTrial(t)
  \/ \E j \in Jobs : JobDies(j)
  \/ Operator

\* The controller's event loop keeps asking for a trial to run, the job
\* listing answers again and again without the jobs that died, complete or
\* not, and Ray restarts the actor.
TrialsFairness ==
  /\ \A t \in Trials : SF_allVars(\E listed \in SUBSET live : ChooseTrial(t, TRUE, listed))
  /\ WF_allVars(Restart /\ UNCHANGED trialVars)

TrialsSpec == TrialsInit /\ [][TrialsNext]_allVars

FairTrialsSpec == TrialsSpec /\ TrialsFairness

----------------------------------------------------------------------------
\* A process that pinned itself to a GPU holds the active lease on exactly
\* that GPU for as long as it runs: not a drain, not a restart of the actor,
\* not the pruning of other jobs' leases, not a lost reply takes it away.
\* Only a listing of jobs that answers without its own does, while it runs.
PinnedProcessHoldsLease ==
  actor = "up" =>
    \A t \in Pinned \ overlooked : \E l \in leases : /\ l.trial = t
                                                     /\ l.state = "active"
                                                     /\ <<l.ip, l.gpu>> = device[t]

\* The processes pinned to a GPU never ask for more than the whole of it, but
\* for those that a listing left out: theirs is granted to others.
PinnedLoadWithinCapacity ==
  \A ip \in Ips, gpu \in Gpus :
    Cardinality({p \in (Pinned \ overlooked) \X (1 .. Full) :
                   device[p[1]] = <<ip, gpu>> /\ p[2] <= FractionOf[p[1]]}) <= Full

\* A trial is never started on a GPU that the operator had taken away before
\* it was started: a revoked reservation is not activated, nor is the drained
\* lease of a trial that was paused.
StartsOnlyWhereAllowed ==
  [][\A t \in Trials :
       phase[t] = "placed" /\ device'[t] \in Ips \X Gpus
         => IsAllowed(device'[t][1], device'[t][2], allowed)]_allVars

\* A lease whose job has died does not block the others for ever: while some
\* trial of a live job is waiting for a GPU, it is reclaimed.
DeadLeaseReclaimed ==
  \A j \in Jobs :
    (j \notin live /\ \E l \in leases : l.owner = j)
      ~> \/ \A l \in leases : l.owner # j
         \/ \A t \in Trials : JobOf[t] \in live => phase[t] # "pending"
=============================================================================
