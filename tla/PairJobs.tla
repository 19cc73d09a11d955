------------------------------ MODULE PairJobs ------------------------------
(***************************************************************************)
(* PairJobController.submit_jobs of core/tune/job_submission.py: the loop  *)
(* that keeps a bounded number of pair jobs in flight on a Ray cluster,    *)
(* the single worker thread that runs the output callbacks behind it, and  *)
(* the RAM guard of core/tune/node_ram_guard.py that it calls while        *)
(* nothing has finished.                                                   *)
(*                                                                         *)
(* Pairs are numbered in the order in which they were given.  Of a job     *)
(* only whether it has ended matters to the controller; which terminal     *)
(* status it has goes to the callback unseen.  Calls on the job client may *)
(* raise.  A submission that raises may have reached the cluster.          *)
(***************************************************************************)
EXTENDS Integers, FiniteSets, Sequences

CONSTANTS N,           \* how many pairs
          MaxInFlight, \* max_in_flight
          Thrashing,   \* jobs that do not end unless they are stopped
          ClientFails  \* whether calls on the job client may raise

ASSUME CampaignAssumption ==
  /\ N \in Nat
  /\ MaxInFlight \in Nat \ {0}
  /\ Thrashing \subseteq 1 .. N
  /\ ClientFails \in BOOLEAN

Pairs == 1 .. N

VARIABLES main,     \* where submit_jobs is
          next,     \* the pair that pair_iter yields next
          pending,  \* the pairs waited for
          finished, \* finished_jobs of this poll that are still to be handled
          queue,    \* callbacks handed to the executor, the first one running
          outcome,  \* what became of a pair's callback
          job,      \* the job on the cluster
          targets,  \* jobs the guard is about to stop
          asked     \* jobs asked to stop less than cooldown_s ago

loop == <<main, next, pending, finished>>
guard == <<targets, asked>>
vars == <<loop, queue, outcome, job, guard>>

TypeOK ==
  /\ main \in {"filling", "polling", "reaping", "guarding", "stopping", "draining",
               "raising", "returned", "raised"}
  /\ next \in 1 .. N + 1
  /\ pending \in SUBSET Pairs
  /\ finished \in SUBSET pending
  /\ queue \in Seq(Pairs)
  /\ outcome \in [Pairs -> {"none", "ok", "error"}]
  /\ job \in [Pairs -> {"unsubmitted", "active", "stopping", "ended"}]
  /\ targets \in SUBSET pending
  /\ asked \in SUBSET Pairs

Init ==
  /\ main = "filling"
  /\ next = 1
  /\ pending = {}
  /\ finished = {}
  /\ queue = <<>>
  /\ outcome = [p \in Pairs |-> "none"]
  /\ job = [p \in Pairs |-> "unsubmitted"]
  /\ targets = {}
  /\ asked = {}

----------------------------------------------------------------------------
\* submit_one, with the pairs that stay pending: the next pair is submitted
\* and waited for, if there is one.
SubmitOne(others) ==
  IF next <= N
  THEN /\ job' = [job EXCEPT ![next] = "active"]
       /\ pending' = others \cup {next}
       /\ next' = next + 1
  ELSE /\ pending' = others
       /\ UNCHANGED <<job, next>>

\* submit_job raises: the pair is drawn, and its job may exist.
SubmitRaises ==
  /\ ClientFails
  /\ next <= N
  /\ job' = job \/ job' = [job EXCEPT ![next] = "active"]
  /\ next' = next + 1
  /\ main' = "raising"

\* The first max_in_flight submissions
Fill ==
  /\ main = "filling"
  /\ \/ /\ next <= N /\ next <= MaxInFlight
        /\ SubmitOne(pending)
        /\ UNCHANGED main
     \/ /\ next > N \/ next > MaxInFlight
        /\ main' = "polling"
        /\ UNCHANGED <<next, pending, job>>
     \/ /\ next <= MaxInFlight
        /\ SubmitRaises
        /\ UNCHANGED pending
  /\ UNCHANGED <<finished, queue, outcome, guard>>

Ended == {p \in pending : job[p] = "ended"}

\* Mutant: the guard is not called.
PollUnguarded ==
  /\ main = "polling"
  /\ finished' = Ended
  /\ main' = IF pending = {} THEN "draining" ELSE IF Ended = {} THEN "polling" ELSE "reaping"
  /\ UNCHANGED <<next, pending, queue, outcome, job, guard>>

\* while pending: _batch_jobs lists the jobs
Poll ==
  /\ main = "polling"
  /\ \/ /\ pending = {}
        /\ main' = "draining"
        /\ UNCHANGED finished
     \/ /\ pending # {}
        /\ finished' = Ended
        /\ main' = IF Ended = {} THEN "guarding" ELSE "reaping"
     \/ /\ pending # {}
        /\ ClientFails
        /\ main' = "raising"
        /\ UNCHANGED finished
  /\ UNCHANGED <<next, pending, queue, outcome, job, guard>>

\* Mutant: a slot is not refilled.
ReapOnly ==
  /\ main = "reaping"
  /\ \E p \in finished :
       /\ \A q \in finished : p <= q
       /\ finished' = finished \ {p}
       /\ queue' = Append(queue, p)
       /\ pending' = pending \ {p}
  /\ main' = IF finished' = {} THEN "polling" ELSE "reaping"
  /\ UNCHANGED <<next, job, outcome, guard>>

\* The next finished pair: its callback goes to the executor, and the next pair is
\* submitted in its place.
Reap ==
  /\ main = "reaping"
  /\ \E p \in finished :
       /\ \A q \in finished : p <= q
       /\ finished' = finished \ {p}
       /\ queue' = Append(queue, p)
       /\ \/ /\ SubmitOne(pending \ {p})
             /\ main' = IF finished' = {} THEN "polling" ELSE "reaping"
          \/ /\ SubmitRaises
             /\ pending' = pending \ {p}
  /\ UNCHANGED <<outcome, guard>>

\* The executor's thread finishes on_job_terminal of the oldest pair.
CallbackEnds ==
  /\ queue # <<>>
  /\ outcome' \in {[outcome EXCEPT ![Head(queue)] = o] : o \in {"ok", "error"}}
  /\ queue' = Tail(queue)
  /\ UNCHANGED <<loop, job, guard>>

Failures == {p \in Pairs : outcome[p] = "error"}

\* Mutant: the executor is not waited for.
DrainAtOnce ==
  /\ main \in {"draining", "raising"}
  /\ main' = IF main = "draining" /\ Failures = {} THEN "returned" ELSE "raised"
  /\ UNCHANGED <<next, pending, finished, queue, outcome, job, guard>>

\* The executor is shut down and waited for on the way out, with or without
\* an exception in flight; then callback errors are raised.
Drain ==
  /\ main \in {"draining", "raising"}
  /\ queue = <<>>
  /\ main' = IF main = "draining" /\ Failures = {} THEN "returned" ELSE "raised"
  /\ UNCHANGED <<next, pending, finished, queue, outcome, job, guard>>

----------------------------------------------------------------------------
\* stop_hot_pending_jobs: it is disabled, throttled or finds no hot node, or
\* the listed jobs whose driver is on a hot node are to be stopped.
Probe ==
  /\ main = "guarding"
  /\ targets' \in SUBSET {p \in pending \ asked : job[p] # "ended"}
  /\ main' = IF targets' = {} THEN "polling" ELSE "stopping"
  /\ UNCHANGED <<next, pending, finished, queue, outcome, job, asked>>

Stopped(p) == [job EXCEPT ![p] = IF @ = "ended" THEN "ended" ELSE "stopping"]

\* stop_job: a failure is logged, and the job may be tried again at once.
Stop(p) ==
  /\ main = "stopping"
  /\ p \in targets
  /\ \/ /\ job' = Stopped(p)
        /\ asked' = asked \cup {p}
     \/ /\ ClientFails
        /\ UNCHANGED <<job, asked>>
  /\ targets' = targets \ {p}
  /\ main' = IF targets' = {} THEN "polling" ELSE "stopping"
  /\ UNCHANGED <<next, pending, finished, queue, outcome>>

CooldownEnds(p) ==
  /\ p \in asked
  /\ asked' = asked \ {p}
  /\ UNCHANGED <<loop, queue, outcome, job, targets>>

JobEnds(p) ==
  /\ \/ job[p] = "stopping"
     \/ job[p] = "active" /\ p \notin Thrashing
  /\ job' = [job EXCEPT ![p] = "ended"]
  /\ UNCHANGED <<loop, queue, outcome, guard>>

Next ==
  \/ Fill \/ Poll \/ Reap \/ Drain \/ Probe \/ CallbackEnds
  \/ \E p \in Pairs : Stop(p) \/ CooldownEnds(p) \/ JobEnds(p)

Spec == Init /\ [][Next]_vars

\* The loop and the callback thread keep going, jobs end, and a job that
\* thrashes its node is found there and stopped sooner or later.
Fairness ==
  /\ WF_vars(Fill \/ Poll \/ Reap \/ Drain \/ Probe \/ \E p \in Pairs : Stop(p))
  /\ WF_vars(CallbackEnds)
  /\ \A p \in Pairs : WF_vars(JobEnds(p)) /\ WF_vars(CooldownEnds(p))
  /\ \A p \in Thrashing : /\ SF_vars(Probe /\ p \in targets')
                          /\ SF_vars(Stop(p) /\ job'[p] # "active")

FairSpec == Spec /\ Fairness

----------------------------------------------------------------------------
\* A slot that a finished pair left is refilled at once: whenever the jobs
\* are listed, as many are waited for as the limit and the remaining pairs
\* allow.
SlotsKeptFull ==
  main \in {"polling", "guarding", "stopping"} /\ next <= N
    => Cardinality(pending) = MaxInFlight

Stage(p) == CASE outcome[p] = "ok"       -> "reported"
              [] outcome[p] = "error"    -> "botched"
              [] job[p] = "unsubmitted"  -> "waiting"
              [] job[p] = "ended" /\ outcome[p] = "none" -> "ended"
              [] OTHER                   -> "running"

Campaign == INSTANCE PairCampaign WITH
              Width <- MaxInFlight,
              stage <- [p \in Pairs |-> Stage(p)],
              verdict <- CASE main = "returned" -> "success"
                           [] main = "raised"   -> "failure"
                           [] OTHER             -> "open"

\* submit_jobs keeps the promise of PairCampaign: the limit holds on the
\* cluster, nothing is reported twice or before its end, success means that
\* every callback succeeded, and neither a slow callback nor one that failed
\* is overtaken by the return.
ImplementsCampaign == Campaign!Spec

\* submit_jobs comes to an end, even when some jobs thrash their nodes and
\* have to be stopped for it.
CampaignEnds == <>(main \in {"returned", "raised"})
=============================================================================
