--------------------------- MODULE SeaweedRWLock ---------------------------
(***************************************************************************)
(* The async Ray actor of core/tune/maintenance_actor.py: a lock that any  *)
(* number of workers share and that a maintenance run of the SeaweedFS     *)
(* volumes takes alone, with priority.                                     *)
(*                                                                         *)
(* Calls are coroutines on one event loop: what a coroutine does between   *)
(* two awaits is one step.  The condition variable's lock is never held    *)
(* across an await other than wait(), so entering `async with self._cv` is *)
(* no step of its own.  notify_all makes every waiting coroutine ready; it *)
(* looks at its predicate when the loop resumes it, and others may run     *)
(* before that.                                                            *)
(***************************************************************************)
EXTENDS Integers, FiniteSets

CONSTANTS Workers,      \* clients of worker_lock
          Maintainers,  \* run_maintenance calls
          Timed,        \* the calls made with a timeout_s
          Mortal,       \* the workers that may die inside
          MaxCrashes    \* bound on losses of the actor

ASSUME ClientsAssumption ==
  /\ Workers \cap Maintainers = {}
  /\ IsFiniteSet(Workers) /\ IsFiniteSet(Maintainers)
  /\ Timed \subseteq Workers \cup Maintainers
  /\ Mortal \subseteq Workers
  /\ MaxCrashes \in Nat

VARIABLES worker,    \* "idle", "waiting", "ready", "inside", "stale", "gone", "forgotten"
          upkeep,    \* "idle", "waiting", "ready", "running", "done"
          holders,   \* _worker_holders
          active,    \* _maintenance_active
          pending,   \* _maintenance_pending
          crashes    \* how often the actor was lost

lockVars == <<worker, upkeep, holders, active, pending, crashes>>

\* A "stale" worker is inside by a lock that a lost actor granted.  A worker
\* that is "gone" died inside and will never release, and is "forgotten" by
\* the successor of the actor that let it in.
LockTypes ==
  /\ worker \in [Workers -> {"idle", "waiting", "ready", "inside", "stale", "gone", "forgotten"}]
  /\ upkeep \in [Maintainers -> {"idle", "waiting", "ready", "running", "done"}]
  /\ holders \in Nat
  /\ active \in BOOLEAN
  /\ pending \in Nat
  /\ crashes \in 0 .. MaxCrashes

LockInit ==
  /\ worker = [w \in Workers |-> "idle"]
  /\ upkeep = [m \in Maintainers |-> "idle"]
  /\ holders = 0
  /\ active = FALSE
  /\ pending = 0
  /\ crashes = 0

----------------------------------------------------------------------------
\* notify_all, on the clients of one kind
Notified(pc) == [c \in DOMAIN pc |-> IF pc[c] = "waiting" THEN "ready" ELSE pc[c]]

\* Mutant: maintenance has no priority.
NoPriority == ~active

WorkerMayEnter == ~active /\ pending = 0

\* Mutant: the workers are not waited for.
WorkersIgnored == ~active

MaintenanceMayRun == ~active /\ holders = 0

\* acquire_worker, called or resumed by the loop in its wait
AcquireWorker(w) ==
  /\ worker[w] \in {"idle", "ready"}
  /\ \/ /\ WorkerMayEnter
        /\ holders' = holders + 1
        /\ worker' = [worker EXCEPT ![w] = "inside"]
     \/ /\ ~WorkerMayEnter
        /\ worker' = [worker EXCEPT ![w] = "waiting"]
        /\ UNCHANGED holders
  /\ UNCHANGED <<upkeep, active, pending, crashes>>

\* wait_for gives up without looking at the predicate again
AcquireTimesOut(w) ==
  /\ w \in Timed
  /\ worker[w] \in {"waiting", "ready"}
  /\ worker' = [worker EXCEPT ![w] = "idle"]
  /\ UNCHANGED <<upkeep, holders, active, pending, crashes>>

\* Mutant: maintenance is not woken.
ReleaseSilently(w) ==
  /\ worker[w] = "inside"
  /\ holders > 0
  /\ holders' = holders - 1
  /\ worker' = [worker EXCEPT ![w] = "idle"]
  /\ UNCHANGED <<upkeep, active, pending, crashes>>

ReleaseWorker(w) ==
  /\ worker[w] = "inside"
  /\ holders > 0
  /\ holders' = holders - 1
  /\ worker' = [Notified(worker) EXCEPT ![w] = "idle"]
  /\ upkeep' = Notified(upkeep)
  /\ UNCHANGED <<active, pending, crashes>>

\* run_maintenance up to the shell, called or resumed by the loop.  A call
\* that may run at once is pending only within the step.
RequestMaintenance(m) ==
  /\ upkeep[m] = "idle"
  /\ \/ /\ MaintenanceMayRun
        /\ active' = TRUE
        /\ worker' = Notified(worker)
        /\ upkeep' = [Notified(upkeep) EXCEPT ![m] = "running"]
        /\ UNCHANGED pending
     \/ /\ ~MaintenanceMayRun
        /\ pending' = pending + 1
        /\ upkeep' = [upkeep EXCEPT ![m] = "waiting"]
        /\ UNCHANGED <<worker, active>>
  /\ UNCHANGED <<holders, crashes>>

ResumeMaintenance(m) ==
  /\ upkeep[m] = "ready"
  /\ \/ /\ MaintenanceMayRun
        /\ active' = TRUE
        /\ pending' = pending - 1
        /\ worker' = Notified(worker)
        /\ upkeep' = [Notified(upkeep) EXCEPT ![m] = "running"]
     \/ /\ ~MaintenanceMayRun
        /\ upkeep' = [upkeep EXCEPT ![m] = "waiting"]
        /\ UNCHANGED <<worker, active, pending>>
  /\ UNCHANGED <<holders, crashes>>

\* Mutant: without the finally block's notify_all.
TimesOutSilently(m) ==
  /\ m \in Timed
  /\ upkeep[m] \in {"waiting", "ready"}
  /\ pending' = pending - 1
  /\ upkeep' = [upkeep EXCEPT ![m] = "done"]
  /\ UNCHANGED <<worker, holders, active, crashes>>

\* timeout_waiting_for_workers: the finally block still runs
MaintenanceTimesOut(m) ==
  /\ m \in Timed
  /\ upkeep[m] \in {"waiting", "ready"}
  /\ pending' = pending - 1
  /\ worker' = Notified(worker)
  /\ upkeep' = [Notified(upkeep) EXCEPT ![m] = "done"]
  /\ UNCHANGED <<holders, active, crashes>>

\* The shell returned, failed or timed out.
FinishMaintenance(m) ==
  /\ upkeep[m] = "running"
  /\ active' = FALSE
  /\ worker' = Notified(worker)
  /\ upkeep' = [Notified(upkeep) EXCEPT ![m] = "done"]
  /\ UNCHANGED <<holders, pending, crashes>>

\* Nobody tells the actor.
WorkerDies(w) ==
  /\ w \in Mortal
  /\ worker[w] = "inside"
  /\ worker' = [worker EXCEPT ![w] = "gone"]
  /\ UNCHANGED <<upkeep, holders, active, pending, crashes>>

\* The actor is not restarted: the calls in it fail, and the next client
\* creates a fresh one under the same name (get_if_exists).
LoseActor ==
  /\ crashes < MaxCrashes
  /\ crashes' = crashes + 1
  /\ worker' = [w \in Workers |-> CASE worker[w] \in {"inside", "stale"} -> "stale"
                                 [] worker[w] \in {"gone", "forgotten"} -> "forgotten"
                                 [] OTHER -> "idle"]
  /\ upkeep' = [m \in Maintainers |-> IF upkeep[m] = "idle" THEN "idle" ELSE "done"]
  /\ holders' = 0
  /\ active' = FALSE
  /\ pending' = 0

\* release_worker on the handle of a dead actor raises.
LeaveStale(w) ==
  /\ worker[w] = "stale"
  /\ worker' = [worker EXCEPT ![w] = "idle"]
  /\ UNCHANGED <<upkeep, holders, active, pending, crashes>>

LockNext ==
  \/ \E w \in Workers : \/ AcquireWorker(w) \/ AcquireTimesOut(w)
                        \/ ReleaseWorker(w) \/ WorkerDies(w) \/ LeaveStale(w)
  \/ \E m \in Maintainers : \/ RequestMaintenance(m) \/ ResumeMaintenance(m)
                            \/ MaintenanceTimesOut(m) \/ FinishMaintenance(m)
  \/ LoseActor

LockSpec == LockInit /\ [][LockNext]_lockVars

\* The loop resumes what is ready, those workers that live leave, timers
\* fire, the shell returns (it has a timeout).  Nobody is obliged to call.
Fairness ==
  /\ \A w \in Workers : WF_lockVars(worker[w] = "ready" /\ AcquireWorker(w))
  /\ \A w \in Workers : WF_lockVars(ReleaseWorker(w) \/ LeaveStale(w))
  /\ \A m \in Maintainers : WF_lockVars(ResumeMaintenance(m))
  /\ \A m \in Maintainers : WF_lockVars(MaintenanceTimesOut(m))
  /\ \A m \in Maintainers : WF_lockVars(FinishMaintenance(m))

FairSpec == LockSpec /\ Fairness

----------------------------------------------------------------------------
In(pc, where) == {c \in DOMAIN pc : pc[c] \in where}

\* The class comment (lines 50-57): workers share, maintenance runs
\* exclusively.  Stated of the clients, those of a lost actor included.
MaintenanceExclusive ==
  In(upkeep, {"running"}) # {} => In(worker, {"inside", "stale"}) = {}

Lock == INSTANCE SharedExclusiveLock WITH
          inside <- In(worker, {"inside", "gone"}),
          asking <- In(upkeep, {"waiting", "ready"}),
          running <- In(upkeep, {"running"})

\* The actor implements the abstract lock, maintenance priority included, for
\* the clients it knows.
ImplementsLock == Lock!Spec

\* A worker died inside, and a maintenance waits for it without time limit.
Stuck == In(worker, {"gone"}) # {} /\ In(upkeep, {"waiting", "ready"}) \ Timed # {}

\* A worker that waits gets in, or gives up: a maintenance request that times
\* out must not leave the workers behind it blocked (the comment at lines
\* 260-262).  A maintenance that was asked for runs or gives up, however busily
\* workers come and go: new ones are held back while it is pending.
EverybodyGetsThrough ==
  /\ \A w \in Workers :
       worker[w] \in {"waiting", "ready"} ~> worker[w] \in {"inside", "idle"} \/ Stuck
  /\ \A m \in Maintainers :
       upkeep[m] \in {"waiting", "ready"} ~> upkeep[m] \in {"running", "done"} \/ Stuck
============================================================================
