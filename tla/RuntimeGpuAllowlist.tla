------------------------ MODULE RuntimeGpuAllowlist ------------------------
(***************************************************************************)
(* The detached Ray actor that hands out GPU leases to tuning trials       *)
(* (core/tune/runtime_allowlist.py): the GPUs an operator allows on every  *)
(* node, the leases granted on them, and the checkpoint file from which a  *)
(* restarted actor resumes.  A Ray actor runs one method at a time, so one *)
(* method is one action.  The callers are arbitrary here: any trial may    *)
(* ask anything at any time, which also covers the re-execution of a       *)
(* method whose reply was lost (max_task_retries = -1).                    *)
(*                                                                         *)
(* A GPU fraction is counted in units, Full of which make a whole GPU.     *)
(* The order of a device list matters to the code only when it compares    *)
(* two allowlists, so lists are sets and ApplyAllowlist says whether the   *)
(* order changed.  Node ids are left out: nothing reads them back.         *)
(***************************************************************************)
EXTENDS Integers, FiniteSets

CONSTANTS Ips,          \* node addresses
          Gpus,         \* GPU ids, per node
          Trials,       \* trial ids
          Jobs,         \* Ray job ids
          NoJob,        \* owner_job_id = None
          Full,         \* units of one whole GPU
          Fractions,    \* the gpu_fraction values trials ask for
          Views,        \* what discover_cluster_nodes may return
          Requests,     \* the AllowlistConfig values an operator may send
          AllDevices,   \* devices = None is the set {AllDevices}
          NoFile, Torn, \* no checkpoint file; one cut short by a crash
          MaxRevision   \* bound on revisions

GpuMap == UNION {[S -> SUBSET Gpus] : S \in SUBSET Ips}

Lease == [trial : Trials, ip : Ips, gpu : Gpus, fraction : 1 .. Full,
          revision : Nat, state : {"reserved", "active"},
          owner : Jobs \cup {NoJob}]

Payload == [nodes : GpuMap, allowed : GpuMap, leases : SUBSET Lease, revision : Nat]

ASSUME UnitsAssumption ==
  /\ Full \in Nat \ {0}
  /\ Fractions \subseteq Nat \ {0}
  /\ NoJob \notin Jobs

ASSUME NamesAssumption ==
  /\ IsFiniteSet(Trials)
  /\ AllDevices \notin Gpus
  /\ NoFile \notin Payload
  /\ Torn \notin Payload
  /\ NoFile # Torn

ASSUME InputsAssumption ==
  /\ Views \subseteq GpuMap
  /\ \A req \in Requests : \A i \in DOMAIN req :
       req[i].ip \in Ips /\ req[i].devices \in SUBSET (Gpus \cup {AllDevices})

VARIABLES clusterNodes, \* _cluster_nodes: ip -> its visible GPUs
          allowed,      \* _allowed: ip -> the GPUs trials may use
          leases,       \* _active_leases
          revision,     \* _revision
          checkpoint,   \* runtime_gpu_allowlist.json
          actor         \* "up", "down" (crashed), "dead" (cannot be restarted)

vars == <<clusterNodes, allowed, leases, revision, checkpoint, actor>>

EmptyMap == [ip \in {} |-> {}]

Blank == [nodes |-> EmptyMap, allowed |-> EmptyMap, leases |-> {}, revision |-> 0]

TypeOK ==
  /\ clusterNodes \in GpuMap
  /\ allowed \in GpuMap
  /\ leases \in SUBSET Lease
  /\ revision \in Nat
  /\ checkpoint \in Payload \cup {NoFile, Torn}
  /\ actor \in {"up", "down", "dead"}

----------------------------------------------------------------------------
(* Helpers of RuntimeGpuAllowlistState.                                    *)

Devices(entry, nodes) ==
  IF entry.devices = {AllDevices} THEN nodes[entry.ip] ELSE entry.devices

Invalid(req, nodes) ==
  \/ \E i, j \in DOMAIN req : i # j /\ req[i].ip = req[j].ip
  \/ \E i \in DOMAIN req : req[i].ip \notin DOMAIN nodes
  \/ \E i \in DOMAIN req : req[i].ip \in DOMAIN nodes
                             /\ ~(Devices(req[i], nodes) \subseteq nodes[req[i].ip])

Expanded(req, nodes) ==
  [ip \in {req[i].ip : i \in DOMAIN req} |->
     UNION {Devices(req[i], nodes) : i \in {k \in DOMAIN req : req[k].ip = ip}}]

IsAllowed(ip, gpu, allow) == ip \in DOMAIN allow /\ gpu \in allow[ip]

\* Mutant: only the node is looked up.
IsNodeAllowed(l, allow) == l.ip \in DOMAIN allow

IsLeaseAllowed(l, allow) == IsAllowed(l.ip, l.gpu, allow)

\* Mutant: nothing is dropped.
NothingRevoked(ls, allow) == ls

\* Mutant: active leases are dropped like reservations.
EverythingRevoked(ls, allow) == {l \in ls : IsLeaseAllowed(l, allow)}

\* _drop_invalid_reserved_leases
WithoutRevoked(ls, allow) ==
  {l \in ls : l.state = "reserved" => IsLeaseAllowed(l, allow)}

\* Mutant: a failed job listing counts as one without jobs.
FailureMeansDead(ls, known, live, keep, dropOwnerless) ==
  {l \in ls : \/ l.trial \in keep
              \/ l.owner # NoJob /\ known /\ l.owner \in live
              \/ l.owner = NoJob /\ ~dropOwnerless}

\* Mutant: leases with an owner are never dropped.
OwnersNeverDie(ls, known, live, keep, dropOwnerless) ==
  {l \in ls : l.trial \in keep \/ l.owner # NoJob \/ ~dropOwnerless}

\* _prune_dead_job_leases; known is FALSE when list_jobs failed
WithoutDead(ls, known, live, keep, dropOwnerless) ==
  {l \in ls : \/ l.trial \in keep
              \/ l.owner # NoJob /\ (known => l.owner \in live)
              \/ l.owner = NoJob /\ ~dropOwnerless}

UnitsOn(ls, ip, gpu) ==
  {p \in ls \X (1 .. Full) : p[1].ip = ip /\ p[1].gpu = gpu /\ p[2] <= p[1].fraction}

\* _usage_by_gpu
Usage(ls, ip, gpu) == Cardinality(UnitsOn(ls, ip, gpu))

\* Mutant: any GPU that is not full will do.
RoomLeft(ls, fraction) ==
  {c \in Ips \X Gpus : /\ IsAllowed(c[1], c[2], allowed)
                       /\ c[1] \in DOMAIN clusterNodes
                       /\ Usage(ls, c[1], c[2]) < Full}

\* Mutant: the GPUs a node shows, allowed or not.
VisibleCandidates(ls, fraction) ==
  {c \in Ips \X Gpus : /\ IsAllowed(c[1], c[2], clusterNodes)
                       /\ Usage(ls, c[1], c[2]) + fraction <= Full}

Candidates(ls, fraction) ==
  {c \in Ips \X Gpus : /\ IsAllowed(c[1], c[2], allowed)
                       /\ c[1] \in DOMAIN clusterNodes
                       /\ Usage(ls, c[1], c[2]) + fraction <= Full}

\* _choose_lease_candidate; ties, which the code breaks by name, are open
BestCandidates(ls, fraction) ==
  {c \in Candidates(ls, fraction) :
     \A d \in Candidates(ls, fraction) : Usage(ls, c[1], c[2]) <= Usage(ls, d[1], d[2])}

\* _save_state of the given leases, next to the rest of the new state
Save(ls) ==
  checkpoint' = [nodes |-> clusterNodes', allowed |-> allowed',
                 leases |-> ls, revision |-> revision']

----------------------------------------------------------------------------
Init ==
  /\ clusterNodes = EmptyMap
  /\ allowed = EmptyMap
  /\ leases = {}
  /\ revision = 0
  /\ checkpoint = NoFile
  /\ actor = "up"

\* A startup allowlist that does not fit raises after the nodes were replaced.
InitializeFails(view, req) ==
  /\ actor = "up"
  /\ DOMAIN allowed = {}
  /\ Invalid(req, view)
  /\ clusterNodes' = view
  /\ UNCHANGED <<allowed, leases, revision, checkpoint, actor>>

Initialize(view, req) ==
  /\ actor = "up"
  /\ clusterNodes' = view
  /\ \/ /\ DOMAIN allowed = {}
        /\ ~Invalid(req, view)
        /\ allowed' = Expanded(req, view)
        /\ revision' = 1
        /\ leases' = leases
     \/ /\ DOMAIN allowed # {}
        /\ leases' = WithoutRevoked(leases, allowed)
        /\ UNCHANGED <<allowed, revision>>
  /\ Save(leases')
  /\ UNCHANGED actor

NewLease(t, fraction, owner, c) ==
  [trial |-> t, ip |-> c[1], gpu |-> c[2], fraction |-> fraction,
   revision |-> revision, state |-> "reserved", owner |-> owner]

\* Mutant: a trial that asks again gets another lease.
AcquireAnother(t, fraction, owner, known, live) ==
  /\ actor = "up"
  /\ UNCHANGED <<clusterNodes, allowed, revision, actor>>
  /\ \E c \in BestCandidates(leases, fraction) :
       leases' = leases \cup {NewLease(t, fraction, owner, c)}
  /\ Save(leases')

AcquireLease(t, fraction, owner, known, live) ==
  /\ actor = "up"
  /\ UNCHANGED <<clusterNodes, allowed, revision, actor>>
  /\ LET kept == WithoutDead(leases, known, live, {}, FALSE)
         left == {l \in kept : l.trial = t /\ l.state = "reserved"
                                 => IsLeaseAllowed(l, allowed)}
         held == \E l \in left : l.trial = t
     IN  \/ /\ held \/ Candidates(left, fraction) = {}
            /\ leases' = left
            /\ IF kept # leases THEN Save(kept) ELSE UNCHANGED checkpoint
         \/ /\ ~held
            /\ \E c \in BestCandidates(left, fraction) :
                 leases' = left \cup {NewLease(t, fraction, owner, c)}
            /\ Save(leases')

ActivateLease(t) ==
  /\ actor = "up"
  /\ \E l \in leases :
       /\ l.trial = t
       /\ \/ ~IsLeaseAllowed(l, allowed) /\ leases' = leases \ {l}
          \/ /\ IsLeaseAllowed(l, allowed)
             /\ l.state = "reserved"
             /\ leases' = (leases \ {l}) \cup {[l EXCEPT !.state = "active"]}
  /\ UNCHANGED <<clusterNodes, allowed, revision, actor>>
  /\ Save(leases')

\* Mutant: the released lease stays in the file.
ReleaseUnsaved(t) ==
  /\ actor = "up"
  /\ \E l \in leases : l.trial = t
  /\ leases' = {l \in leases : l.trial # t}
  /\ UNCHANGED <<clusterNodes, allowed, revision, checkpoint, actor>>

ReleaseLease(t) ==
  /\ actor = "up"
  /\ \E l \in leases : l.trial = t
  /\ leases' = {l \in leases : l.trial # t}
  /\ UNCHANGED <<clusterNodes, allowed, revision, actor>>
  /\ Save(leases')

PruneDeadLeases(known, live, keep, dropOwnerless) ==
  /\ actor = "up"
  /\ leases' = WithoutDead(leases, known, live, keep, dropOwnerless)
  /\ UNCHANGED <<clusterNodes, allowed, revision, actor>>
  /\ Save(leases')

\* A new revision when the allowlist changed.
BumpRevision(changed) ==
  IF changed THEN revision < MaxRevision /\ revision' = revision + 1
             ELSE UNCHANGED revision

ApplyAllowlist(req, reordered) ==
  /\ actor = "up"
  /\ DOMAIN clusterNodes # {}
  /\ ~Invalid(req, clusterNodes)
  /\ allowed' = Expanded(req, clusterNodes)
  /\ reordered => \E ip \in DOMAIN allowed : Cardinality(allowed[ip]) > 1
  /\ BumpRevision(allowed' # allowed \/ reordered)
  /\ leases' = WithoutRevoked(leases, allowed')
  /\ UNCHANGED <<clusterNodes, actor>>
  /\ Save(leases')

LoadPayload(p) ==
  /\ clusterNodes' = p.nodes
  /\ allowed' = p.allowed
  /\ leases' = p.leases
  /\ revision' = p.revision

\* The actor's process dies between two methods, or in one before its save.
Crash ==
  /\ actor = "up"
  /\ actor' = "down"
  /\ LoadPayload(Blank)
  /\ UNCHANGED checkpoint

\* It dies inside write_text, which truncates the file first.
CrashInSave ==
  /\ actor = "up"
  /\ actor' = "down"
  /\ checkpoint' = Torn
  /\ LoadPayload(Blank)

\* __init__ of the restarted actor; a torn file makes it raise.
Restart ==
  /\ actor = "down"
  /\ \/ /\ checkpoint = Torn
        /\ actor' = "dead"
        /\ UNCHANGED <<clusterNodes, allowed, leases, revision>>
     \/ /\ checkpoint # Torn
        /\ actor' = "up"
        /\ LoadPayload(IF checkpoint = NoFile THEN Blank ELSE checkpoint)
  /\ UNCHANGED checkpoint

Method ==
  \/ \E view \in Views, req \in Requests :
       Initialize(view, req) \/ InitializeFails(view, req)
  \/ \E t \in Trials, f \in Fractions, o \in Jobs \cup {NoJob},
        known \in BOOLEAN, live \in SUBSET Jobs : AcquireLease(t, f, o, known, live)
  \/ \E t \in Trials : ActivateLease(t) \/ ReleaseLease(t)
  \/ \E known, drop \in BOOLEAN, live \in SUBSET Jobs, keep \in SUBSET Trials :
       PruneDeadLeases(known, live, keep, drop)
  \/ \E req \in Requests, reordered \in BOOLEAN : ApplyAllowlist(req, reordered)

Next == Method \/ Crash \/ CrashInSave \/ Restart

Spec == Init /\ [][Next]_vars

----------------------------------------------------------------------------
(* What the lease table promises.                                          *)

\* No GPU is leased beyond its capacity: the fractions of the leases on it
\* never add up to more than one GPU, whatever reservations, activations,
\* drains, prunings and actor restarts went before (acquire_lease); and no
\* trial holds two leases (the table is keyed by trial id), although callers
\* ask again after a reply that was lost.
NoOversubscription ==
  /\ \A ip \in Ips, gpu \in Gpus : Usage(leases, ip, gpu) <= Full
  /\ \A l, m \in leases : l.trial = m.trial => l = m

\* A reservation that has not been activated is on a GPU that is still
\* allowed: every path that shrinks the allowlist, or reloads it, also drops
\* the reservations it revokes.  Only active leases drain.
ReservationsAllowed ==
  \A l \in leases : l.state = "reserved" => IsLeaseAllowed(l, allowed)

Recovered == IF checkpoint = NoFile THEN Blank ELSE checkpoint

\* A crash between two methods loses nothing that a caller was told: the
\* checkpoint always holds the allowlist, the leases and the revision the
\* actor works with.  (The node views may be newer in memory, after an
\* initialize that raised.)  acquire_lease pops a revoked reservation without
\* saving; that this cannot desynchronise the file needs ReservationsAllowed.
CheckpointCurrent ==
  actor = "up" => /\ checkpoint # Torn
                  /\ Recovered.allowed = allowed
                  /\ Recovered.leases = leases
                  /\ Recovered.revision = revision

\* A GPU taken off the allowlist only drains: while it stays off, no step
\* raises what is leased on it.
RemovedGpusOnlyDrain ==
  [][actor = "up" /\ actor' = "up" =>
       \A ip \in Ips, gpu \in Gpus :
         ~IsAllowed(ip, gpu, allowed) /\ ~IsAllowed(ip, gpu, allowed')
           => Usage(leases', ip, gpu) <= Usage(leases, ip, gpu)]_vars

\* An operator update spares the trials that run: it never ends an active
\* lease, of whatever GPU (apply_allowlist drops reservations only, and a
\* later activation of the same trial is what gives a drained lease back).
UpdatesSpareActiveLeases ==
  [][actor = "up" /\ actor' = "up" /\ allowed' # allowed =>
       \A l \in leases : l.state = "active" => l \in leases']_vars
============================================================================
