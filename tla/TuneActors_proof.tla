-------------------------- MODULE TuneActors_proof --------------------------
(***************************************************************************)
(* Theorems about the actors that trials share.  The lease table, for      *)
(* every set of nodes, GPUs, trials and jobs, every fraction, and every    *)
(* sequence of calls and crashes; the trials that hold the leases, for any *)
(* jobs; and the maintenance lock, which implements the shared-exclusive   *)
(* lock for any number of clients, whichever have time limits or die, and  *)
(* however often the actor is lost.                                        *)
(***************************************************************************)
EXTENDS TuneTrials, SeaweedRWLock, FiniteSetTheorems, TLAPS

----------------------------------------------------------------------------
(* Counting units: what Usage does when leases leave and arrive.           *)

\* The units of a finite set of leases on a GPU are finite, and their number
\* is a natural number.
LEMMA UsageNat ==
  ASSUME NEW ls, IsFiniteSet(ls), NEW ip, NEW gpu
  PROVE  IsFiniteSet(UnitsOn(ls, ip, gpu)) /\ Usage(ls, ip, gpu) \in Nat
<1>1. IsFiniteSet(1 .. Full)
  BY FS_Interval, UnitsAssumption
<1>2. IsFiniteSet(ls \X (1 .. Full))
  BY <1>1, FS_Product
<1>3. UnitsOn(ls, ip, gpu) \in SUBSET (ls \X (1 .. Full))
  BY DEF UnitsOn
<1>4. IsFiniteSet(UnitsOn(ls, ip, gpu))
  BY <1>2, <1>3, FS_Subset
<1>. QED
  BY <1>4, FS_CardinalityType DEF Usage

\* Dropping leases never raises the usage of a GPU.
LEMMA UsageMonotone ==
  ASSUME NEW ls, IsFiniteSet(ls), NEW few \in SUBSET ls, NEW ip, NEW gpu
  PROVE  IsFiniteSet(few) /\ Usage(few, ip, gpu) <= Usage(ls, ip, gpu)
<1>1. IsFiniteSet(UnitsOn(ls, ip, gpu))
  BY UsageNat
<1>2. UnitsOn(few, ip, gpu) \in SUBSET UnitsOn(ls, ip, gpu)
  BY DEF UnitsOn
<1>. QED
  BY <1>1, <1>2, FS_Subset DEF Usage

\* The units of one lease number its fraction.
LEMMA UnitsOfOne ==
  ASSUME NEW x, NEW n \in Nat
  PROVE  IsFiniteSet({x} \X (1 .. n)) /\ Cardinality({x} \X (1 .. n)) = n
<1>1. IsFiniteSet({x}) /\ Cardinality({x}) = 1
  BY FS_Singleton
<1>2. IsFiniteSet(1 .. n) /\ Cardinality(1 .. n) = n
  BY FS_Interval
<1>3. /\ IsFiniteSet({x} \X (1 .. n))
      /\ Cardinality({x} \X (1 .. n)) = Cardinality({x}) * Cardinality(1 .. n)
  BY <1>1, <1>2, FS_Product
<1>. QED
  BY <1>1, <1>2, <1>3

\* Disjoint finite sets add up.
LEMMA DisjointUnion ==
  ASSUME NEW S, IsFiniteSet(S), NEW T, IsFiniteSet(T), S \cap T = {}
  PROVE  Cardinality(S \cup T) = Cardinality(S) + Cardinality(T)
<1>1. Cardinality(S) \in Nat /\ Cardinality(T) \in Nat
  BY FS_CardinalityType
<1>2. Cardinality({}) = 0
  BY FS_EmptySet
<1>3. Cardinality(S \cup T) = Cardinality(S) + Cardinality(T) - Cardinality(S \cap T)
  BY FS_Union
<1>4. Cardinality(S \cap T) = 0
  BY <1>2
<1>. QED
  BY <1>1, <1>3, <1>4

\* A new lease adds exactly its fraction to its own GPU, nothing elsewhere.
LEMMA UsageAdd ==
  ASSUME NEW ls, IsFiniteSet(ls), NEW l \in Lease, l \notin ls, NEW ip, NEW gpu
  PROVE  /\ IsFiniteSet(ls \cup {l})
         /\ Usage(ls \cup {l}, ip, gpu) =
              Usage(ls, ip, gpu) + (IF l.ip = ip /\ l.gpu = gpu THEN l.fraction ELSE 0)
<1> DEFINE Mine == {l} \X (1 .. l.fraction)
<1>1. IsFiniteSet(UnitsOn(ls, ip, gpu)) /\ Usage(ls, ip, gpu) \in Nat
  BY UsageNat
<1>2. IsFiniteSet(ls \cup {l})
  BY FS_AddElement
<1>3. CASE l.ip = ip /\ l.gpu = gpu
  <2>1. l.fraction \in 1 .. Full /\ l.fraction \in Nat
    BY UnitsAssumption DEF Lease
  <2>4. IsFiniteSet(Mine) /\ Cardinality(Mine) = l.fraction
    BY <2>1, UnitsOfOne
  <2>5. UnitsOn(ls \cup {l}, ip, gpu) = UnitsOn(ls, ip, gpu) \cup Mine
    <3>1. ASSUME NEW p \in (ls \cup {l}) \X (1 .. Full), p[1] = l
          PROVE  p \in UnitsOn(ls \cup {l}, ip, gpu) <=> p \in Mine
      BY <1>3, <2>1, <3>1, UnitsAssumption DEF UnitsOn
    <3>2. ASSUME NEW p \in (ls \cup {l}) \X (1 .. Full), p[1] # l
          PROVE  p \in UnitsOn(ls \cup {l}, ip, gpu) <=> p \in UnitsOn(ls, ip, gpu)
      BY <3>2 DEF UnitsOn
    <3>3. Mine \subseteq (ls \cup {l}) \X (1 .. Full)
      BY <2>1, UnitsAssumption
    <3>4. \A p \in UnitsOn(ls, ip, gpu) : p[1] # l
      BY DEF UnitsOn
    <3>5. UnitsOn(ls, ip, gpu) \subseteq (ls \cup {l}) \X (1 .. Full)
      BY DEF UnitsOn
    <3>6. UnitsOn(ls \cup {l}, ip, gpu) \subseteq (ls \cup {l}) \X (1 .. Full)
      BY DEF UnitsOn
    <3>7. \A p \in Mine : p[1] = l
      OBVIOUS
    <3>. QED
      BY <3>1, <3>2, <3>3, <3>4, <3>5, <3>6, <3>7
  <2>6. UnitsOn(ls, ip, gpu) \cap Mine = {}
    BY DEF UnitsOn
  <2>7. Cardinality(UnitsOn(ls, ip, gpu) \cup Mine) =
          Cardinality(UnitsOn(ls, ip, gpu)) + Cardinality(Mine)
    BY <1>1, <2>4, <2>6, DisjointUnion
  <2>9. Usage(ls \cup {l}, ip, gpu) = Usage(ls, ip, gpu) + l.fraction
    <3> HIDE DEF Mine
    <3>. QED
      BY <2>4, <2>5, <2>7 DEF Usage
  <2>. QED
    BY <1>2, <1>3, <2>9
<1>4. CASE ~(l.ip = ip /\ l.gpu = gpu)
  <2>1. UnitsOn(ls \cup {l}, ip, gpu) = UnitsOn(ls, ip, gpu)
    BY <1>4 DEF UnitsOn
  <2>. QED
    BY <1>1, <1>2, <1>4, <2>1 DEF Usage
<1>. QED
  BY <1>3, <1>4
----------------------------------------------------------------------------
(* What a lease table in memory or in the checkpoint must satisfy, and the *)
(* ways the methods change it.                                             *)

Sound(ls, allow) ==
  /\ IsFiniteSet(ls)
  /\ \A ip \in Ips, gpu \in Gpus : Usage(ls, ip, gpu) <= Full
  /\ \A l, m \in ls : l.trial = m.trial => l = m
  /\ \A l \in ls : l.state = "reserved" => IsLeaseAllowed(l, allow)

\* No lease at all is sound.
LEMMA SoundEmpty == ASSUME NEW allow PROVE Sound({}, allow)
<1>1. IsFiniteSet({}) /\ Cardinality({}) = 0
  BY FS_EmptySet
<1>2. ASSUME NEW ip, NEW gpu PROVE Usage({}, ip, gpu) <= Full
  <2>1. UnitsOn({}, ip, gpu) = {}
    BY DEF UnitsOn
  <2>. QED
    BY <1>1, <2>1, UnitsAssumption DEF Usage
<1>. QED
  BY <1>1, <1>2 DEF Sound

\* Leases may be dropped (release, pruning, activation of a revoked lease).
LEMMA SoundSubset ==
  ASSUME NEW ls \in SUBSET Lease, NEW allow, Sound(ls, allow), NEW few \in SUBSET ls
  PROVE  Sound(few, allow)
<1>1. IsFiniteSet(few)
  BY UsageMonotone DEF Sound
<1>2. ASSUME NEW ip \in Ips, NEW gpu \in Gpus PROVE Usage(few, ip, gpu) <= Full
  <2>1. Usage(few, ip, gpu) <= Usage(ls, ip, gpu)
    BY UsageMonotone DEF Sound
  <2>2. Usage(few, ip, gpu) \in Nat /\ Usage(ls, ip, gpu) \in Nat
    BY <1>1, UsageNat DEF Sound
  <2>3. Usage(ls, ip, gpu) <= Full
    BY DEF Sound
  <2>. QED
    BY <2>1, <2>2, <2>3, UnitsAssumption
<1>. QED
  BY <1>1, <1>2 DEF Sound

\* The allowlist may be replaced if the reservations it revokes are dropped.
LEMMA SoundRevoked ==
  ASSUME NEW ls \in SUBSET Lease, NEW old, Sound(ls, old), NEW allow
  PROVE  Sound(WithoutRevoked(ls, allow), allow)
<1>1. WithoutRevoked(ls, allow) \in SUBSET ls
  BY DEF WithoutRevoked
<1>2. Sound(WithoutRevoked(ls, allow), old)
  BY <1>1, SoundSubset
<1>. QED
  BY <1>2 DEF Sound, WithoutRevoked

\* A lease may be granted where acquire_lease finds a candidate.
LEMMA SoundGrant ==
  ASSUME NEW ls \in SUBSET Lease, Sound(ls, allowed), revision \in Nat,
         NEW t \in Trials, NEW f \in Fractions, NEW o \in Jobs \cup {NoJob},
         \A l \in ls : l.trial # t,
         NEW c \in Candidates(ls, f)
  PROVE  /\ NewLease(t, f, o, c) \in Lease
         /\ Sound(ls \cup {NewLease(t, f, o, c)}, allowed)
<1> DEFINE new == NewLease(t, f, o, c)
<1>1. c[1] \in Ips /\ c[2] \in Gpus /\ IsAllowed(c[1], c[2], allowed)
  BY DEF Candidates
<1>2. Usage(ls, c[1], c[2]) \in Nat /\ Usage(ls, c[1], c[2]) + f <= Full
  BY UsageNat DEF Candidates, Sound
<1>3. f \in 1 .. Full
  BY <1>2, UnitsAssumption
<1>4. new \in Lease
  BY <1>1, <1>3 DEF NewLease, Lease
<1>5. new.trial = t /\ new.ip = c[1] /\ new.gpu = c[2] /\ new.fraction = f
  BY DEF NewLease
<1>6. new \notin ls
  BY <1>5
<1>7. IsFiniteSet(ls \cup {new})
  BY FS_AddElement DEF Sound
<1>8. ASSUME NEW ip \in Ips, NEW gpu \in Gpus PROVE Usage(ls \cup {new}, ip, gpu) <= Full
  <2> HIDE DEF new
  <2>1. Usage(ls \cup {new}, ip, gpu) =
          Usage(ls, ip, gpu) + (IF new.ip = ip /\ new.gpu = gpu THEN new.fraction ELSE 0)
    BY <1>4, <1>6, UsageAdd DEF Sound
  <2>2. Usage(ls, ip, gpu) \in Nat /\ Usage(ls, ip, gpu) <= Full
    BY UsageNat DEF Sound
  <2>. QED
    BY <1>2, <1>5, <2>1, <2>2
<1>9. IsLeaseAllowed(new, allowed)
  BY <1>1, <1>5 DEF IsLeaseAllowed
<1>. QED
  <2> HIDE DEF new
  <2>1. Sound(ls \cup {new}, allowed)
    BY <1>5, <1>6, <1>7, <1>8, <1>9 DEF Sound
  <2>. QED
    BY <1>4, <2>1 DEF new

\* A reserved lease may become active.
LEMMA SoundActivate ==
  ASSUME NEW ls \in SUBSET Lease, NEW allow, Sound(ls, allow),
         NEW l \in ls, l.state = "reserved"
  PROVE  /\ [l EXCEPT !.state = "active"] \in Lease
         /\ Sound((ls \ {l}) \cup {[l EXCEPT !.state = "active"]}, allow)
<1> DEFINE new == [l EXCEPT !.state = "active"]
           rest == ls \ {l}
<1>1. /\ l \in Lease /\ new \in Lease
      /\ new.trial = l.trial /\ new.ip = l.ip /\ new.gpu = l.gpu
      /\ new.fraction = l.fraction /\ new.state = "active"
  BY DEF Lease
<1>2. \A m \in rest : m.trial # l.trial
  BY DEF Sound
<1>3. new \notin rest /\ l \notin rest
  BY <1>1, <1>2
<1>4. IsFiniteSet(rest) /\ ls = rest \cup {l}
  BY FS_RemoveElement DEF Sound
<1>5. IsFiniteSet(rest \cup {new})
  BY <1>4, FS_AddElement
<1>6. ASSUME NEW ip \in Ips, NEW gpu \in Gpus PROVE Usage(rest \cup {new}, ip, gpu) <= Full
  <2> HIDE DEF new, rest
  <2>1. Usage(rest \cup {l}, ip, gpu) =
          Usage(rest, ip, gpu) + (IF l.ip = ip /\ l.gpu = gpu THEN l.fraction ELSE 0)
    BY <1>1, <1>3, <1>4, UsageAdd
  <2>2. Usage(rest \cup {new}, ip, gpu) =
          Usage(rest, ip, gpu) + (IF new.ip = ip /\ new.gpu = gpu THEN new.fraction ELSE 0)
    BY <1>1, <1>3, <1>4, UsageAdd
  <2>3. Usage(ls, ip, gpu) <= Full
    BY DEF Sound
  <2>. QED
    BY <1>1, <1>4, <2>1, <2>2, <2>3
<1>7. \A m \in rest : m \in ls /\ (m.state = "reserved" => IsLeaseAllowed(m, allow))
  BY DEF Sound
<1>. QED
  <2> HIDE DEF new
  <2>1. \A m, n \in rest : m.trial = n.trial => m = n
    BY <1>7 DEF Sound
  <2> HIDE DEF rest
  <2>2. Sound(rest \cup {new}, allow)
    BY <1>1, <1>2, <1>5, <1>6, <1>7, <2>1 DEF Sound
  <2>. QED
    BY <1>1, <2>2 DEF new, rest
----------------------------------------------------------------------------
(* The inductive invariant: what memory holds is sound, what the file      *)
(* holds is sound, and while the actor is up they agree.                   *)

IInv ==
  /\ TypeOK
  /\ Sound(leases, allowed)
  /\ checkpoint \in Payload => Sound(checkpoint.leases, checkpoint.allowed)
  /\ CheckpointCurrent

\* An expanded, valid allowlist maps known nodes to GPUs they show.
LEMMA ExpandedType ==
  ASSUME NEW req \in Requests, NEW nodes \in GpuMap, ~Invalid(req, nodes)
  PROVE  Expanded(req, nodes) \in GpuMap
<1> DEFINE ips == {req[i].ip : i \in DOMAIN req}
<1>1. PICK S \in SUBSET Ips : nodes \in [S -> SUBSET Gpus]
  BY DEF GpuMap
<1>2. ips \subseteq S
  BY <1>1 DEF Invalid
<1>3. \A i \in DOMAIN req : Devices(req[i], nodes) \subseteq Gpus
  BY <1>1, <1>2 DEF Invalid
<1>4. Expanded(req, nodes) \in [ips -> SUBSET Gpus]
  BY <1>3 DEF Expanded
<1>. QED
  BY <1>1, <1>2, <1>4 DEF GpuMap

\* The blank memory of a fresh actor has the right type.
LEMMA BlankType == EmptyMap \in GpuMap /\ Blank \in Payload
<1>1. EmptyMap \in [{} -> SUBSET Gpus]
  BY DEF EmptyMap
<1>2. EmptyMap \in GpuMap
  BY <1>1 DEF GpuMap
<1>. QED
  BY <1>2 DEF Blank, Payload

\* The invariant holds of the actor's first memory, with no file.
LEMMA InitIInv == Init => IInv
<1> SUFFICES ASSUME Init PROVE IInv
  OBVIOUS
<1>1. TypeOK
  BY BlankType DEF Init, TypeOK
<1>2. Sound(leases, allowed)
  BY SoundEmpty DEF Init
<1>3. checkpoint \notin Payload
  BY NamesAssumption DEF Init
<1>4. CheckpointCurrent
  BY NamesAssumption DEF Init, CheckpointCurrent, Recovered, Blank
<1>. QED
  BY <1>1, <1>2, <1>3, <1>4 DEF IInv

\* A method that ends with _save_state of a sound table keeps it.
LEMMA SavedIInv ==
  ASSUME clusterNodes' \in GpuMap, allowed' \in GpuMap, leases' \in SUBSET Lease,
         revision' \in Nat, actor' \in {"up", "down", "dead"},
         Sound(leases', allowed'), Save(leases')
  PROVE  IInv'
<1>1. checkpoint' \in Payload
  BY DEF Save, Payload
<1>2. TypeOK'
  BY <1>1 DEF TypeOK
<1>3. checkpoint'.leases = leases' /\ checkpoint'.allowed = allowed'
        /\ checkpoint'.revision = revision'
  BY DEF Save
<1>4. CheckpointCurrent'
  BY <1>1, <1>3, NamesAssumption DEF CheckpointCurrent, Recovered
<1>. QED
  BY <1>2, <1>3, <1>4 DEF IInv

\* acquire_lease never meets a revoked reservation, so what it saves after
\* the pruning is what it goes on with.
LEMMA AcquireIInv ==
  ASSUME IInv, NEW t \in Trials, NEW f \in Fractions, NEW o \in Jobs \cup {NoJob},
         NEW known \in BOOLEAN, NEW alive \in SUBSET Jobs,
         AcquireLease(t, f, o, known, alive)
  PROVE  IInv'
<1> DEFINE kept == WithoutDead(leases, known, alive, {}, FALSE)
           left == {l \in kept : l.trial = t /\ l.state = "reserved"
                                    => IsLeaseAllowed(l, allowed)}
           held == \E l \in left : l.trial = t
<1>1. kept \in SUBSET leases
  BY DEF WithoutDead
<1>2. Sound(kept, allowed) /\ kept \in SUBSET Lease
  BY <1>1, SoundSubset DEF IInv, TypeOK
<1>3. left = kept
  BY <1>2 DEF Sound
<1>4. UNCHANGED <<clusterNodes, allowed, revision, actor>>
  BY DEF AcquireLease
<1>5. CASE leases' = left /\ (IF kept # leases THEN Save(kept) ELSE UNCHANGED checkpoint)
  <2> HIDE DEF kept, left
  <2>1. CASE kept # leases
    BY <1>2, <1>3, <1>4, <1>5, <2>1, SavedIInv DEF IInv, TypeOK
  <2>2. CASE kept = leases
    BY <1>3, <1>4, <1>5, <2>2 DEF IInv, TypeOK, CheckpointCurrent, Recovered
  <2>. QED
    BY <2>1, <2>2
<1>6. CASE /\ ~held
           /\ \E c \in BestCandidates(left, f) : leases' = left \cup {NewLease(t, f, o, c)}
           /\ Save(leases')
  <2>1. \A l \in left : l.trial # t
    BY <1>6
  <2> HIDE DEF kept, left, held
  <2>2. PICK c \in BestCandidates(left, f) : leases' = left \cup {NewLease(t, f, o, c)}
    BY <1>6
  <2>3. c \in Candidates(left, f)
    BY DEF BestCandidates
  <2>4. leases' \in SUBSET Lease /\ Sound(leases', allowed)
    BY <1>2, <1>3, <2>1, <2>2, <2>3, SoundGrant DEF IInv, TypeOK
  <2>. QED
    BY <1>4, <1>6, <2>4, SavedIInv DEF IInv, TypeOK
<1>. QED
  BY <1>5, <1>6 DEF AcquireLease

\* Every step of the actor, crashes and restarts included, keeps the
\* invariant.
LEMMA NextIInv == IInv /\ [Next]_vars => IInv'
<1> SUFFICES ASSUME IInv, [Next]_vars PROVE IInv'
  OBVIOUS
<1>. USE DEF IInv
<1>1. ASSUME NEW view \in Views, NEW req \in Requests, Initialize(view, req) PROVE IInv'
  <2>1. view \in GpuMap
    BY InputsAssumption
  <2>2. CASE allowed' = Expanded(req, view) /\ ~Invalid(req, view) /\ DOMAIN allowed = {}
             /\ revision' = 1 /\ leases' = leases
    <3>1. \A l \in leases : l.state # "reserved"
      BY <2>2 DEF Sound, IsLeaseAllowed, IsAllowed
    <3>2. Sound(leases', allowed')
      BY <2>2, <3>1 DEF Sound
    <3>. QED
      BY <1>1, <2>1, <2>2, <3>2, ExpandedType, SavedIInv DEF Initialize, TypeOK
  <2>3. CASE leases' = WithoutRevoked(leases, allowed) /\ UNCHANGED <<allowed, revision>>
    <3>1. Sound(leases', allowed')
      BY <2>3, SoundRevoked DEF TypeOK
    <3>. QED
      BY <1>1, <2>1, <2>3, <3>1, SavedIInv DEF Initialize, TypeOK, WithoutRevoked
  <2>. QED
    BY <1>1, <2>2, <2>3 DEF Initialize
<1>2. ASSUME NEW view \in Views, NEW req \in Requests, InitializeFails(view, req) PROVE IInv'
  BY <1>2, InputsAssumption DEF InitializeFails, TypeOK, CheckpointCurrent, Recovered
<1>3. ASSUME NEW t \in Trials, NEW f \in Fractions, NEW o \in Jobs \cup {NoJob},
             NEW known \in BOOLEAN, NEW alive \in SUBSET Jobs,
             AcquireLease(t, f, o, known, alive)
      PROVE  IInv'
  BY <1>3, AcquireIInv
<1>4. ASSUME NEW t \in Trials, ActivateLease(t) PROVE IInv'
  <2>1. PICK l \in leases :
          \/ leases' = leases \ {l}
          \/ /\ l.state = "reserved"
             /\ leases' = (leases \ {l}) \cup {[l EXCEPT !.state = "active"]}
    BY <1>4 DEF ActivateLease
  <2>2. CASE leases' = leases \ {l}
    <3>1. Sound(leases', allowed) /\ leases' \in SUBSET Lease
      BY <2>2, SoundSubset DEF TypeOK
    <3>. QED
      BY <1>4, <3>1, SavedIInv DEF ActivateLease, TypeOK
  <2>3. CASE l.state = "reserved"
             /\ leases' = (leases \ {l}) \cup {[l EXCEPT !.state = "active"]}
    <3>1. Sound(leases', allowed) /\ leases' \in SUBSET Lease
      BY <2>3, SoundActivate DEF TypeOK
    <3>. QED
      BY <1>4, <3>1, SavedIInv DEF ActivateLease, TypeOK
  <2>. QED
    BY <2>1, <2>2, <2>3
<1>5. ASSUME NEW t \in Trials, ReleaseLease(t) PROVE IInv'
  <2>1. Sound(leases', allowed) /\ leases' \in SUBSET Lease
    BY <1>5, SoundSubset DEF ReleaseLease, TypeOK
  <2>. QED
    BY <1>5, <2>1, SavedIInv DEF ReleaseLease, TypeOK
<1>6. ASSUME NEW known \in BOOLEAN, NEW drop \in BOOLEAN, NEW alive \in SUBSET Jobs,
             NEW keep \in SUBSET Trials, PruneDeadLeases(known, alive, keep, drop)
      PROVE  IInv'
  <2>1. leases' \in SUBSET leases
    BY <1>6 DEF PruneDeadLeases, WithoutDead
  <2>2. Sound(leases', allowed) /\ leases' \in SUBSET Lease
    BY <2>1, SoundSubset DEF TypeOK
  <2>. QED
    BY <1>6, <2>2, SavedIInv DEF PruneDeadLeases, TypeOK
<1>7. ASSUME NEW req \in Requests, NEW reordered \in BOOLEAN, ApplyAllowlist(req, reordered)
      PROVE  IInv'
  <2>1. allowed' \in GpuMap
    BY <1>7, ExpandedType DEF ApplyAllowlist, TypeOK
  <2>2. revision' \in Nat
    BY <1>7 DEF ApplyAllowlist, BumpRevision, TypeOK
  <2>3. Sound(leases', allowed') /\ leases' \in SUBSET Lease
    BY <1>7, SoundRevoked DEF ApplyAllowlist, TypeOK, WithoutRevoked
  <2>. QED
    BY <1>7, <2>1, <2>2, <2>3, SavedIInv DEF ApplyAllowlist, TypeOK
<1>8. CASE Crash
  <2>1. Sound(leases', allowed')
    BY <1>8, SoundEmpty DEF Crash, LoadPayload, Blank
  <2>. QED
    BY <1>8, <2>1, BlankType DEF Crash, LoadPayload, Blank, TypeOK, CheckpointCurrent
<1>9. CASE CrashInSave
  <2>1. Sound(leases', allowed')
    BY <1>9, SoundEmpty DEF CrashInSave, LoadPayload, Blank
  <2>2. checkpoint' \notin Payload
    BY <1>9, NamesAssumption DEF CrashInSave
  <2>. QED
    BY <1>9, <2>1, <2>2, BlankType DEF CrashInSave, LoadPayload, Blank, TypeOK, CheckpointCurrent
<1>10. CASE Restart
  <2>1. CASE checkpoint = Torn
    BY <1>10, <2>1 DEF Restart, TypeOK, CheckpointCurrent
  <2>2. CASE checkpoint = NoFile
    <3>1. actor' = "up" /\ LoadPayload(Blank) /\ checkpoint' = NoFile
      BY <1>10, <2>2, NamesAssumption DEF Restart
    <3>2. Sound(leases', allowed')
      BY <3>1, SoundEmpty DEF LoadPayload, Blank
    <3>3. CheckpointCurrent'
      BY <3>1, NamesAssumption DEF CheckpointCurrent, Recovered, LoadPayload
    <3>. QED
      BY <3>1, <3>2, <3>3, NamesAssumption, BlankType DEF LoadPayload, Blank, TypeOK
  <2>3. CASE checkpoint \in Payload
    <3>1. checkpoint # Torn /\ checkpoint # NoFile
      BY <2>3, NamesAssumption
    <3>2. actor' = "up" /\ LoadPayload(checkpoint) /\ checkpoint' = checkpoint
      BY <1>10, <3>1 DEF Restart
    <3>3. Sound(leases', allowed')
      BY <2>3, <3>2 DEF LoadPayload
    <3>4. CheckpointCurrent'
      BY <3>1, <3>2 DEF CheckpointCurrent, Recovered, LoadPayload
    <3>5. TypeOK'
      BY <2>3, <3>2 DEF LoadPayload, TypeOK, Payload
    <3>. QED
      BY <2>3, <3>2, <3>3, <3>4, <3>5
  <2>. QED
    BY <2>1, <2>2, <2>3 DEF TypeOK
<1>11. CASE UNCHANGED vars
  BY <1>11 DEF vars, TypeOK, CheckpointCurrent, Recovered
<1>. QED
  BY <1>1, <1>2, <1>3, <1>4, <1>5, <1>6, <1>7, <1>8, <1>9, <1>10, <1>11 DEF Next, Method
----------------------------------------------------------------------------
(* The theorems.                                                           *)

\* The invariant holds in every reachable state.
THEOREM InvariantHolds == Spec => []IInv
<1>. QED
  BY InitIInv, NextIInv, PTL DEF Spec

\* Every variable keeps its type.
THEOREM TypeCorrect == Spec => []TypeOK
<1>1. IInv => TypeOK
  BY DEF IInv
<1>. QED
  BY <1>1, InvariantHolds, PTL

\* The leases on a GPU never add up to more than one GPU, and no trial holds two.
THEOREM CapacityRespected == Spec => []NoOversubscription
<1>1. IInv => NoOversubscription
  BY DEF IInv, Sound, NoOversubscription
<1>. QED
  BY <1>1, InvariantHolds, PTL

\* No reservation outlives the permission it was granted under.
THEOREM ReservationsStayAllowed == Spec => []ReservationsAllowed
<1>1. IInv => ReservationsAllowed
  BY DEF IInv, Sound, ReservationsAllowed
<1>. QED
  BY <1>1, InvariantHolds, PTL

\* A restart between two methods resumes with exactly the leases, the
\* allowlist and the revision of before the crash.
THEOREM RestartLosesNothing == Spec => []CheckpointCurrent
<1>1. IInv => CheckpointCurrent
  BY DEF IInv
<1>. QED
  BY <1>1, InvariantHolds, PTL

\* The three ways a method changes the lease table: it drops leases, grants
\* one on an allowed GPU, or activates a reservation.
LEMMA LeasesStep ==
  ASSUME IInv, Next, actor = "up", actor' = "up"
  PROVE  \/ leases' \in SUBSET leases
         \/ \E few \in SUBSET leases, l \in Lease :
              /\ l \notin few
              /\ IsLeaseAllowed(l, allowed)
              /\ leases' = few \cup {l}
         \/ \E l \in leases :
              /\ l.state = "reserved"
              /\ leases' = (leases \ {l}) \cup {[l EXCEPT !.state = "active"]}
<1>1. ASSUME NEW t \in Trials, NEW f \in Fractions, NEW o \in Jobs \cup {NoJob},
             NEW known \in BOOLEAN, NEW alive \in SUBSET Jobs,
             AcquireLease(t, f, o, known, alive)
      PROVE  \/ leases' \in SUBSET leases
             \/ \E few \in SUBSET leases, l \in Lease :
                  /\ l \notin few
                  /\ IsLeaseAllowed(l, allowed)
                  /\ leases' = few \cup {l}
  <2> DEFINE kept == WithoutDead(leases, known, alive, {}, FALSE)
             left == {l \in kept : l.trial = t /\ l.state = "reserved"
                                      => IsLeaseAllowed(l, allowed)}
  <2>1. kept \in SUBSET leases
    BY DEF WithoutDead
  <2>2. left = kept
    BY <2>1 DEF IInv, Sound
  <2>3. CASE leases' = left
    BY <2>1, <2>3
  <2>4. CASE /\ ~(\E l \in left : l.trial = t)
             /\ \E c \in BestCandidates(left, f) : leases' = left \cup {NewLease(t, f, o, c)}
    <3>1. PICK c \in BestCandidates(left, f) : leases' = left \cup {NewLease(t, f, o, c)}
      BY <2>4
    <3>2. c \in Candidates(left, f)
      BY DEF BestCandidates
    <3>3. Sound(left, allowed) /\ left \in SUBSET Lease /\ \A l \in left : l.trial # t
      BY <2>1, <2>2, <2>4, SoundSubset DEF IInv, TypeOK
    <3> HIDE DEF left, kept
    <3>4. NewLease(t, f, o, c) \in Lease
      BY <3>2, <3>3, SoundGrant DEF IInv, TypeOK
    <3>5. NewLease(t, f, o, c) \notin left
      BY <3>3 DEF NewLease
    <3>6. IsLeaseAllowed(NewLease(t, f, o, c), allowed)
      BY <3>2 DEF Candidates, IsLeaseAllowed, NewLease
    <3>7. left \in SUBSET leases
      BY <2>1, <2>2
    <3>8. \E l \in Lease : /\ l \notin left
                          /\ IsLeaseAllowed(l, allowed)
                          /\ leases' = left \cup {l}
      BY <3>1, <3>4, <3>5, <3>6
    <3>. QED
      BY <3>7, <3>8
  <2>. QED
    BY <1>1, <2>3, <2>4 DEF AcquireLease
<1>2. ASSUME NEW t \in Trials, ActivateLease(t)
      PROVE  \/ leases' \in SUBSET leases
             \/ \E l \in leases :
                  /\ l.state = "reserved"
                  /\ leases' = (leases \ {l}) \cup {[l EXCEPT !.state = "active"]}
  BY <1>2 DEF ActivateLease
<1>3. ASSUME NEW view \in Views, NEW req \in Requests,
             Initialize(view, req) \/ InitializeFails(view, req)
      PROVE  leases' \in SUBSET leases
  BY <1>3 DEF Initialize, InitializeFails, WithoutRevoked
<1>4. ASSUME NEW t \in Trials, ReleaseLease(t) PROVE leases' \in SUBSET leases
  BY <1>4 DEF ReleaseLease
<1>5. ASSUME NEW known \in BOOLEAN, NEW drop \in BOOLEAN, NEW alive \in SUBSET Jobs,
             NEW keep \in SUBSET Trials, PruneDeadLeases(known, alive, keep, drop)
      PROVE  leases' \in SUBSET leases
  BY <1>5 DEF PruneDeadLeases, WithoutDead
<1>6. ASSUME NEW req \in Requests, NEW reordered \in BOOLEAN, ApplyAllowlist(req, reordered)
      PROVE  leases' \in SUBSET leases
  BY <1>6 DEF ApplyAllowlist, WithoutRevoked
<1>7. ~Crash /\ ~CrashInSave /\ ~Restart
  BY DEF Crash, CrashInSave, Restart
<1>8. CASE \E view \in Views, req \in Requests :
             Initialize(view, req) \/ InitializeFails(view, req)
  BY <1>3, <1>8
<1>9. CASE \E t \in Trials, f \in Fractions, o \in Jobs \cup {NoJob},
             known \in BOOLEAN, alive \in SUBSET Jobs : AcquireLease(t, f, o, known, alive)
  <2>1. PICK t \in Trials, f \in Fractions, o \in Jobs \cup {NoJob},
             known \in BOOLEAN, alive \in SUBSET Jobs : AcquireLease(t, f, o, known, alive)
    BY <1>9
  <2>. QED
    BY <1>1, <2>1
<1>10. CASE \E t \in Trials : ActivateLease(t) \/ ReleaseLease(t)
  <2>1. PICK t \in Trials : ActivateLease(t) \/ ReleaseLease(t)
    BY <1>10
  <2>. QED
    BY <1>2, <1>4, <2>1
<1>11. CASE \E known, drop \in BOOLEAN, alive \in SUBSET Jobs, keep \in SUBSET Trials :
             PruneDeadLeases(known, alive, keep, drop)
  <2>1. PICK known \in BOOLEAN, drop \in BOOLEAN, alive \in SUBSET Jobs, keep \in SUBSET Trials :
             PruneDeadLeases(known, alive, keep, drop)
    BY <1>11
  <2>. QED
    BY <1>5, <2>1
<1>12. CASE \E req \in Requests, reordered \in BOOLEAN : ApplyAllowlist(req, reordered)
  BY <1>6, <1>12
<1>. QED
  BY <1>7, <1>8, <1>9, <1>10, <1>11, <1>12 DEF Next, Method

\* A GPU that is off the allowlist only drains.
THEOREM RemovedGpusDrain == Spec => RemovedGpusOnlyDrain
<1>1. ASSUME IInv, [Next]_vars, actor = "up", actor' = "up",
             NEW ip \in Ips, NEW gpu \in Gpus, ~IsAllowed(ip, gpu, allowed)
      PROVE  Usage(leases', ip, gpu) <= Usage(leases, ip, gpu)
  <2>1. IsFiniteSet(leases) /\ leases \in SUBSET Lease
    BY <1>1 DEF IInv, Sound, TypeOK
  <2>2. Usage(leases, ip, gpu) \in Nat
    BY <2>1, UsageNat
  <2>3. CASE leases' \in SUBSET leases
    BY <2>1, <2>3, UsageMonotone
  <2>4. CASE \E few \in SUBSET leases, l \in Lease :
               l \notin few /\ IsLeaseAllowed(l, allowed) /\ leases' = few \cup {l}
    <3>1. PICK few \in SUBSET leases, l \in Lease :
               l \notin few /\ IsLeaseAllowed(l, allowed) /\ leases' = few \cup {l}
      BY <2>4
    <3>2. IsFiniteSet(few) /\ Usage(few, ip, gpu) <= Usage(leases, ip, gpu)
      BY <2>1, UsageMonotone
    <3>3. ~(l.ip = ip /\ l.gpu = gpu)
      BY <1>1, <3>1 DEF IsLeaseAllowed
    <3>4. Usage(leases', ip, gpu) = Usage(few, ip, gpu) + 0
      BY <3>1, <3>2, <3>3, UsageAdd
    <3>5. Usage(few, ip, gpu) \in Nat
      BY <3>2, UsageNat
    <3>. QED
      BY <3>2, <3>4, <3>5
  <2>5. CASE \E l \in leases :
               /\ l.state = "reserved"
               /\ leases' = (leases \ {l}) \cup {[l EXCEPT !.state = "active"]}
    <3>1. PICK l \in leases :
               /\ l.state = "reserved"
               /\ leases' = (leases \ {l}) \cup {[l EXCEPT !.state = "active"]}
      BY <2>5
    <3> DEFINE new == [l EXCEPT !.state = "active"]
               rest == leases \ {l}
    <3>2. l \in Lease /\ IsLeaseAllowed(l, allowed)
      BY <1>1, <2>1, <3>1 DEF IInv, Sound
    <3>3. new \in Lease /\ new.ip = l.ip /\ new.gpu = l.gpu
      BY <3>2 DEF Lease
    <3>4. ~(new.ip = ip /\ new.gpu = gpu)
      BY <1>1, <3>2, <3>3 DEF IsLeaseAllowed
    <3>5. IsFiniteSet(rest) /\ Usage(rest, ip, gpu) <= Usage(leases, ip, gpu)
      BY <2>1, UsageMonotone
    <3>6. new \notin rest
      BY <1>1, <3>1, <3>2 DEF IInv, Sound, Lease
    <3>7. leases' = rest \cup {new}
      BY <3>1
    <3> HIDE DEF new, rest
    <3>8. Usage(leases', ip, gpu) = Usage(rest, ip, gpu) + 0
      BY <3>3, <3>4, <3>5, <3>6, <3>7, UsageAdd
    <3>9. Usage(rest, ip, gpu) \in Nat
      BY <3>5, UsageNat
    <3>. QED
      BY <3>5, <3>8, <3>9
  <2>6. CASE UNCHANGED vars
    BY <2>2, <2>6 DEF vars
  <2>. QED
    BY <1>1, <2>3, <2>4, <2>5, <2>6, LeasesStep
<1>2. IInv /\ [Next]_vars =>
        [actor = "up" /\ actor' = "up" =>
           \A ip \in Ips, gpu \in Gpus :
             ~IsAllowed(ip, gpu, allowed) /\ ~IsAllowed(ip, gpu, allowed')
               => Usage(leases', ip, gpu) <= Usage(leases, ip, gpu)]_vars
  BY <1>1
<1>. QED
  BY <1>2, InvariantHolds, PTL DEF Spec, RemovedGpusOnlyDrain

\* No operator update ends an active lease.
THEOREM UpdatesSpareActive == Spec => UpdatesSpareActiveLeases
<1>1. ASSUME [Next]_vars, actor = "up", actor' = "up", allowed' # allowed,
             NEW l \in leases, l.state = "active"
      PROVE  l \in leases'
  <2>1. ASSUME NEW view \in Views, NEW req \in Requests, Initialize(view, req)
        PROVE  leases' = leases
    BY <1>1, <2>1 DEF Initialize
  <2>2. ASSUME NEW req \in Requests, NEW reordered \in BOOLEAN, ApplyAllowlist(req, reordered)
        PROVE  l \in leases'
    BY <1>1, <2>2 DEF ApplyAllowlist, WithoutRevoked
  <2>3. ~Crash /\ ~CrashInSave /\ ~Restart
    BY <1>1 DEF Crash, CrashInSave, Restart
  <2>. QED
    BY <1>1, <2>1, <2>2, <2>3 DEF Next, Method, InitializeFails, AcquireLease, ActivateLease,
       ReleaseLease, PruneDeadLeases, vars
<1>2. [Next]_vars =>
        [actor = "up" /\ actor' = "up" /\ allowed' # allowed =>
           \A l \in leases : l.state = "active" => l \in leases']_vars
  BY <1>1
<1>. QED
  BY <1>2, PTL DEF Spec, UpdatesSpareActiveLeases

----------------------------------------------------------------------------
(***************************************************************************)
(* A trial which pinned itself holds its lease.  While the actor is down   *)
(* its table is what the checkpoint says, so the invariant speaks of the   *)
(* checkpoint; once that is torn there is no table any more, and nobody    *)
(* pins himself either.                                                    *)
(***************************************************************************)
Table == Recovered.leases

Kin(l) == l.owner = ownerOf[JobOf[l.trial]] /\ l.fraction = FractionOf[l.trial]

Holds(l, t, dev) == l.trial = t /\ l.state = "active" /\ <<l.ip, l.gpu>> = dev

TrialTypes ==
  /\ live \in SUBSET Jobs
  /\ ownerOf \in [Jobs -> Jobs \cup {NoJob}]
  /\ phase \in [Trials -> {"pending", "placed", "running", "ended"}]
  /\ device \in [Trials -> (Ips \X Gpus) \cup {NoDevice, Unpinned}]
  /\ overlooked \in SUBSET Trials

\* A trial that has not ended has a live job, and only one that runs has a
\* process.
LiveInv ==
  /\ \A t \in Trials : phase[t] # "ended" => JobOf[t] \in live
  /\ \A t \in Trials : device[t] # NoDevice => phase[t] = "running"
  /\ \A j \in Jobs : ownerOf[j] \in {j, NoJob}

\* The processes that the lease table still knows
Noticed == Pinned \ overlooked

\* A lease belongs to the job of its trial, or to nobody if that has no name.
KinInv == checkpoint # Torn => \A l \in Table : Kin(l)

HeldInv == checkpoint # Torn => \A t \in Noticed : \E l \in Table : Holds(l, t, device[t])

TrialsIInv ==
  IInv /\ TrialTypes /\ LiveInv /\ KinInv /\ HeldInv /\ PinnedLoadWithinCapacity

----------------------------------------------------------------------------
(* The table                                                               *)

\* What a step does to the table that may end leases of the trials in S: the
\* other active ones of live jobs stay, and what is new is kin to its trial.
TableStep(S) ==
  checkpoint' # Torn =>
    /\ checkpoint # Torn
    /\ \A l \in Table : /\ l.trial \notin S
                        /\ l.state = "active"
                        /\ l.owner \in live \cup {NoJob}
                        => l \in Table'
    /\ \A l \in Table' :
         \/ Kin(l)
         \/ \E k \in Table : k.trial = l.trial /\ k.owner = l.owner /\ k.fraction = l.fraction

\* While the actor is up its table is the one in memory.
LEMMA TableUp == IInv /\ actor = "up" => checkpoint # Torn /\ Table = leases
  BY DEF IInv, CheckpointCurrent, Table

\* So for a method, memory is all there is to look at.
LEMMA MethodTable ==
  ASSUME IInv, IInv', actor = "up", actor' = "up", NEW S,
         \A l \in leases : /\ l.trial \notin S
                           /\ l.state = "active"
                           /\ l.owner \in live \cup {NoJob}
                           => l \in leases',
         \A l \in leases' :
           \/ Kin(l)
           \/ \E k \in leases : k.trial = l.trial /\ k.owner = l.owner /\ k.fraction = l.fraction
  PROVE  TableStep(S)
<1>1. checkpoint # Torn /\ Table = leases
  BY TableUp
<1>2. checkpoint' # Torn /\ Table' = leases'
  BY DEF IInv, CheckpointCurrent, Table
<1>3. QED
  BY <1>1, <1>2 DEF TableStep

\* The trials whose leases are pruned if they hold one
Missed(known, listed) ==
  {u \in Trials : known /\ ownerOf[JobOf[u]] \notin listed \cup {NoJob}}

\* A scheduler that asks for a lease ends no active one, but those whose job
\* the listing lacks.
LEMMA AcquireTable ==
  ASSUME IInv, IInv', TrialTypes, LiveInv, KinInv, NEW t \in Trials, NEW known \in BOOLEAN,
         NEW listed \in SUBSET Jobs,
         AcquireLease(t, FractionOf[t], ownerOf[JobOf[t]], known, listed)
  PROVE  TableStep(Missed(known, listed))
<1> DEFINE kept == WithoutDead(leases, known, listed, {}, FALSE)
           left == {l \in kept : l.trial = t /\ l.state = "reserved"
                                    => IsLeaseAllowed(l, allowed)}
           owner == ownerOf[JobOf[t]]
<1>1. actor = "up" /\ actor' = "up"
  BY DEF AcquireLease
<1>2. \A l \in leases : Kin(l) /\ l.trial \in Trials
  BY <1>1, TableUp DEF KinInv, IInv, TypeOK, Lease
<1>3. left \subseteq leases
  BY DEF WithoutDead
<1>4. \A l \in leases : l.state = "active" /\ l.trial \notin Missed(known, listed) => l \in left
  <2>1. \A l \in leases : l.trial \notin Missed(known, listed) =>
          (known => l.owner \in listed \cup {NoJob})
    BY <1>2 DEF Missed, Kin
  <2>2. \A l \in leases : l.trial \notin Missed(known, listed) => l \in kept
    BY <2>1 DEF WithoutDead
  <2>3. QED
    BY <2>2
<1>5. \/ leases' = left
      \/ \E c \in BestCandidates(left, FractionOf[t]) :
           leases' = left \cup {NewLease(t, FractionOf[t], owner, c)}
  BY DEF AcquireLease
<1>6. \A l \in leases' : l \in leases \/ Kin(l)
  <2>1. CASE leases' = left
    BY <1>3, <2>1
  <2>2. ASSUME NEW c \in BestCandidates(left, FractionOf[t]),
               leases' = left \cup {NewLease(t, FractionOf[t], owner, c)}
        PROVE  \A l \in leases' : l \in leases \/ Kin(l)
    <3>1. Kin(NewLease(t, FractionOf[t], owner, c))
      BY DEF NewLease, Kin
    <3>2. QED
      BY <1>3, <2>2, <3>1
  <2>3. QED
    BY <1>5, <2>1, <2>2
<1>7. left \subseteq leases'
  BY <1>5
<1>8. QED
  BY <1>1, <1>4, <1>6, <1>7, MethodTable

\* An activation or a release ends a lease of its own trial at most.
LEMMA OwnTable ==
  ASSUME IInv, IInv', NEW t \in Trials, ActivateLease(t) \/ ReleaseLease(t)
  PROVE  TableStep({t})
<1>1. actor = "up" /\ actor' = "up"
  BY DEF ActivateLease, ReleaseLease
<1>2. \A l \in leases : l.trial # t => l \in leases'
  BY DEF ActivateLease, ReleaseLease
<1>3. \A l \in leases' : \E k \in leases :
        k.trial = l.trial /\ k.owner = l.owner /\ k.fraction = l.fraction
  BY DEF ActivateLease, ReleaseLease, IInv, TypeOK, Lease
<1>4. QED
  BY <1>1, <1>2, <1>3, MethodTable

LEMMA SameTable == UNCHANGED checkpoint => TableStep({})
  BY DEF TableStep, Table, Recovered

\* The operator and the crashes end no active lease.
LEMMA OperatorTable == IInv /\ IInv' /\ Operator => TableStep({})
<1> SUFFICES ASSUME IInv, IInv', Operator PROVE TableStep({})
  OBVIOUS
<1>1. ASSUME NEW view \in Views, NEW req \in Requests, Initialize(view, req)
      PROVE  TableStep({})
  <2>1. actor = "up" /\ actor' = "up"
    BY <1>1 DEF Initialize
  <2>2. leases' \subseteq leases /\ \A l \in leases : l.state = "active" => l \in leases'
    BY <1>1 DEF Initialize, WithoutRevoked
  <2>3. QED
    BY <2>1, <2>2, MethodTable
<1>2. ASSUME NEW req \in Requests, NEW reordered \in BOOLEAN, ApplyAllowlist(req, reordered)
      PROVE  TableStep({})
  <2>1. actor = "up" /\ actor' = "up"
    BY <1>2 DEF ApplyAllowlist
  <2>2. leases' \subseteq leases /\ \A l \in leases : l.state = "active" => l \in leases'
    BY <1>2 DEF ApplyAllowlist, WithoutRevoked
  <2>3. QED
    BY <2>1, <2>2, MethodTable
<1>3. ASSUME NEW view \in Views, NEW req \in Requests, InitializeFails(view, req)
      PROVE  TableStep({})
  BY <1>3, SameTable DEF InitializeFails
<1>4. CASE Crash \/ Restart
  BY <1>4, SameTable DEF Crash, Restart
<1>5. CASE CrashInSave
  BY <1>5 DEF CrashInSave, TableStep
<1>6. QED
  BY <1>1, <1>2, <1>3, <1>4, <1>5 DEF Operator

----------------------------------------------------------------------------
(* The trials                                                              *)

\* Every step of a trial or an operator is one of the actor, or none.
LEMMA StepOfActor == TrialTypes /\ [TrialsNext]_allVars => [Next]_vars
<1> SUFFICES ASSUME TrialTypes, [TrialsNext]_allVars PROVE [Next]_vars
  OBVIOUS
<1>1. ASSUME NEW t \in Trials, NEW known \in BOOLEAN, NEW listed \in SUBSET Jobs,
             ChooseTrial(t, known, listed) \/ LoseChoice(t, known, listed)
      PROVE  Next
  <2>1. /\ FractionOf[t] \in Fractions
        /\ ownerOf[JobOf[t]] \in Jobs \cup {NoJob}
    BY TrialsAssumption DEF TrialTypes
  <2>2. AcquireLease(t, FractionOf[t], ownerOf[JobOf[t]], known, listed)
    BY <1>1 DEF ChooseTrial, LoseChoice, AskForLease
  <2>3. QED
    BY <2>1, <2>2 DEF Next, Method
<1>2. ASSUME NEW t \in Trials,
             StartTrial(t) \/ LoseActivation(t) \/ EndTrial(t) \/ RetryTrial(t) \/ PauseTrial(t)
      PROVE  [Next]_vars
  <2>1. ActivateLease(t) \/ ReleaseLease(t) \/ UNCHANGED actorVars
    BY <1>2 DEF StartTrial, LoseActivation, EndTrial, RetryTrial, PauseTrial
  <2>2. QED
    BY <2>1 DEF Next, Method, actorVars, vars
<1>3. ASSUME NEW j \in Jobs, JobDies(j) PROVE UNCHANGED vars
  BY <1>3 DEF JobDies, actorVars, vars
<1>4. CASE Operator
  BY <1>4 DEF Operator, Next, Method
<1>5. CASE UNCHANGED allVars
  BY <1>5 DEF allVars, actorVars, vars
<1>6. QED
  BY <1>1, <1>2, <1>3, <1>4, <1>5 DEF TrialsNext

\* What the processes in P, pinned by dev, ask for on a GPU
LoadOn(P, dev, ip, gpu) ==
  Cardinality({p \in P \X (1 .. Full) :
                 dev[p[1]] = <<ip, gpu>> /\ p[2] <= FractionOf[p[1]]})

\* Leases that are active, on different trials and within the capacity of a
\* GPU bound what the processes pinned by them ask for.
LEMMA LoadFits ==
  ASSUME NEW ls \in SUBSET Lease, NEW allow, Sound(ls, allow), NEW P, NEW dev,
         \A t \in P : \E l \in ls : Holds(l, t, dev[t]) /\ Kin(l),
         NEW ip \in Ips, NEW gpu \in Gpus
  PROVE  LoadOn(P, dev, ip, gpu) <= Full
<1> DEFINE load == {p \in P \X (1 .. Full) :
                      dev[p[1]] = <<ip, gpu>> /\ p[2] <= FractionOf[p[1]]}
           leaseOf(t) == CHOOSE l \in ls : Holds(l, t, dev[t]) /\ Kin(l)
           f == [p \in load |-> <<leaseOf(p[1]), p[2]>>]
<1>1. ASSUME NEW p \in load
      PROVE  /\ leaseOf(p[1]) \in ls /\ Holds(leaseOf(p[1]), p[1], dev[p[1]]) /\ Kin(leaseOf(p[1]))
             /\ p[2] \in 1 .. Full
             /\ dev[p[1]] = <<ip, gpu>> /\ p[2] <= FractionOf[p[1]]
  <2>1. p[1] \in P /\ p[2] \in 1 .. Full
    OBVIOUS
  <2>2. dev[p[1]] = <<ip, gpu>> /\ p[2] <= FractionOf[p[1]]
    OBVIOUS
  <2>3. \E l \in ls : Holds(l, p[1], dev[p[1]]) /\ Kin(l)
    BY <2>1
  <2>4. QED
    BY <2>1, <2>2, <2>3
<1> HIDE DEF leaseOf
<1>2. ASSUME NEW p \in load PROVE f[p] \in UnitsOn(ls, ip, gpu)
  BY <1>1 DEF UnitsOn, Holds, Kin
<1>3. ASSUME NEW p \in load, NEW q \in load, f[p] = f[q] PROVE p = q
  <2>1. leaseOf(p[1]) = leaseOf(q[1]) /\ p[2] = q[2]
    BY <1>3
  <2>2. leaseOf(p[1]).trial = p[1] /\ leaseOf(q[1]).trial = q[1]
    BY <1>1 DEF Holds
  <2>3. p = <<p[1], p[2]>> /\ q = <<q[1], q[2]>>
    OBVIOUS
  <2>4. QED
    BY <2>1, <2>2, <2>3
<1>4. f \in Injection(load, UnitsOn(ls, ip, gpu))
  BY <1>2, <1>3 DEF Injection, IsInjective
<1>5. IsFiniteSet(UnitsOn(ls, ip, gpu)) /\ Usage(ls, ip, gpu) \in Nat
  BY UsageNat DEF Sound
<1>6. IsFiniteSet(load) /\ Cardinality(load) <= Usage(ls, ip, gpu)
  BY <1>4, <1>5, FS_Injection DEF Usage
<1>7. Cardinality(load) \in Nat
  BY <1>6, FS_CardinalityType
<1>8. Usage(ls, ip, gpu) <= Full
  BY DEF Sound
<1>9. LoadOn(P, dev, ip, gpu) = Cardinality(load)
  BY DEF LoadOn
<1>10. QED
  BY <1>5, <1>6, <1>7, <1>8, <1>9, UnitsAssumption

----------------------------------------------------------------------------
(* The invariant                                                           *)

LEMMA TrialsInitIInv == TrialsInit => TrialsIInv
<1> SUFFICES ASSUME TrialsInit PROVE TrialsIInv
  OBVIOUS
<1>1. IInv
  BY InitIInv DEF TrialsInit
<1>2. TrialTypes /\ LiveInv
  BY TrialsAssumption DEF TrialsInit, TrialTypes, LiveInv
<1>3. Pinned = {}
  BY TrialsAssumption DEF TrialsInit, Pinned
<1>4. Table = {}
  BY DEF TrialsInit, Init, Table, Recovered, Blank
<1>5. KinInv /\ HeldInv
  BY <1>3, <1>4 DEF KinInv, HeldInv, Noticed
<1>6. PinnedLoadWithinCapacity
  <2>1. ASSUME NEW ip \in Ips, NEW gpu \in Gpus
        PROVE  {p \in (Pinned \ overlooked) \X (1 .. Full) :
                  device[p[1]] = <<ip, gpu>> /\ p[2] <= FractionOf[p[1]]} = {}
    BY <1>3
  <2>2. QED
    BY <2>1, FS_EmptySet, UnitsAssumption DEF PinnedLoadWithinCapacity
<1>7. QED
  BY <1>1, <1>2, <1>5, <1>6 DEF TrialsIInv

\* A trial that starts pins itself to an active lease of its own on a GPU that
\* is allowed, or leaves its devices alone.
LEMMA StartEffect ==
  ASSUME IInv, IInv', NEW t \in Trials, StartTrial(t)
  PROVE  \/ Start(t, Unpinned)
         \/ /\ actor = "up" /\ actor' = "up"
            /\ \E l \in leases' : /\ Start(t, <<l.ip, l.gpu>>)
                                  /\ l.trial = t /\ l.state = "active"
                                  /\ IsLeaseAllowed(l, allowed)
<1>1. CASE ActivateLease(t) /\ \E l \in leases' : l.trial = t /\ Start(t, <<l.ip, l.gpu>>)
  <2>1. PICK k \in leases :
          /\ k.trial = t
          /\ \/ leases' = leases \ {k}
             \/ /\ IsLeaseAllowed(k, allowed)
                /\ leases' = (leases \ {k}) \cup {[k EXCEPT !.state = "active"]}
    BY <1>1 DEF ActivateLease
  <2>2. \A l \in leases : l.trial = t => l = k
    BY <2>1 DEF IInv, Sound
  <2>3. PICK l \in leases' : l.trial = t /\ Start(t, <<l.ip, l.gpu>>)
    BY <1>1
  <2>4. IsLeaseAllowed(k, allowed) /\ l = [k EXCEPT !.state = "active"]
    BY <2>1, <2>2, <2>3
  <2>5. l.state = "active" /\ IsLeaseAllowed(l, allowed)
    BY <2>4 DEF IInv, TypeOK, Lease, IsLeaseAllowed
  <2>6. actor = "up" /\ actor' = "up"
    BY <1>1 DEF ActivateLease
  <2>7. QED
    BY <2>3, <2>5, <2>6
<1>2. CASE /\ actor = "up" /\ UNCHANGED actorVars
           /\ \E l \in leases : /\ l.trial = t
                                /\ l.state = "active"
                                /\ IsLeaseAllowed(l, allowed)
                                /\ Start(t, <<l.ip, l.gpu>>)
  BY <1>2 DEF actorVars
<1>3. CASE Start(t, Unpinned)
  BY <1>3
<1>4. QED
  BY <1>1, <1>2, <1>3 DEF StartTrial

\* The trials' own variables, whatever the actor does.
LEMMA StepTrials ==
  IInv /\ IInv' /\ TrialTypes /\ LiveInv /\ [TrialsNext]_allVars => TrialTypes' /\ LiveInv'
<1> SUFFICES ASSUME IInv, IInv', TrialTypes, LiveInv, [TrialsNext]_allVars
             PROVE  TrialTypes' /\ LiveInv'
  OBVIOUS
<1> USE DEF TrialTypes, LiveInv
<1>1. ASSUME NEW t \in Trials, NEW known \in BOOLEAN, NEW listed \in SUBSET Jobs,
             ChooseTrial(t, known, listed) \/ LoseChoice(t, known, listed)
      PROVE  TrialTypes' /\ LiveInv'
  BY <1>1 DEF ChooseTrial, LoseChoice, AskForLease, Pinned
<1>2. ASSUME NEW t \in Trials, StartTrial(t) PROVE TrialTypes' /\ LiveInv'
  <2>1. PICK dev \in (Ips \X Gpus) \cup {Unpinned} : phase[t] = "placed" /\ Start(t, dev)
    <3>1. \A l \in leases' : <<l.ip, l.gpu>> \in Ips \X Gpus
      BY DEF IInv, TypeOK, Lease
    <3>2. phase[t] = "placed"
      BY <1>2 DEF StartTrial
    <3>3. QED
      BY <1>2, <3>1, <3>2, StartEffect
  <2>2. QED
    BY <2>1 DEF Start
<1>3. ASSUME NEW t \in Trials, LoseActivation(t) PROVE TrialTypes' /\ LiveInv'
  BY <1>3 DEF LoseActivation, trialVars
<1>4. ASSUME NEW t \in Trials, EndTrial(t) \/ RetryTrial(t) \/ PauseTrial(t)
      PROVE  TrialTypes' /\ LiveInv'
  <2>1. PICK where \in {"pending", "ended"} :
          Leave(t, where) /\ (where = "pending" => phase[t] = "running")
    BY <1>4 DEF EndTrial, RetryTrial, PauseTrial
  <2>2. QED
    BY <2>1 DEF Leave
<1>5. ASSUME NEW j \in Jobs, JobDies(j) PROVE TrialTypes' /\ LiveInv'
  BY <1>5, TrialsAssumption DEF JobDies
<1>6. CASE Operator \/ UNCHANGED allVars
  BY <1>6 DEF Operator, allVars, trialVars
<1>7. QED
  BY <1>1, <1>2, <1>3, <1>4, <1>5, <1>6 DEF TrialsNext

\* The processes that go on, where they are, and whose leases the step spares,
\* hold theirs after it.
LEMMA HeldAfter ==
  ASSUME TrialsIInv, NEW S, TableStep(S), ownerOf' = ownerOf,
         \A t \in Noticed' : t \in Noticed /\ device'[t] = device[t] /\ t \notin S
  PROVE  KinInv' /\ HeldInv' /\ PinnedLoadWithinCapacity'
<1> USE DEF TrialsIInv
<1>1. KinInv'
  BY DEF KinInv, TableStep, Kin
<1>2. HeldInv'
  <2>1. ASSUME checkpoint' # Torn, NEW t \in Noticed'
        PROVE  \E l \in Table' : Holds(l, t, device'[t])
    <3>1. t \in Noticed /\ device'[t] = device[t] /\ t \notin S /\ checkpoint # Torn
      BY <2>1 DEF TableStep
    <3>2. PICK l \in Table : Holds(l, t, device[t])
      BY <3>1 DEF HeldInv
    <3>3. l.owner = ownerOf[JobOf[t]]
      BY <3>1, <3>2 DEF KinInv, Kin, Holds
    <3>4. JobOf[t] \in live /\ ownerOf[JobOf[t]] \in {JobOf[t], NoJob}
      BY <3>1, TrialsAssumption DEF Noticed, Pinned, LiveInv
    <3>5. l \in Table'
      BY <2>1, <3>1, <3>2, <3>3, <3>4 DEF TableStep, Holds
    <3>6. QED
      BY <3>1, <3>2, <3>5
  <2>2. QED
    BY <2>1 DEF HeldInv
<1>3. PinnedLoadWithinCapacity'
  <2> SUFFICES ASSUME NEW ip \in Ips, NEW gpu \in Gpus
               PROVE  Cardinality({p \in Noticed' \X (1 .. Full) : device'[p[1]] = <<ip, gpu>>
                                     /\ p[2] <= FractionOf[p[1]]}) <= Full
    BY DEF PinnedLoadWithinCapacity, Noticed
  <2> DEFINE load == {p \in Noticed \X (1 .. Full) : device[p[1]] = <<ip, gpu>>
                                                       /\ p[2] <= FractionOf[p[1]]}
             after == {p \in Noticed' \X (1 .. Full) : device'[p[1]] = <<ip, gpu>>
                                                         /\ p[2] <= FractionOf[p[1]]}
  <2>1. after \subseteq load
    OBVIOUS
  <2>2. IsFiniteSet(load)
    <3>1. IsFiniteSet(Noticed) /\ IsFiniteSet(1 .. Full)
      BY FS_Subset, FS_Interval, NamesAssumption, UnitsAssumption DEF Noticed, Pinned
    <3>2. IsFiniteSet(Noticed \X (1 .. Full))
      BY <3>1, FS_Product
    <3>3. QED
      BY <3>2, FS_Subset
  <2>3. Cardinality(load) <= Full
    BY DEF PinnedLoadWithinCapacity, Noticed
  <2>4. Cardinality(after) <= Cardinality(load)
    BY <2>1, <2>2, FS_Subset
  <2>5. Cardinality(after) \in Nat /\ Cardinality(load) \in Nat
    BY <2>1, <2>2, FS_Subset, FS_CardinalityType
  <2>6. QED
    BY <2>3, <2>4, <2>5, UnitsAssumption
<1>4. QED
  BY <1>1, <1>2, <1>3

\* A process that is new holds the lease it was pinned to, and what all of
\* them ask for fits since the leases do.
LEMMA HeldAtStart ==
  ASSUME TrialsIInv, IInv', NEW t \in Trials, StartTrial(t), TableStep({t})
  PROVE  KinInv' /\ HeldInv' /\ PinnedLoadWithinCapacity'
<1> USE DEF TrialsIInv
<1>0. ownerOf' = ownerOf /\ overlooked' = overlooked
  BY StartEffect DEF Start
<1>1. device[t] = NoDevice /\ t \notin Pinned
  BY TrialsAssumption DEF StartTrial, TrialTypes, LiveInv, Pinned
<1>2. CASE Start(t, Unpinned)
  <2>1. \A u \in Noticed' : u \in Noticed /\ device'[u] = device[u] /\ u \notin {t}
    BY <1>0, <1>2, TrialsAssumption DEF Start, Pinned, TrialTypes, Noticed
  <2>2. QED
    BY <1>0, <2>1, HeldAfter
<1>3. CASE /\ actor = "up" /\ actor' = "up"
           /\ \E l \in leases' : /\ Start(t, <<l.ip, l.gpu>>)
                                 /\ l.trial = t /\ l.state = "active"
  <2>1. checkpoint' # Torn /\ Table' = leases'
    BY <1>3 DEF IInv, CheckpointCurrent, Table
  <2>2. KinInv'
    BY <1>0 DEF KinInv, TableStep, Kin
  <2>3. ASSUME NEW u \in Noticed' PROVE \E l \in leases' : Holds(l, u, device'[u])
    <3>1. CASE u = t
      BY <1>3, <3>1 DEF Start, TrialTypes, Holds
    <3>2. CASE u # t
      <4>1. u \in Noticed /\ device'[u] = device[u]
        BY <1>0, <1>3, <3>2 DEF Start, Pinned, TrialTypes, Noticed
      <4>2. checkpoint # Torn
        BY <2>1 DEF TableStep
      <4>3. PICK l \in Table : Holds(l, u, device[u])
        BY <4>1, <4>2 DEF HeldInv
      <4>4. l.owner \in {JobOf[u], NoJob} /\ JobOf[u] \in live
        BY <4>1, <4>2, <4>3, TrialsAssumption DEF KinInv, Kin, Holds, Noticed, Pinned, LiveInv
      <4>5. l \in Table'
        BY <2>1, <3>2, <4>3, <4>4 DEF TableStep, Holds
      <4>6. QED
        BY <2>1, <4>1, <4>3, <4>5
    <3>3. QED
      BY <3>1, <3>2
  <2>4. HeldInv'
    BY <2>1, <2>3 DEF HeldInv
  <2>5. \A u \in Noticed' : \E l \in leases' : Holds(l, u, device'[u]) /\ Kin(l)
    BY <1>0, <2>1, <2>2, <2>3 DEF KinInv, Kin
  <2>6. leases' \in SUBSET Lease /\ Sound(leases', allowed')
    BY DEF IInv, TypeOK
  <2>7. ASSUME NEW ip \in Ips, NEW gpu \in Gpus
        PROVE  LoadOn(Noticed', device', ip, gpu) <= Full
    BY <2>5, <2>6, LoadFits
  <2>8. PinnedLoadWithinCapacity'
    BY <2>7 DEF PinnedLoadWithinCapacity, Noticed, LoadOn
  <2>9. QED
    BY <2>2, <2>4, <2>8
<1>4. QED
  BY <1>2, <1>3, StartEffect

LEMMA TrialsNextIInv == TrialsIInv /\ [TrialsNext]_allVars => TrialsIInv'
<1> SUFFICES ASSUME TrialsIInv, [TrialsNext]_allVars PROVE TrialsIInv'
  OBVIOUS
<1> DEFINE Rest == KinInv' /\ HeldInv' /\ PinnedLoadWithinCapacity'
<1>1. IInv /\ IInv' /\ TrialTypes /\ LiveInv
  BY StepOfActor, NextIInv DEF TrialsIInv
<1>2. TrialTypes' /\ LiveInv'
  BY <1>1, StepTrials
<1> SUFFICES Rest
  BY <1>1, <1>2 DEF TrialsIInv
<1>3. ASSUME NEW t \in Trials, NEW known \in BOOLEAN, NEW listed \in SUBSET Jobs,
             ChooseTrial(t, known, listed) \/ LoseChoice(t, known, listed)
      PROVE  Rest
  <2>1. /\ AcquireLease(t, FractionOf[t], ownerOf[JobOf[t]], known, listed)
        /\ device' = device /\ ownerOf' = ownerOf
        /\ overlooked' = overlooked \cup
             {u \in Pinned : known /\ ownerOf[JobOf[u]] \notin listed \cup {NoJob}}
    BY <1>3 DEF ChooseTrial, LoseChoice, AskForLease
  <2>2. TableStep(Missed(known, listed))
    BY <1>1, <2>1, AcquireTable DEF TrialsIInv
  <2>3. \A u \in Noticed' : /\ u \in Noticed /\ device'[u] = device[u]
                            /\ u \notin Missed(known, listed)
    BY <2>1 DEF Noticed, Pinned, Missed
  <2>4. QED
    BY <2>1, <2>2, <2>3, HeldAfter
<1>4. ASSUME NEW t \in Trials, StartTrial(t) PROVE Rest
  <2>1. ActivateLease(t) \/ UNCHANGED checkpoint
    BY <1>4 DEF StartTrial, actorVars
  <2>2. CASE ActivateLease(t)
    <3>1. TableStep({t})
      BY <1>1, <2>2, OwnTable
    <3>2. QED
      BY <1>1, <1>4, <3>1, HeldAtStart
  <2>3. CASE UNCHANGED checkpoint
    <3>1. TableStep({t})
      BY <2>3 DEF TableStep, Table, Recovered
    <3>2. QED
      BY <1>1, <1>4, <3>1, HeldAtStart
  <2>4. QED
    BY <2>1, <2>2, <2>3
<1>5. ASSUME NEW t \in Trials, LoseActivation(t) PROVE Rest
  <2>1. TableStep({t})
    BY <1>1, <1>5, OwnTable DEF LoseActivation
  <2>2. t \notin Pinned
    BY <1>1, <1>5, TrialsAssumption DEF LoseActivation, LiveInv, Pinned
  <2>3. \A u \in Noticed' : u \in Noticed /\ device'[u] = device[u] /\ u \notin {t}
    BY <1>5, <2>2 DEF LoseActivation, trialVars, Pinned, Noticed
  <2>4. QED
    BY <1>5, <2>1, <2>3, HeldAfter DEF LoseActivation, trialVars
<1>6. ASSUME NEW t \in Trials, EndTrial(t) \/ RetryTrial(t) \/ PauseTrial(t) PROVE Rest
  <2>1. ReleaseLease(t) \/ UNCHANGED checkpoint
    BY <1>6 DEF EndTrial, RetryTrial, PauseTrial, actorVars
  <2>2. /\ device' = [device EXCEPT ![t] = NoDevice]
        /\ overlooked' = overlooked \ {t} /\ ownerOf' = ownerOf
    BY <1>6 DEF EndTrial, RetryTrial, PauseTrial, Leave
  <2>3. \A u \in Noticed' : u \in Noticed /\ device'[u] = device[u] /\ u \notin {t}
    BY <1>1, <2>2, TrialsAssumption DEF Pinned, TrialTypes, Noticed
  <2>4. CASE ReleaseLease(t)
    BY <1>1, <2>2, <2>3, <2>4, OwnTable, HeldAfter
  <2>5. CASE UNCHANGED checkpoint
    BY <2>2, <2>3, <2>5, SameTable, HeldAfter
  <2>6. QED
    BY <2>1, <2>4, <2>5
<1>7. ASSUME NEW j \in Jobs, JobDies(j) PROVE Rest
  <2>1. UNCHANGED <<checkpoint, ownerOf>>
    BY <1>7 DEF JobDies, actorVars
  <2>2. \A u \in Noticed' : u \in Noticed /\ device'[u] = device[u] /\ u \notin {}
    BY <1>7, TrialsAssumption DEF JobDies, Pinned, Noticed
  <2>3. QED
    BY <2>1, <2>2, SameTable, HeldAfter
<1>8. CASE Operator
  <2>1. \A u \in Noticed' : u \in Noticed /\ device'[u] = device[u] /\ u \notin {}
    BY <1>8 DEF Operator, trialVars, Pinned, Noticed
  <2>2. QED
    BY <1>1, <1>8, <2>1, OperatorTable, HeldAfter DEF Operator, trialVars
<1>9. CASE UNCHANGED allVars
  <2>1. \A u \in Noticed' : u \in Noticed /\ device'[u] = device[u] /\ u \notin {}
    BY <1>9 DEF allVars, trialVars, Pinned, Noticed
  <2>2. UNCHANGED <<checkpoint, ownerOf>>
    BY <1>9 DEF allVars, actorVars, trialVars
  <2>3. QED
    BY <2>1, <2>2, SameTable, HeldAfter
<1>10. QED
  BY <1>3, <1>4, <1>5, <1>6, <1>7, <1>8, <1>9 DEF TrialsNext

LEMMA TrialsIInvAlways == TrialsSpec => []TrialsIInv
  BY TrialsInitIInv, TrialsNextIInv, PTL DEF TrialsSpec

----------------------------------------------------------------------------
\* PinnedProcessHoldsLease (run_tune_trainable and the scheduler's hooks): a
\* process that pinned itself to a GPU holds the active lease on it for as
\* long as it runs, unless a listing of jobs was answered without its job.
THEOREM ProcessHoldsItsLease == TrialsSpec => []PinnedProcessHoldsLease
<1>1. TrialsIInv => PinnedProcessHoldsLease
  BY TableUp DEF TrialsIInv, HeldInv, Holds, Noticed, PinnedProcessHoldsLease
<1>2. QED
  BY <1>1, TrialsIInvAlways, PTL

\* PinnedLoadWithinCapacity: the processes pinned to a GPU never ask for more
\* than the whole of it, the actor being up or not, those apart that a listing
\* left out.
THEOREM LoadWithinCapacity == TrialsSpec => []PinnedLoadWithinCapacity
<1>1. TrialsIInv => PinnedLoadWithinCapacity
  BY DEF TrialsIInv
<1>2. QED
  BY <1>1, TrialsIInvAlways, PTL

\* StartsOnlyWhereAllowed (activate_lease): no trial is started on a GPU that
\* the operator had taken away before.
THEOREM StartsWhereAllowed == TrialsSpec => StartsOnlyWhereAllowed
<1>1. ASSUME TrialsIInv, TrialsIInv', [TrialsNext]_allVars, NEW t \in Trials,
             phase[t] = "placed", device'[t] \in Ips \X Gpus
      PROVE  IsAllowed(device'[t][1], device'[t][2], allowed)
  <2>1. device[t] = NoDevice
    BY <1>1 DEF TrialsIInv, LiveInv
  <2>2. device'[t] \notin {NoDevice, Unpinned}
    BY <1>1, TrialsAssumption
  <2>3. StartTrial(t)
    <3>1. device'[t] # device[t]
      BY <2>1, <2>2
    <3>2. ASSUME NEW u \in Trials, u # t PROVE ~StartTrial(u)
      <4>1. SUFFICES ASSUME StartTrial(u) PROVE device'[t] = device[t]
        BY <3>1
      <4>2. PICK dev : Start(u, dev)
        BY <4>1, <1>1, StartEffect DEF TrialsIInv
      <4>3. QED
        BY <3>2, <4>2, <1>1 DEF Start, TrialsIInv, TrialTypes
    <3>3. ASSUME NEW u \in Trials, EndTrial(u) \/ RetryTrial(u) \/ PauseTrial(u) PROVE FALSE
      <4>1. device' = [device EXCEPT ![u] = NoDevice]
        BY <3>3 DEF EndTrial, RetryTrial, PauseTrial, Leave
      <4>2. QED
        BY <4>1, <2>1, <2>2, <1>1 DEF TrialsIInv, TrialTypes
    <3>4. ASSUME NEW j \in Jobs, JobDies(j) PROVE FALSE
      BY <3>4, <2>1, <2>2 DEF JobDies
    <3>5. ASSUME device' = device PROVE FALSE
      BY <3>1, <3>5
    <3>6. QED
      BY <1>1, <3>2, <3>3, <3>4, <3>5 DEF TrialsNext, ChooseTrial, LoseChoice, AskForLease, LoseActivation,
                                          Operator, trialVars, allVars
  <2>4. PICK l \in leases' : Start(t, <<l.ip, l.gpu>>) /\ IsLeaseAllowed(l, allowed)
    <3>1. ~Start(t, Unpinned)
      BY <2>2, <1>1 DEF Start, TrialsIInv, TrialTypes
    <3>2. QED
      BY <1>1, <2>3, <3>1, StartEffect DEF TrialsIInv
  <2>5. device'[t] = <<l.ip, l.gpu>>
    BY <2>4, <1>1 DEF Start, TrialsIInv, TrialTypes
  <2>6. QED
    BY <2>4, <2>5 DEF IsLeaseAllowed
<1>2. TrialsIInv /\ TrialsIInv' /\ [TrialsNext]_allVars =>
        [\A t \in Trials :
           phase[t] = "placed" /\ device'[t] \in Ips \X Gpus
             => IsAllowed(device'[t][1], device'[t][2], allowed)]_allVars
  BY <1>1
<1>3. QED
  BY <1>2, TrialsIInvAlways, PTL DEF TrialsSpec, StartsOnlyWhereAllowed

----------------------------------------------------------------------------
(* The maintenance lock.  The actor decides on three counters, the         *)
(* abstract lock on sets of clients: the invariant says that the counters  *)
(* count.                                                                  *)

Inside == In(worker, {"inside", "gone"})
Asking == In(upkeep, {"waiting", "ready"})
Running == In(upkeep, {"running"})

\* What the actor counts are the clients it let in, those that wait for
\* maintenance, and the one that runs it.
CountersCount ==
  /\ holders = Cardinality(Inside)
  /\ pending = Cardinality(Asking)
  /\ active <=> Running # {}
  /\ \A m, n \in Running : m = n

CountInv == LockTypes /\ CountersCount

----------------------------------------------------------------------------
(* What a step does to the sets and to the counters.                       *)

Enters(w) ==
  /\ w \in Workers \ Inside /\ WorkerMayEnter
  /\ Inside' = Inside \cup {w} /\ holders' = holders + 1
  /\ UNCHANGED <<Asking, pending, Running, active>>

Exits(w) ==
  /\ w \in Inside
  /\ Inside' = Inside \ {w} /\ holders' = holders - 1
  /\ UNCHANGED <<Asking, pending, Running, active>>

Asks(m) ==
  /\ m \in Maintainers \ (Asking \cup Running)
  /\ Asking' = Asking \cup {m} /\ pending' = pending + 1
  /\ UNCHANGED <<Inside, holders, Running, active>>

GivesUp(m) ==
  /\ m \in Asking
  /\ Asking' = Asking \ {m} /\ pending' = pending - 1
  /\ UNCHANGED <<Inside, holders, Running, active>>

Runs(m) ==
  /\ m \in Maintainers /\ MaintenanceMayRun
  /\ \/ m \notin Asking /\ UNCHANGED <<Asking, pending>>
     \/ m \in Asking /\ Asking' = Asking \ {m} /\ pending' = pending - 1
  /\ Running' = Running \cup {m} /\ active' = TRUE
  /\ UNCHANGED <<Inside, holders>>

Finishes(m) ==
  /\ m \in Running
  /\ Running' = Running \ {m} /\ active' = FALSE
  /\ UNCHANGED <<Inside, holders, Asking, pending>>

Forgets ==
  /\ Inside' = {} /\ Asking' = {} /\ Running' = {}
  /\ holders' = 0 /\ pending' = 0 /\ active' = FALSE

Quiet == UNCHANGED <<Inside, holders, Asking, pending, Running, active>>

Effect ==
  \/ \E w \in Workers : Enters(w) \/ Exits(w)
  \/ \E m \in Maintainers : Asks(m) \/ GivesUp(m) \/ Runs(m) \/ Finishes(m)
  \/ Forgets \/ Quiet

\* The steps of a worker: it enters or exits, or only the waiting changes.
LEMMA WorkerEffect ==
  ASSUME LockTypes, NEW w \in Workers,
         AcquireWorker(w) \/ AcquireTimesOut(w) \/ ReleaseWorker(w) \/ WorkerDies(w) \/ LeaveStale(w)
  PROVE  Enters(w) \/ Exits(w) \/ Quiet
<1> USE DEF LockTypes, Inside, Asking, Running, In
<1>1. CASE AcquireWorker(w)
  BY <1>1 DEF AcquireWorker, Enters, Quiet
<1>2. CASE AcquireTimesOut(w)
  BY <1>2 DEF AcquireTimesOut, Quiet
<1>3. CASE ReleaseWorker(w)
  BY <1>3 DEF ReleaseWorker, Notified, Exits
<1>4. CASE WorkerDies(w)
  BY <1>4 DEF WorkerDies, Quiet
<1>5. CASE LeaveStale(w)
  BY <1>5 DEF LeaveStale, Quiet
<1>6. QED
  BY <1>1, <1>2, <1>3, <1>4, <1>5

\* The steps of a maintenance.
LEMMA MaintenanceEffect ==
  ASSUME LockTypes, NEW m \in Maintainers,
         RequestMaintenance(m) \/ ResumeMaintenance(m) \/ MaintenanceTimesOut(m) \/ FinishMaintenance(m)
  PROVE  Asks(m) \/ GivesUp(m) \/ Runs(m) \/ Finishes(m) \/ Quiet
<1> USE DEF LockTypes, Inside, Asking, Running, In
<1>1. CASE RequestMaintenance(m)
  BY <1>1 DEF RequestMaintenance, Notified, Asks, Runs
<1>2. CASE ResumeMaintenance(m)
  BY <1>2 DEF ResumeMaintenance, Notified, Runs, Quiet
<1>3. CASE MaintenanceTimesOut(m)
  BY <1>3 DEF MaintenanceTimesOut, Notified, GivesUp
<1>4. CASE FinishMaintenance(m)
  BY <1>4 DEF FinishMaintenance, Notified, Finishes
<1>5. QED
  BY <1>1, <1>2, <1>3, <1>4

LEMMA StepEffect == LockTypes /\ [LockNext]_lockVars => Effect
<1> SUFFICES ASSUME LockTypes, [LockNext]_lockVars PROVE Effect
  OBVIOUS
<1>1. ASSUME NEW w \in Workers,
             AcquireWorker(w) \/ AcquireTimesOut(w) \/ ReleaseWorker(w) \/ WorkerDies(w) \/ LeaveStale(w)
      PROVE  Effect
  BY <1>1, WorkerEffect DEF Effect
<1>2. ASSUME NEW m \in Maintainers,
             RequestMaintenance(m) \/ ResumeMaintenance(m) \/ MaintenanceTimesOut(m) \/ FinishMaintenance(m)
      PROVE  Effect
  BY <1>2, MaintenanceEffect DEF Effect
<1>3. CASE LoseActor
  <2>1. Inside' = {} /\ Asking' = {} /\ Running' = {}
    BY <1>3 DEF LoseActor, LockTypes, Inside, Asking, Running, In
  <2>2. QED
    BY <1>3, <2>1 DEF LoseActor, Effect, Forgets
<1>4. CASE UNCHANGED lockVars
  BY <1>4 DEF lockVars, Effect, Quiet, Inside, Asking, Running, In
<1>5. QED
  BY <1>1, <1>2, <1>3, <1>4 DEF LockNext

----------------------------------------------------------------------------
(* The counters                                                            *)

\* There are finitely many clients.
LEMMA Finite ==
  ASSUME LockTypes
  PROVE  /\ Inside \subseteq Workers /\ Asking \subseteq Maintainers /\ Running \subseteq Maintainers
         /\ IsFiniteSet(Inside) /\ IsFiniteSet(Asking)
<1>1. /\ Inside \subseteq Workers /\ Asking \subseteq Maintainers /\ Running \subseteq Maintainers
  BY DEF LockTypes, Inside, Asking, Running, In
<1>2. QED
  BY <1>1, FS_Subset, ClientsAssumption

LEMMA InitCounts == LockInit => CountInv
<1> SUFFICES ASSUME LockInit PROVE CountInv
  OBVIOUS
<1>1. Inside = {} /\ Asking = {} /\ Running = {}
  BY DEF LockInit, Inside, Asking, Running, In
<1>2. LockTypes
  <2>1. 0 \in 0 .. MaxCrashes
    BY ClientsAssumption
  <2>2. QED
    BY <2>1 DEF LockInit, LockTypes
<1>3. CountersCount
  BY <1>1, FS_EmptySet DEF LockInit, CountersCount
<1>4. QED
  BY <1>2, <1>3 DEF CountInv

\* A counter goes with its set.
LEMMA EffectCounts == CountInv /\ Effect => CountersCount'
<1> SUFFICES ASSUME CountInv, Effect PROVE CountersCount'
  OBVIOUS
<1>1. IsFiniteSet(Inside) /\ IsFiniteSet(Asking)
  BY Finite DEF CountInv
<1>2. holders \in Nat /\ pending \in Nat /\ CountersCount
  BY DEF CountInv, LockTypes
<1>3. ASSUME NEW w \in Workers, Enters(w) PROVE CountersCount'
  BY <1>1, <1>2, <1>3, FS_AddElement DEF Enters, CountersCount
<1>4. ASSUME NEW w \in Workers, Exits(w) PROVE CountersCount'
  BY <1>1, <1>2, <1>4, FS_RemoveElement DEF Exits, CountersCount
<1>5. ASSUME NEW m \in Maintainers, Asks(m) PROVE CountersCount'
  BY <1>1, <1>2, <1>5, FS_AddElement DEF Asks, CountersCount
<1>6. ASSUME NEW m \in Maintainers, GivesUp(m) PROVE CountersCount'
  BY <1>1, <1>2, <1>6, FS_RemoveElement DEF GivesUp, CountersCount
<1>7. ASSUME NEW m \in Maintainers, Runs(m) PROVE CountersCount'
  BY <1>1, <1>2, <1>7, FS_RemoveElement DEF Runs, MaintenanceMayRun, CountersCount
<1>8. ASSUME NEW m \in Maintainers, Finishes(m) PROVE CountersCount'
  BY <1>2, <1>8 DEF Finishes, CountersCount
<1>9. CASE Forgets
  BY <1>9, FS_EmptySet DEF Forgets, CountersCount
<1>10. CASE Quiet
  BY <1>2, <1>10 DEF Quiet, CountersCount
<1>11. QED
  BY <1>3, <1>4, <1>5, <1>6, <1>7, <1>8, <1>9, <1>10 DEF Effect

\* A maintenance that is counted is there to be taken off.
LEMMA PendingPositive ==
  ASSUME CountInv, NEW m \in Asking
  PROVE  pending > 0
<1>1. IsFiniteSet(Asking) /\ pending = Cardinality(Asking)
  BY Finite DEF CountInv, CountersCount
<1>2. Cardinality(Asking) # 0
  BY <1>1, FS_EmptySet
<1>3. QED
  BY <1>1, <1>2 DEF CountInv, LockTypes

\* Types: a counter is never taken below zero.
LEMMA StepTypes == CountInv /\ [LockNext]_lockVars => LockTypes'
<1> SUFFICES ASSUME CountInv, [LockNext]_lockVars PROVE LockTypes'
  OBVIOUS
<1> USE DEF CountInv, LockTypes
<1>1. ASSUME NEW w \in Workers, AcquireWorker(w) PROVE LockTypes'
  BY <1>1 DEF AcquireWorker
<1>2. ASSUME NEW w \in Workers, ReleaseWorker(w) PROVE LockTypes'
  BY <1>2 DEF ReleaseWorker, Notified
<1>3. ASSUME NEW w \in Workers, AcquireTimesOut(w) \/ WorkerDies(w) \/ LeaveStale(w) PROVE LockTypes'
  BY <1>3 DEF AcquireTimesOut, WorkerDies, LeaveStale
<1>4. ASSUME NEW m \in Maintainers, RequestMaintenance(m) PROVE LockTypes'
  <2>1. CASE MaintenanceMayRun
    BY <1>4, <2>1 DEF RequestMaintenance, Notified
  <2>2. CASE ~ MaintenanceMayRun
    BY <1>4, <2>2 DEF RequestMaintenance
  <2>3. QED
    BY <2>1, <2>2
<1>5. ASSUME NEW m \in Maintainers, upkeep[m] \in {"waiting", "ready"} PROVE pending - 1 \in Nat
  BY <1>5, PendingPositive DEF Asking, In
<1>6. ASSUME NEW m \in Maintainers, ResumeMaintenance(m) PROVE LockTypes'
  BY <1>5, <1>6 DEF ResumeMaintenance, Notified
<1>7. ASSUME NEW m \in Maintainers, MaintenanceTimesOut(m) PROVE LockTypes'
  BY <1>5, <1>7 DEF MaintenanceTimesOut, Notified
<1>8. ASSUME NEW m \in Maintainers, FinishMaintenance(m) PROVE LockTypes'
  BY <1>8 DEF FinishMaintenance, Notified
<1>9. CASE LoseActor
  <2>1. crashes' \in 0 .. MaxCrashes
    BY <1>9, ClientsAssumption DEF LoseActor
  <2>2. worker' \in [Workers -> {"stale", "forgotten", "idle"}] /\ upkeep' \in [Maintainers -> {"idle", "done"}]
    BY <1>9 DEF LoseActor
  <2>3. QED
    BY <1>9, <2>1, <2>2 DEF LoseActor
<1>10. CASE UNCHANGED lockVars
  BY <1>10 DEF lockVars
<1>11. QED
  BY <1>1, <1>2, <1>3, <1>4, <1>6, <1>7, <1>8, <1>9, <1>10 DEF LockNext

----------------------------------------------------------------------------
\* What is empty when a counter is zero
LEMMA NobodyThere ==
  ASSUME CountInv
  PROVE  /\ WorkerMayEnter => Asking = {} /\ Running = {}
         /\ MaintenanceMayRun => Inside = {} /\ Running = {}
<1>1. IsFiniteSet(Inside) /\ IsFiniteSet(Asking)
  BY Finite DEF CountInv
<1>2. QED
  BY <1>1, FS_EmptySet DEF CountInv, CountersCount, WorkerMayEnter, MaintenanceMayRun

\* Each step of the actor is one of the abstract lock, or leaves it alone.
LEMMA StepImplements == CountInv /\ Effect => [Lock!Next]_<<Inside, Asking, Running>>
<1> SUFFICES ASSUME CountInv, Effect PROVE Lock!Next \/ UNCHANGED <<Inside, Asking, Running>>
  OBVIOUS
<1> USE DEF Inside, Asking, Running
<1>1. ASSUME NEW w \in Workers, Enters(w) PROVE Lock!Enter(w)
  BY <1>1, NobodyThere DEF Enters, Lock!Enter
<1>2. ASSUME NEW w \in Workers, Exits(w) PROVE Lock!Exit(w)
  BY <1>2 DEF Exits, Lock!Exit
<1>3. ASSUME NEW m \in Maintainers, Asks(m) PROVE Lock!Ask(m)
  BY <1>3 DEF Asks, Lock!Ask
<1>4. ASSUME NEW m \in Maintainers, GivesUp(m) PROVE Lock!GiveUp(m)
  BY <1>4 DEF GivesUp, Lock!GiveUp
<1>5. ASSUME NEW m \in Maintainers, Runs(m) PROVE Lock!Run(m)
  BY <1>5, NobodyThere DEF Runs, Lock!Run
<1>6. ASSUME NEW m \in Maintainers, Finishes(m) PROVE Lock!Finish(m)
  BY <1>6 DEF Finishes, Lock!Finish
<1>7. CASE Forgets
  BY <1>7 DEF Forgets, Lock!Forget, Lock!Next
<1>8. CASE Quiet
  BY <1>8 DEF Quiet
<1>9. QED
  BY <1>1, <1>2, <1>3, <1>4, <1>5, <1>6, <1>7, <1>8 DEF Effect, Lock!Next

LEMMA CountsHold == LockSpec => []CountInv
<1>1. CountInv /\ [LockNext]_lockVars => CountInv'
  BY StepEffect, EffectCounts, StepTypes DEF CountInv
<1>2. QED
  BY InitCounts, <1>1, PTL DEF LockSpec

\* The maintenance lock implements the shared-exclusive lock with priority for
\* maintenance, for any clients and any number of lost actors.
THEOREM LockImplemented == LockSpec => ImplementsLock
<1>1. LockInit => Lock!Init
  BY DEF LockInit, Lock!Init, In
<1>2. CountInv /\ [LockNext]_lockVars => [Lock!Next]_<<Inside, Asking, Running>>
  BY StepEffect, StepImplements DEF CountInv
<1>3. QED
  BY CountsHold, <1>1, <1>2, PTL DEF LockSpec, ImplementsLock, Lock!Spec, Inside, Asking, Running
=============================================================================
