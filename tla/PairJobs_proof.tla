--------------------------- MODULE PairJobs_proof ---------------------------
(***************************************************************************)
(* That the controller keeps its slots full and the promise of             *)
(* PairCampaign, for any number of pairs and any limit, whichever jobs     *)
(* thrash and whichever calls raise; and that the local controller keeps   *)
(* that promise too.                                                       *)
(***************************************************************************)
EXTENDS MCPairJobs, FiniteSetTheorems, SequenceTheorems, TLAPS

\* The pairs whose callbacks wait or run
Queued == {queue[i] : i \in 1 .. Len(queue)}

NoneTwice == \A i, j \in 1 .. Len(queue) : queue[i] = queue[j] => i = j

Out == {"raising", "raised"}
Loop == {"polling", "reaping", "guarding", "stopping"}

\* A pair is drawn in its turn; from then on the controller waits for it, has
\* its callback in the queue or the callback's outcome, unless submit_one
\* raised.
PairInv ==
  \A p \in Pairs :
    /\ p >= next => job[p] = "unsubmitted" /\ p \notin pending /\ outcome[p] = "none"
    /\ p \in pending => job[p] # "unsubmitted" /\ outcome[p] = "none"
    /\ p \in Queued => job[p] = "ended" /\ outcome[p] = "none" /\ p \notin pending
    /\ outcome[p] # "none" => job[p] = "ended"
    /\ p < next => p \in pending \cup Queued \/ outcome[p] # "none" \/ main \in Out
    /\ job[p] \in {"active", "stopping"} => p \in pending \/ main \in Out

\* How many are waited for, at each place of the loop
SlotInv ==
  /\ main = "filling" => next <= MaxInFlight + 1 /\ Cardinality(pending) = next - 1
  /\ main \in Loop => /\ Cardinality(pending) <= MaxInFlight
                      /\ next <= N => Cardinality(pending) = MaxInFlight
  /\ main \in {"draining", "returned"} => pending = {} /\ next = N + 1

\* What the places of the loop hand to each other
PlaceInv ==
  /\ main = "reaping" => finished # {}
  /\ finished # {} => main \in {"reaping"} \cup Out
  /\ \A p \in finished : job[p] = "ended"
  /\ targets # {} => main = "stopping"
  /\ main \in {"returned", "raised"} => queue = <<>>

IInv == TypeOK /\ NoneTwice /\ PairInv /\ SlotInv /\ PlaceInv

----------------------------------------------------------------------------
(* The queue                                                               *)

LEMMA Appended ==
  ASSUME queue \in Seq(Pairs), NoneTwice, NEW p \in Pairs, p \notin Queued, queue' = Append(queue, p)
  PROVE  queue' \in Seq(Pairs) /\ NoneTwice' /\ Queued' = Queued \cup {p}
<1>1. /\ queue' \in Seq(Pairs)
      /\ Len(queue') = Len(queue) + 1 /\ Len(queue) \in Nat
      /\ \A i \in 1 .. Len(queue) : queue'[i] = queue[i]
      /\ queue'[Len(queue) + 1] = p
  OBVIOUS
<1>2. NoneTwice'
  BY <1>1 DEF NoneTwice, Queued
<1>3. Queued' = Queued \cup {p}
  <2>1. ASSUME NEW q \in Queued' PROVE q \in Queued \cup {p}
    BY <1>1, <2>1 DEF Queued
  <2>2. ASSUME NEW q \in Queued PROVE q \in Queued'
    <3>1. PICK i \in 1 .. Len(queue) : q = queue[i]
      BY <2>2 DEF Queued
    <3>2. i \in 1 .. Len(queue') /\ queue'[i] = q
      BY <1>1, <3>1
    <3>3. QED
      BY <3>2 DEF Queued
  <2>3. p \in Queued'
    <3>1. Len(queue) + 1 \in 1 .. Len(queue')
      BY <1>1
    <3>2. QED
      BY <1>1, <3>1 DEF Queued
  <2>4. QED
    BY <2>1, <2>2, <2>3
<1>4. QED
  BY <1>1, <1>2, <1>3

LEMMA Shifted ==
  ASSUME queue \in Seq(Pairs), NoneTwice, queue # <<>>, queue' = Tail(queue)
  PROVE  /\ queue' \in Seq(Pairs) /\ NoneTwice'
         /\ Head(queue) \in Queued /\ Head(queue) \in Pairs
         /\ Queued' = Queued \ {Head(queue)}
<1>1. /\ queue' \in Seq(Pairs)
      /\ Len(queue) \in Nat \ {0} /\ Len(queue') = Len(queue) - 1
      /\ \A i \in 1 .. Len(queue') : queue'[i] = queue[i + 1]
      /\ Head(queue) = queue[1] /\ Head(queue) \in Pairs
  BY HeadTailProperties, EmptySeq
<1>2. NoneTwice'
  BY <1>1 DEF NoneTwice
<1>3. Head(queue) \in Queued
  <2>1. 1 \in 1 .. Len(queue)
    BY <1>1
  <2>2. QED
    BY <1>1, <2>1 DEF Queued
<1>4. Queued' = Queued \ {Head(queue)}
  <2>1. ASSUME NEW q \in Queued' PROVE q \in Queued /\ q # Head(queue)
    <3>1. PICK i \in 1 .. Len(queue') : q = queue'[i]
      BY <2>1 DEF Queued
    <3>2. i + 1 \in 1 .. Len(queue) /\ 1 \in 1 .. Len(queue) /\ i + 1 # 1 /\ q = queue[i + 1]
      BY <1>1, <3>1
    <3>3. QED
      BY <1>1, <3>2 DEF Queued, NoneTwice
  <2>2. ASSUME NEW q \in Queued, q # Head(queue) PROVE q \in Queued'
    <3>1. PICK i \in 1 .. Len(queue) : q = queue[i]
      BY <2>2 DEF Queued
    <3>2. i - 1 \in 1 .. Len(queue') /\ queue'[i - 1] = q
      BY <1>1, <2>2, <3>1
    <3>3. QED
      BY <3>2 DEF Queued
  <2>3. QED
    BY <2>1, <2>2
<1>5. QED
  BY <1>1, <1>2, <1>3, <1>4

LEMMA Emptied == queue = <<>> => Queued = {} /\ NoneTwice
BY DEF Queued, NoneTwice

LEMMA Unmoved == queue' = queue /\ NoneTwice => Queued' = Queued /\ NoneTwice'
BY DEF Queued, NoneTwice

----------------------------------------------------------------------------
(* The invariant                                                           *)

LEMMA Finite == \A S \in SUBSET Pairs : IsFiniteSet(S) /\ Cardinality(S) \in Nat
<1>1. IsFiniteSet(Pairs)
  BY FS_Interval, CampaignAssumption DEF Pairs
<1>2. QED
  BY <1>1, FS_Subset, FS_CardinalityType

LEMMA InitIInv == Init => IInv
<1> SUFFICES ASSUME Init PROVE IInv
  OBVIOUS
<1>1. queue \in Seq(Pairs) /\ Queued = {} /\ NoneTwice
  BY Emptied, EmptySeq DEF Init
<1>2. TypeOK
  BY <1>1, CampaignAssumption DEF Init, TypeOK, Pairs
<1>3. PairInv
  BY <1>1, CampaignAssumption DEF Init, PairInv, Pairs
<1>4. SlotInv
  BY FS_EmptySet, CampaignAssumption DEF Init, SlotInv, Loop
<1>5. PlaceInv
  BY DEF Init, PlaceInv
<1>6. QED
  BY <1>1, <1>2, <1>3, <1>4, <1>5 DEF IInv

\* One of the first pairs is submitted.
LEMMA FillInv == IInv /\ Fill => IInv'
<1> SUFFICES ASSUME IInv, Fill PROVE IInv'
  OBVIOUS
<1> USE CampaignAssumption DEF IInv
<1>1. queue' = queue /\ outcome' = outcome /\ finished' = finished /\ targets' = targets /\ asked' = asked
      /\ main = "filling" /\ finished = {} /\ targets = {}
  BY DEF Fill, guard, PlaceInv, Out
<1>2. Queued' = Queued /\ NoneTwice'
  BY <1>1, Unmoved
<1>3. IsFiniteSet(pending) /\ Cardinality(pending) = next - 1 /\ next \in 1 .. N + 1
  BY <1>1, Finite DEF TypeOK, SlotInv
<1>4. CASE next <= N /\ next <= MaxInFlight /\ SubmitOne(pending) /\ main' = main
  <2>1. /\ next \in Pairs /\ next \notin pending /\ next' = next + 1
        /\ job' = [job EXCEPT ![next] = "active"] /\ pending' = pending \cup {next}
    BY <1>3, <1>4 DEF SubmitOne, PairInv, Pairs
  <2>2. TypeOK'
    BY <1>1, <1>3, <1>4, <2>1 DEF TypeOK, Pairs
  <2>3. PairInv'
    BY <1>1, <1>2, <1>4, <2>1 DEF PairInv, TypeOK, Pairs
  <2>4. SlotInv'
    <3>1. Cardinality(pending') = next' - 1
      BY <1>3, <2>1, FS_AddElement
    <3>2. QED
      BY <1>1, <1>3, <1>4, <2>1, <3>1 DEF SlotInv, Loop
  <2>5. PlaceInv'
    BY <1>1, <1>4 DEF PlaceInv
  <2>6. QED
    BY <1>2, <2>2, <2>3, <2>4, <2>5
<1>5. CASE (next > N \/ next > MaxInFlight) /\ main' = "polling" /\ UNCHANGED <<next, pending, job>>
  <2>1. TypeOK'
    BY <1>1, <1>5 DEF TypeOK
  <2>2. PairInv'
    BY <1>1, <1>2, <1>5 DEF PairInv, Out
  <2>3. SlotInv'
    BY <1>1, <1>3, <1>5 DEF SlotInv, Loop
  <2>4. PlaceInv'
    BY <1>1, <1>5 DEF PlaceInv
  <2>5. QED
    BY <1>2, <2>1, <2>2, <2>3, <2>4
<1>6. CASE next <= MaxInFlight /\ SubmitRaises /\ pending' = pending
  <2>1. /\ next \in Pairs /\ next \notin pending /\ next' = next + 1 /\ main' = "raising"
        /\ job' = job \/ job' = [job EXCEPT ![next] = "active"]
    BY <1>3, <1>6 DEF SubmitRaises, PairInv, Pairs
  <2>2. TypeOK'
    BY <1>1, <1>3, <1>6, <2>1 DEF TypeOK, Pairs
  <2>3. PairInv'
    BY <1>1, <1>2, <1>6, <2>1 DEF PairInv, TypeOK, Pairs, Out
  <2>4. SlotInv'
    BY <2>1 DEF SlotInv, Loop
  <2>5. PlaceInv'
    BY <1>1, <2>1 DEF PlaceInv
  <2>6. QED
    BY <1>2, <2>2, <2>3, <2>4, <2>5
<1>7. QED
  BY <1>4, <1>5, <1>6 DEF Fill

\* The steps of the loop that look, probe or leave.
LEMMA LookInv == IInv /\ (Poll \/ Probe \/ Drain) => IInv'
<1> SUFFICES ASSUME IInv, Poll \/ Probe \/ Drain PROVE IInv'
  OBVIOUS
<1> USE DEF IInv
<1>1. UNCHANGED <<next, pending, queue, outcome, job, asked>>
  BY DEF Poll, Probe, Drain, guard
<1>2. Queued' = Queued /\ NoneTwice'
  BY <1>1, Unmoved
<1>3. /\ main \in Loop \cup {"draining"} \cup Out
      /\ main' \in Loop \cup {"draining", "returned"} \cup Out
      /\ main \in Out => main' \in Out
      /\ main = "draining" => main' \in {"returned", "raised"}
  BY DEF Poll, Probe, Drain, Loop, Out
<1>4. TypeOK'
  BY <1>1, <1>3 DEF TypeOK, Poll, Probe, Drain, Ended, guard, Loop, Out
<1>5. PairInv'
  BY <1>1, <1>2, <1>3 DEF PairInv, Loop, Out
<1>6. SlotInv'
  <2>1. CASE Poll /\ pending = {}
    <3>1. Cardinality(pending) = 0
      BY <2>1, FS_EmptySet
    <3>2. next = N + 1
      BY <2>1, <3>1, CampaignAssumption DEF Poll, SlotInv, TypeOK, Loop
    <3>3. QED
      BY <1>1, <2>1, <3>2 DEF Poll, SlotInv, Loop
  <2>2. CASE Poll /\ pending # {}
    BY <1>1, <2>2 DEF Poll, SlotInv, Loop
  <2>3. CASE Probe
    BY <1>1, <2>3 DEF Probe, SlotInv, Loop
  <2>4. CASE Drain
    BY <1>1, <2>4 DEF Drain, SlotInv, Loop
  <2>5. QED
    BY <2>1, <2>2, <2>3, <2>4
<1>7. PlaceInv'
  <2>1. CASE Poll
    BY <1>1, <2>1 DEF Poll, PlaceInv, Ended, guard, Out
  <2>2. CASE Probe
    BY <1>1, <2>2 DEF Probe, PlaceInv, Out
  <2>3. CASE Drain
    BY <1>1, <2>3 DEF Drain, PlaceInv, guard, Out
  <2>4. QED
    BY <2>1, <2>2, <2>3
<1>8. QED
  BY <1>2, <1>4, <1>5, <1>6, <1>7

\* What Reap does with its pair, whether or not another one is submitted
LEMMA ReapMoves ==
  ASSUME IInv, Reap
  PROVE  \E p \in finished :
           /\ main = "reaping" /\ p \in pending /\ p \in Pairs /\ job[p] = "ended" /\ outcome[p] = "none"
           /\ finished' = finished \ {p} /\ targets = {}
           /\ UNCHANGED <<outcome, targets, asked>>
           /\ queue' \in Seq(Pairs) /\ NoneTwice' /\ Queued' = Queued \cup {p}
           /\ \/ /\ SubmitOne(pending \ {p})
                 /\ main' = IF finished' = {} THEN "polling" ELSE "reaping"
              \/ /\ SubmitRaises
                 /\ pending' = pending \ {p}
<1> USE DEF IInv
<1>1. PICK p \in finished :
        /\ finished' = finished \ {p}
        /\ queue' = Append(queue, p)
        /\ \/ /\ SubmitOne(pending \ {p})
              /\ main' = IF finished' = {} THEN "polling" ELSE "reaping"
           \/ /\ SubmitRaises
              /\ pending' = pending \ {p}
  BY DEF Reap
<1>2. main = "reaping" /\ targets = {} /\ UNCHANGED <<outcome, targets, asked>>
  BY DEF Reap, PlaceInv, guard
<1>3. p \in pending /\ p \in Pairs /\ job[p] = "ended"
  BY DEF TypeOK, PlaceInv
<1>4. outcome[p] = "none" /\ p \notin Queued
  BY <1>3 DEF PairInv
<1>5. queue' \in Seq(Pairs) /\ NoneTwice' /\ Queued' = Queued \cup {p}
  BY <1>1, <1>3, <1>4, Appended DEF TypeOK
<1>6. QED
  BY <1>1, <1>2, <1>3, <1>4, <1>5

\* A slot goes from one pair to the next, as long as there is one.
LEMMA ReapInv == IInv /\ Reap => IInv'
<1> SUFFICES ASSUME IInv, Reap PROVE IInv'
  OBVIOUS
<1> USE CampaignAssumption DEF IInv
<1>1. PICK p \in finished :
        /\ main = "reaping" /\ p \in pending /\ p \in Pairs /\ job[p] = "ended" /\ outcome[p] = "none"
        /\ finished' = finished \ {p} /\ targets = {}
        /\ UNCHANGED <<outcome, targets, asked>>
        /\ queue' \in Seq(Pairs) /\ NoneTwice' /\ Queued' = Queued \cup {p}
        /\ \/ /\ SubmitOne(pending \ {p})
              /\ main' = IF finished' = {} THEN "polling" ELSE "reaping"
           \/ /\ SubmitRaises
              /\ pending' = pending \ {p}
  BY ReapMoves
<1>2. /\ IsFiniteSet(pending) /\ Cardinality(pending) \in Nat /\ Cardinality(pending) <= MaxInFlight
      /\ next <= N => Cardinality(pending) = MaxInFlight
      /\ next \in 1 .. N + 1 /\ finished \subseteq pending
  BY <1>1, Finite DEF TypeOK, SlotInv, Loop
<1>3. IsFiniteSet(pending \ {p}) /\ Cardinality(pending \ {p}) = Cardinality(pending) - 1
  BY <1>1, <1>2, FS_RemoveElement
<1>4. CASE next <= N /\ SubmitOne(pending \ {p}) /\ main' = IF finished' = {} THEN "polling" ELSE "reaping"
  <2>1. /\ next \in Pairs /\ next \notin pending /\ next' = next + 1 /\ job[next] = "unsubmitted"
        /\ job' = [job EXCEPT ![next] = "active"] /\ pending' = (pending \ {p}) \cup {next}
    BY <1>2, <1>4 DEF SubmitOne, PairInv, Pairs
  <2>2. TypeOK'
    BY <1>1, <1>2, <1>4, <2>1 DEF TypeOK, Pairs
  <2>3. PairInv'
    BY <1>1, <1>4, <2>1 DEF PairInv, TypeOK, Pairs, Out
  <2>4. SlotInv'
    <3>1. Cardinality(pending') = Cardinality(pending)
      <4>1. next \notin pending \ {p}
        BY <2>1
      <4>2. Cardinality((pending \ {p}) \cup {next}) = Cardinality(pending \ {p}) + 1
        BY <1>3, <4>1, FS_AddElement
      <4>3. QED
        BY <1>2, <1>3, <2>1, <4>2
    <3>2. Cardinality(pending') = MaxInFlight
      BY <1>2, <1>4, <3>1
    <3>3. main' \in {"polling", "reaping"}
      BY <1>4
    <3>4. QED
      BY <3>2, <3>3 DEF SlotInv, Loop
  <2>5. PlaceInv'
    BY <1>1, <1>2, <1>4, <2>1 DEF PlaceInv, TypeOK
  <2>6. QED
    BY <1>1, <2>2, <2>3, <2>4, <2>5
<1>5. CASE next > N /\ SubmitOne(pending \ {p}) /\ main' = IF finished' = {} THEN "polling" ELSE "reaping"
  <2>1. pending' = pending \ {p} /\ UNCHANGED <<job, next>>
    BY <1>2, <1>5 DEF SubmitOne
  <2>2. TypeOK'
    BY <1>1, <1>2, <1>5, <2>1 DEF TypeOK
  <2>3. PairInv'
    BY <1>1, <1>5, <2>1 DEF PairInv, TypeOK, Out
  <2>4. SlotInv'
    BY <1>1, <1>2, <1>3, <1>5, <2>1 DEF SlotInv, Loop
  <2>5. PlaceInv'
    BY <1>1, <1>5, <2>1 DEF PlaceInv
  <2>6. QED
    BY <1>1, <2>2, <2>3, <2>4, <2>5
<1>6. CASE SubmitRaises /\ pending' = pending \ {p}
  <2>1. /\ next \in Pairs /\ next \notin pending /\ next' = next + 1 /\ main' = "raising"
        /\ job[next] = "unsubmitted"
        /\ job' = job \/ job' = [job EXCEPT ![next] = "active"]
    BY <1>2, <1>6 DEF SubmitRaises, PairInv, Pairs
  <2>2. TypeOK'
    <3>1. job' \in [Pairs -> {"unsubmitted", "active", "stopping", "ended"}]
      BY <2>1 DEF TypeOK
    <3>2. next' \in 1 .. N + 1
      BY <2>1 DEF Pairs
    <3>3. pending' \subseteq Pairs /\ finished' \subseteq pending' /\ targets' \subseteq pending'
      BY <1>1, <1>2, <1>6 DEF TypeOK
    <3>4. QED
      BY <1>1, <2>1, <3>1, <3>2, <3>3 DEF TypeOK
  <2>3. PairInv'
    BY <1>1, <1>6, <2>1 DEF PairInv, TypeOK, Pairs, Out
  <2>4. SlotInv'
    BY <2>1 DEF SlotInv, Loop
  <2>5. PlaceInv'
    BY <1>1, <1>2, <2>1 DEF PlaceInv, TypeOK, Out
  <2>6. QED
    BY <1>1, <2>2, <2>3, <2>4, <2>5
<1>7. QED
  BY <1>1, <1>2, <1>4, <1>5, <1>6

\* A callback ends.
LEMMA CallbackInv == IInv /\ CallbackEnds => IInv'
<1> SUFFICES ASSUME IInv, CallbackEnds PROVE IInv'
  OBVIOUS
<1> USE DEF IInv
<1>1. /\ queue # <<>> /\ queue' = Tail(queue)
      /\ UNCHANGED <<main, next, pending, finished, job, targets, asked>>
  BY DEF CallbackEnds, loop, guard
<1>2. /\ queue' \in Seq(Pairs) /\ NoneTwice'
      /\ Head(queue) \in Queued /\ Head(queue) \in Pairs /\ Queued' = Queued \ {Head(queue)}
  BY <1>1, Shifted DEF TypeOK
<1>3. PICK o \in {"ok", "error"} : outcome' = [outcome EXCEPT ![Head(queue)] = o]
  BY DEF CallbackEnds
<1>4. TypeOK'
  BY <1>1, <1>2, <1>3 DEF TypeOK
<1>5. PairInv'
  BY <1>1, <1>2, <1>3 DEF PairInv, TypeOK
<1>6. SlotInv' /\ PlaceInv'
  BY <1>1 DEF SlotInv, PlaceInv
<1>7. QED
  BY <1>2, <1>4, <1>5, <1>6

\* Jobs are asked to stop, and end.
LEMMA JobInv ==
  ASSUME IInv, NEW p \in Pairs, Stop(p) \/ CooldownEnds(p) \/ JobEnds(p)
  PROVE  IInv'
<1> USE DEF IInv
<1>1. UNCHANGED <<next, pending, finished, queue, outcome>>
  BY DEF Stop, CooldownEnds, JobEnds, loop
<1>2. Queued' = Queued /\ NoneTwice'
  BY <1>1, Unmoved
<1>3. /\ job' \in [Pairs -> {"unsubmitted", "active", "stopping", "ended"}]
      /\ \A q \in Pairs :
           \/ job'[q] = job[q]
           \/ job[q] \in {"active", "stopping"} /\ job'[q] \in {"stopping", "ended"}
  <2>1. CASE Stop(p)
    BY <2>1 DEF Stop, Stopped, TypeOK, PairInv, PlaceInv
  <2>2. CASE CooldownEnds(p)
    BY <2>2 DEF CooldownEnds, TypeOK
  <2>3. CASE JobEnds(p)
    BY <2>3 DEF JobEnds, TypeOK
  <2>4. QED
    BY <2>1, <2>2, <2>3
<1>4. /\ \/ main' = main /\ (targets' = {} \/ main' = "stopping")
         \/ main = "stopping" /\ targets' = {} /\ main' = "polling"
      /\ targets' \subseteq targets /\ asked' \subseteq asked \cup {p}
  BY DEF Stop, CooldownEnds, JobEnds, loop, guard, PlaceInv
<1>5. TypeOK'
  BY <1>1, <1>3, <1>4 DEF TypeOK
<1>6. PairInv'
  BY <1>1, <1>2, <1>3, <1>4 DEF PairInv, Out
<1>7. SlotInv'
  BY <1>1, <1>4 DEF SlotInv, Loop
<1>8. PlaceInv'
  BY <1>1, <1>3, <1>4 DEF PlaceInv, TypeOK, Out
<1>9. QED
  BY <1>2, <1>5, <1>6, <1>7, <1>8

LEMMA StepIInv == IInv /\ [Next]_vars => IInv'
<1> SUFFICES ASSUME IInv, [Next]_vars PROVE IInv'
  OBVIOUS
<1>1. CASE UNCHANGED vars
  BY <1>1, Unmoved DEF vars, loop, guard, IInv, TypeOK, PairInv, SlotInv, PlaceInv
<1>2. QED
  BY <1>1, FillInv, LookInv, ReapInv, CallbackInv, JobInv DEF Next

LEMMA InvariantHolds == Spec => []IInv
BY InitIInv, StepIInv, PTL DEF Spec

\* SlotsKeptFull (submit_jobs): whenever the jobs are listed, as many are
\* waited for as the limit and the remaining pairs allow.
THEOREM SlotsStayFull == Spec => []SlotsKeptFull
<1>1. IInv => SlotsKeptFull
  BY DEF IInv, SlotInv, Loop, SlotsKeptFull
<1>2. QED
  BY InvariantHolds, <1>1, PTL
----------------------------------------------------------------------------
(* The campaign                                                            *)

StageMap == [p \in Pairs |-> Stage(p)]

Verdict == CASE main = "returned" -> "success"
             [] main = "raised"   -> "failure"
             [] OTHER             -> "open"

Running == {p \in Pairs : job[p] \in {"active", "stopping"}}

LEMMA StageCases ==
  ASSUME IInv
  PROVE  /\ StageMap \in [Pairs -> Campaign!Stages]
         /\ \A p \in Pairs :
              /\ StageMap[p] = "waiting" <=> job[p] = "unsubmitted"
              /\ StageMap[p] = "running" <=> p \in Running
              /\ StageMap[p] = "ended" <=> job[p] = "ended" /\ outcome[p] = "none"
              /\ StageMap[p] = "reported" <=> outcome[p] = "ok"
              /\ StageMap[p] = "botched" <=> outcome[p] = "error"
<1> USE DEF IInv, TypeOK, PairInv, StageMap, Stage, Running
<1>1. \A p \in Pairs : /\ outcome[p] \in {"none", "ok", "error"}
                       /\ job[p] \in {"unsubmitted", "active", "stopping", "ended"}
                       /\ outcome[p] # "none" => job[p] = "ended"
  OBVIOUS
<1>2. QED
  BY <1>1 DEF Campaign!Stages

\* How a step of one pair looks from outside
LEMMA StageMoves ==
  ASSUME IInv, IInv', NEW p \in Pairs,
         \A q \in Pairs \ {p} : job'[q] = job[q] /\ outcome'[q] = outcome[q]
  PROVE  StageMap' = [StageMap EXCEPT ![p] = StageMap'[p]]
<1>1. \A q \in Pairs \ {p} : Stage(q)' = Stage(q)
  BY DEF Stage
<1>2. QED
  BY <1>1 DEF StageMap

LEMMA StageStays ==
  ASSUME \A q \in Pairs : Stage(q)' = Stage(q)
  PROVE  StageMap' = StageMap
BY DEF StageMap

LEMMA SameCardinality == \A S : Campaign!Cardinality(S) = Cardinality(S)
BY DEF Campaign!Cardinality, Cardinality

\* A submission, as long as fewer than the limit run
LEMMA Launches ==
  ASSUME IInv, IInv', next \in Pairs, Verdict = "open", Verdict' = "open",
         outcome' = outcome, job' = [job EXCEPT ![next] = "active"],
         NEW S \in SUBSET Pairs, Running \subseteq S, Cardinality(S) < MaxInFlight
  PROVE  Campaign!Launch(next)
<1>1. StageMap[next] = "waiting"
  BY StageCases DEF IInv, PairInv, TypeOK, Pairs
<1>2. StageMap'[next] = "running"
  BY DEF StageMap, Stage, IInv, TypeOK, PairInv, Pairs
<1>3. StageMap' = [StageMap EXCEPT ![next] = "running"]
  BY <1>2, StageMoves DEF IInv, TypeOK
<1>4. Campaign!At("running") = Running
  BY StageCases DEF Campaign!At, StageMap, Running
<1>5. Cardinality(Running) < MaxInFlight
  <2>1. IsFiniteSet(S) /\ Cardinality(S) \in Nat
    BY Finite
  <2>2. Cardinality(Running) <= Cardinality(S) /\ Cardinality(Running) \in Nat
    BY <2>1, FS_Subset, FS_CardinalityType
  <2>3. QED
    BY <2>1, <2>2, CampaignAssumption
<1>6. QED
  BY <1>1, <1>3, <1>4, <1>5, SameCardinality DEF Campaign!Launch, Campaign!Move, StageMap, Verdict

CampaignStep == Campaign!Next \/ UNCHANGED <<StageMap, Verdict>>

LEMMA FillImplements == IInv /\ IInv' /\ Fill => CampaignStep
<1> SUFFICES ASSUME IInv, IInv', Fill PROVE CampaignStep
  OBVIOUS
<1>1. main = "filling" /\ outcome' = outcome /\ main' \in {"filling", "polling", "raising"}
  BY DEF Fill, SubmitRaises
<1>2. Verdict = "open" /\ Verdict' = "open"
  BY <1>1 DEF Verdict
<1>3. CASE job' = job
  BY <1>1, <1>2, <1>3 DEF CampaignStep, StageMap, Stage
<1>4. CASE next <= N /\ next <= MaxInFlight /\ job' = [job EXCEPT ![next] = "active"]
  <2>1. next \in Pairs /\ Cardinality(pending) < MaxInFlight /\ pending \in SUBSET Pairs
    BY <1>1, <1>4, CampaignAssumption DEF IInv, TypeOK, SlotInv, Pairs
  <2>2. Running \subseteq pending
    BY <1>1 DEF IInv, PairInv, Running, Out
  <2>3. Campaign!Launch(next)
    BY <1>1, <1>2, <1>4, <2>1, <2>2, Launches
  <2>4. QED
    BY <2>1, <2>3 DEF CampaignStep, Campaign!Next
<1>5. QED
  BY <1>3, <1>4 DEF Fill, SubmitOne, SubmitRaises

LEMMA ReapImplements == IInv /\ IInv' /\ Reap => CampaignStep
<1> SUFFICES ASSUME IInv, IInv', Reap PROVE CampaignStep
  OBVIOUS
<1>1. PICK p \in finished :
        /\ main = "reaping" /\ p \in pending /\ p \in Pairs /\ job[p] = "ended"
        /\ outcome' = outcome
        /\ \/ SubmitOne(pending \ {p}) /\ main' \in {"polling", "reaping"}
           \/ SubmitRaises
  BY ReapMoves
<1>2. Verdict = "open" /\ Verdict' = "open"
  BY <1>1 DEF Verdict, SubmitRaises
<1>3. CASE job' = job
  BY <1>1, <1>2, <1>3 DEF CampaignStep, StageMap, Stage
<1>4. CASE next <= N /\ job' = [job EXCEPT ![next] = "active"]
  <2>1. next \in Pairs /\ pending \in SUBSET Pairs /\ Cardinality(pending) <= MaxInFlight
    BY <1>1, <1>4, CampaignAssumption DEF IInv, TypeOK, SlotInv, Loop, Pairs
  <2>2. Cardinality(pending \ {p}) < MaxInFlight
    <3>1. IsFiniteSet(pending) /\ Cardinality(pending) \in Nat
      BY <2>1, Finite
    <3>2. Cardinality(pending \ {p}) = Cardinality(pending) - 1
      BY <1>1, <3>1, FS_RemoveElement
    <3>3. QED
      BY <2>1, <3>1, <3>2, CampaignAssumption
  <2>3. Running \subseteq pending \ {p}
    BY <1>1 DEF IInv, PairInv, Running, Out
  <2>4. Campaign!Launch(next)
    BY <1>1, <1>2, <1>4, <2>1, <2>2, <2>3, Launches
  <2>5. QED
    BY <2>1, <2>4 DEF CampaignStep, Campaign!Next
<1>5. QED
  BY <1>1, <1>3, <1>4 DEF SubmitOne, SubmitRaises

\* The verdict comes after the last callback.
LEMMA DrainImplements == IInv /\ IInv' /\ Drain => CampaignStep
<1> SUFFICES ASSUME IInv, IInv', Drain PROVE CampaignStep
  OBVIOUS
<1>1. UNCHANGED StageMap
  BY DEF Drain, StageMap, Stage
<1>2. Verdict = "open"
  BY DEF Drain, Verdict
<1>3. CASE main = "draining" /\ Failures = {}
  <2>1. pending = {} /\ Queued = {} /\ next = N + 1
    BY <1>3, Emptied DEF Drain, IInv, SlotInv
  <2>2. \A p \in Pairs : outcome[p] = "ok"
    <3>1. \A p \in Pairs : p < next
      BY <2>1, CampaignAssumption DEF Pairs
    <3>2. \A p \in Pairs : outcome[p] \in {"ok", "error"}
      BY <1>3, <2>1, <3>1 DEF IInv, PairInv, TypeOK, Out
    <3>3. QED
      BY <1>3, <3>2 DEF Failures
  <2>3. Campaign!At("reported") = Pairs
    BY <2>2, StageCases DEF Campaign!At, StageMap
  <2>4. Verdict' = "success"
    BY <1>3 DEF Drain, Verdict
  <2>5. Campaign!Succeed
    BY <1>1, <1>2, <2>3, <2>4 DEF Campaign!Succeed, StageMap, Verdict
  <2>6. QED
    BY <2>5 DEF CampaignStep, Campaign!Next
<1>4. CASE ~(main = "draining" /\ Failures = {})
  <2>1. Verdict' = "failure"
    BY <1>4 DEF Drain, Verdict
  <2>2. Campaign!Fail
    BY <1>1, <1>2, <2>1 DEF Campaign!Fail, StageMap, Verdict
  <2>3. QED
    BY <2>2 DEF CampaignStep, Campaign!Next
<1>5. QED
  BY <1>3, <1>4

LEMMA CallbackImplements == IInv /\ IInv' /\ CallbackEnds => CampaignStep
<1> SUFFICES ASSUME IInv, IInv', CallbackEnds PROVE CampaignStep
  OBVIOUS
<1>1. /\ queue # <<>> /\ queue \in Seq(Pairs) /\ NoneTwice /\ queue' = Tail(queue)
      /\ main' = main /\ job' = job
  BY DEF CallbackEnds, loop, IInv, TypeOK
<1>2. PICK p \in Pairs : p = Head(queue) /\ job[p] = "ended" /\ outcome[p] = "none"
  BY <1>1, Shifted DEF IInv, PairInv
<1>3. PICK o \in {"ok", "error"} : outcome' = [outcome EXCEPT ![p] = o]
  BY <1>2 DEF CallbackEnds
<1>4. Verdict = "open" /\ Verdict' = Verdict
  BY <1>1 DEF Verdict, IInv, PlaceInv
<1>5. StageMap[p] = "ended"
  BY <1>2, StageCases
<1>6. StageMap'[p] \in {"reported", "botched"}
  <2>1. outcome'[p] = o /\ job'[p] = "ended"
    BY <1>1, <1>2, <1>3 DEF IInv, TypeOK
  <2>2. CASE o = "ok"
    BY <1>2, <2>1, <2>2 DEF StageMap, Stage
  <2>3. CASE o = "error"
    BY <1>2, <2>1, <2>3 DEF StageMap, Stage
  <2>4. QED
    BY <2>2, <2>3
<1>7. StageMap' = [StageMap EXCEPT ![p] = StageMap'[p]]
  BY <1>1, <1>2, <1>3, StageMoves DEF IInv, TypeOK
<1>8. Campaign!Report(p)
  BY <1>4, <1>5, <1>6, <1>7 DEF Campaign!Report, Campaign!Move, StageMap, Verdict
<1>9. QED
  BY <1>2, <1>8 DEF CampaignStep, Campaign!Next

LEMMA JobImplements ==
  ASSUME IInv, IInv', NEW p \in Pairs, JobEnds(p)
  PROVE  CampaignStep
<1>1. /\ main' = main /\ outcome' = outcome
      /\ job[p] \in {"active", "stopping"} /\ job' = [job EXCEPT ![p] = "ended"]
  BY DEF JobEnds, loop
<1>2. StageMap[p] = "running" /\ outcome[p] = "none"
  BY <1>1, StageCases DEF Running, IInv, PairInv, TypeOK
<1>3. StageMap'[p] = "ended"
  BY <1>1, <1>2 DEF StageMap, Stage, IInv, TypeOK
<1>4. StageMap' = [StageMap EXCEPT ![p] = "ended"]
  BY <1>1, <1>3, StageMoves DEF IInv, TypeOK
<1>5. Campaign!End(p)
  BY <1>1, <1>2, <1>4 DEF Campaign!End, Campaign!Move, StageMap, Verdict
<1>6. QED
  BY <1>5 DEF CampaignStep, Campaign!Next

\* What the controller and the guard do without touching a pair's stage
LEMMA QuietImplements ==
  ASSUME IInv, IInv', Poll \/ Probe \/ \E p \in Pairs : Stop(p) \/ CooldownEnds(p)
  PROVE  CampaignStep
<1>1. outcome' = outcome /\ Verdict' = Verdict
  BY DEF Poll, Probe, Stop, CooldownEnds, loop, Verdict
<1>2. \A q \in Pairs : job'[q] = job[q] \/ {job[q], job'[q]} \subseteq {"active", "stopping"}
  <2>1. CASE Poll \/ Probe \/ \E p \in Pairs : CooldownEnds(p)
    BY <2>1 DEF Poll, Probe, CooldownEnds
  <2>2. ASSUME NEW p \in Pairs, Stop(p)
        PROVE \A q \in Pairs : job'[q] = job[q] \/ {job[q], job'[q]} \subseteq {"active", "stopping"}
    <3>1. p \in pending /\ job[p] \in {"active", "stopping", "ended"}
      BY <2>2 DEF Stop, IInv, TypeOK, PairInv
    <3>2. QED
      BY <2>2, <3>1 DEF Stop, Stopped, IInv, TypeOK
  <2>3. QED
    BY <2>1, <2>2
<1>3. \A q \in Pairs : Stage(q)' = Stage(q)
  BY <1>1, <1>2 DEF Stage
<1>4. QED
  BY <1>1, <1>3, StageStays DEF CampaignStep

LEMMA StepImplements == IInv /\ IInv' /\ [Next]_vars => CampaignStep
<1> SUFFICES ASSUME IInv, IInv', [Next]_vars PROVE CampaignStep
  OBVIOUS
<1>1. CASE UNCHANGED vars
  BY <1>1 DEF vars, loop, CampaignStep, StageMap, Stage, Verdict
<1>2. QED
  BY <1>1, FillImplements, ReapImplements, DrainImplements, CallbackImplements, JobImplements,
     QuietImplements DEF Next

\* ImplementsCampaign (submit_jobs): the Ray controller keeps the promise of
\* PairCampaign, for any number of pairs and any limit, whichever jobs thrash,
\* are stopped or fail, and whichever calls raise.
THEOREM CampaignImplemented == Spec => ImplementsCampaign
<1>1. Init => Campaign!Init
  BY DEF Init, Campaign!Init, Stage
<1>2. IInv /\ IInv' /\ [Next]_vars => [Campaign!Next]_<<StageMap, Verdict>>
  BY StepImplements DEF CampaignStep
<1>3. QED
  BY InvariantHolds, <1>1, <1>2, PTL
  DEF Spec, ImplementsCampaign, Campaign!Spec, StageMap, Verdict
----------------------------------------------------------------------------
(* The local controller                                                    *)

\* The local controller has reported the pairs before the one it is at, and that
\* one too once its callback has returned.
LocalInv ==
  /\ localMain \in {"next", "starting", "running", "calling back", "returned", "raised"}
  /\ localPair \in 0 .. N
  /\ localResults \in Seq({"SUCCEEDED", "FAILED"})
  /\ localStatus \in {"SUCCEEDED", "FAILED"}
  /\ localMain \in {"next", "returned"} => Len(localResults) = localPair
  /\ localMain \in {"starting", "running", "calling back"} => Len(localResults) = localPair - 1
  /\ localMain = "returned" => localPair = N

LocalStages == [p \in Local!Pairs |-> Local!Stage(p)]

LocalVerdict == CASE localMain = "returned" -> "success"
                  [] localMain = "raised"   -> "failure"
                  [] OTHER                  -> "open"

LocalStep == Local!Campaign!Next \/ UNCHANGED <<LocalStages, LocalVerdict>>

\* A sequence with one more element is longer by one.
LEMMA OneLonger ==
  ASSUME NEW S, NEW s \in Seq(S), NEW e \in S
  PROVE  Append(s, e) \in Seq(S) /\ Len(Append(s, e)) = Len(s) + 1
OBVIOUS

\* How many statuses have been returned
LEMMA Counted == LocalInv => Len(localResults) \in Nat
<1>1. ASSUME NEW S, NEW s \in Seq(S) PROVE Len(s) \in Nat
  OBVIOUS
<1>2. QED
  BY <1>1 DEF LocalInv

\* At first it is at no pair and none is reported.
LEMMA LocalInitInv == Local!Init => LocalInv
BY CampaignAssumption DEF Local!Init, LocalInv

\* Every step of the local controller keeps that.
LEMMA LocalStepInv == LocalInv /\ [Local!Next]_localVars => LocalInv'
<1> SUFFICES ASSUME LocalInv, [Local!Next]_localVars PROVE LocalInv'
  OBVIOUS
<1>0. Len(localResults) \in Nat /\ N \in Nat /\ localPair \in 0 .. N
  BY Counted, CampaignAssumption DEF LocalInv
<1>1. CASE Local!Draw
  <2>1. /\ localMain = "next" /\ localResults' = localResults /\ Len(localResults) = localPair
        /\ \/ localMain' = "returned" /\ localPair = N /\ UNCHANGED <<localPair, localStatus>>
           \/ localMain' = "starting" /\ localPair < N /\ localPair' = localPair + 1 /\ localStatus' = "SUCCEEDED"
           \/ localMain' = "raised" /\ UNCHANGED <<localPair, localStatus>>
    BY <1>1 DEF Local!Draw, LocalInv
  <2>2. localPair' \in 0 .. N /\ (localMain' = "starting" => Len(localResults) = localPair' - 1)
    BY <1>0, <2>1
  <2>3. QED
    BY <2>1, <2>2 DEF LocalInv
<1>2. CASE Local!Start
  BY <1>2 DEF Local!Start, LocalInv
<1>3. CASE Local!Run
  BY <1>3 DEF Local!Run, Local!Statuses, LocalInv
<1>4. CASE Local!CallBack
  <2>1. CASE localResults' = Append(localResults, localStatus) /\ localMain' = "next"
    <3>1. Len(localResults') = Len(localResults) + 1 /\ localResults' \in Seq({"SUCCEEDED", "FAILED"})
      BY <2>1, OneLonger DEF LocalInv
    <3>2. /\ Len(localResults) = localPair - 1 /\ localPair' = localPair /\ localStatus' = localStatus
          /\ localStatus \in {"SUCCEEDED", "FAILED"}
      BY <1>4 DEF Local!CallBack, LocalInv
    <3>3. Len(localResults') = localPair'
      BY <1>0, <3>1, <3>2
    <3>4. QED
      BY <1>0, <2>1, <3>1, <3>2, <3>3 DEF LocalInv
  <2>2. CASE localMain' = "raised" /\ UNCHANGED localResults
    BY <1>4, <2>2 DEF Local!CallBack, LocalInv
  <2>3. QED
    BY <1>4, <2>1, <2>2 DEF Local!CallBack
<1>5. CASE UNCHANGED localVars
  BY <1>5 DEF localVars, LocalInv
<1>6. QED
  BY <1>1, <1>2, <1>3, <1>4, <1>5 DEF Local!Next

\* The stage of a pair, before and after a step
LEMMA LocalStageIs ==
  ASSUME NEW q
  PROVE  /\ Local!Stage(q) = IF q <= Len(localResults) THEN "reported"
                             ELSE IF q > localPair THEN "waiting"
                             ELSE IF localMain \in {"starting", "running"} THEN "running" ELSE "ended"
         /\ Local!Stage(q)' = IF q <= Len(localResults') THEN "reported"
                              ELSE IF q > localPair' THEN "waiting"
                              ELSE IF localMain' \in {"starting", "running"} THEN "running" ELSE "ended"
BY DEF Local!Stage

\* What the two definitions stand for
LEMMA LocalPairs == /\ Local!Pairs = 1 .. N
                    /\ \A p \in Local!Pairs : LocalStages[p] = Local!Stage(p)
BY DEF Local!Pairs, LocalStages

\* One pair moves, and the verdict stays open.
LEMMA LocalMoves ==
  ASSUME NEW p \in Local!Pairs, NEW from, NEW to,
         LocalVerdict = "open", LocalVerdict' = "open",
         Local!Stage(p) = from, Local!Stage(p)' = to,
         \A q \in Local!Pairs \ {p} : Local!Stage(q)' = Local!Stage(q)
  PROVE  Local!Campaign!Move(p, from, to)
<1>1. LocalStages' = [LocalStages EXCEPT ![p] = to]
  BY DEF LocalStages
<1>2. QED
  BY <1>1 DEF Local!Campaign!Move, LocalStages, LocalVerdict

\* Drawing a pair launches it; past the last one the call succeeds.
LEMMA LocalDraw ==
  ASSUME LocalInv, Local!Draw
  PROVE  LocalStep
<1>1. /\ localMain = "next" /\ localResults' = localResults /\ Len(localResults) = localPair
      /\ localPair \in Nat /\ N \in Nat
  BY CampaignAssumption DEF Local!Draw, LocalInv
<1>2. LocalVerdict = "open"
  BY <1>1 DEF LocalVerdict
<1>3. CASE localPair = N /\ localMain' = "returned" /\ localPair' = localPair
  <2>1. \A p \in Local!Pairs : Local!Stage(p) = "reported" /\ Local!Stage(p)' = "reported"
    BY <1>1, <1>3, LocalPairs DEF Local!Stage
  <2>2. LocalStages' = LocalStages /\ LocalVerdict' = "success"
    BY <1>3, <2>1 DEF LocalStages, LocalVerdict
  <2>3. Local!Campaign!Succeed
    BY <1>2, <2>1, <2>2, LocalPairs DEF Local!Campaign!Succeed, Local!Campaign!At, LocalStages, LocalVerdict
  <2>4. QED
    BY <2>3 DEF LocalStep, Local!Campaign!Next
<1>4. CASE localPair < N /\ localPair' = localPair + 1 /\ localMain' = "starting"
  <2>p. PICK p \in 1 .. N : p = localPair + 1
    BY <1>1, <1>4
  <2>1. p \in Local!Pairs /\ p # localPair /\ ~ p <= Len(localResults) /\ p > localPair /\ ~ p > localPair'
    BY <1>1, <1>4, <2>p, LocalPairs
  <2>2. Local!Stage(p) = "waiting" /\ Local!Stage(p)' = "running"
    BY <1>1, <1>4, <2>1 DEF Local!Stage
  <2>3. \A q \in Local!Pairs \ {p} : Local!Stage(q)' = Local!Stage(q) /\ Local!Stage(q) # "running"
    <3>1. ASSUME NEW q \in 1 .. N, q # p
          PROVE  Local!Stage(q)' = Local!Stage(q) /\ Local!Stage(q) # "running"
      <4>1. CASE q <= localPair
        BY <1>1, <4>1 DEF Local!Stage
      <4>2. CASE q > localPair + 1
        BY <1>1, <1>4, <4>2 DEF Local!Stage
      <4>3. QED
        BY <1>1, <2>p, <3>1, <4>1, <4>2
    <3>2. QED
      BY <3>1, LocalPairs
  <2>4. Local!Campaign!At("running") = {}
    BY <2>2, <2>3, LocalPairs DEF Local!Campaign!At, LocalStages
  <2>5. Local!Campaign!Cardinality({}) = 0
    BY FS_EmptySet DEF Local!Campaign!Cardinality, Cardinality
  <2>6. LocalVerdict' = "open"
    BY <1>4 DEF LocalVerdict
  <2>7. Local!Campaign!Move(p, "waiting", "running")
    BY <1>2, <2>1, <2>2, <2>3, <2>6, LocalMoves
  <2>8. Local!Campaign!Launch(p)
    <3>1. Local!Campaign!Cardinality(Local!Campaign!At("running")) < 1
      BY <2>4, <2>5
    <3>2. QED
      BY <1>2, <2>7, <3>1 DEF Local!Campaign!Launch, LocalVerdict
  <2>9. QED
    BY <2>1, <2>8 DEF LocalStep, Local!Campaign!Next
<1>5. CASE localMain' = "raised" /\ UNCHANGED <<localPair, localStatus>>
  <2>1. \A p \in Local!Pairs : Local!Stage(p)' = Local!Stage(p)
    BY <1>1, <1>5 DEF Local!Stage
  <2>2. LocalStages' = LocalStages /\ LocalVerdict' = "failure"
    BY <1>5, <2>1 DEF LocalStages, LocalVerdict
  <2>3. Local!Campaign!Fail
    BY <1>2, <2>2 DEF Local!Campaign!Fail, LocalStages, LocalVerdict
  <2>4. QED
    BY <2>3 DEF LocalStep, Local!Campaign!Next
<1>6. QED
  BY <1>3, <1>4, <1>5 DEF Local!Draw

\* A number one behind another leaves nothing between the two.
LEMMA OneBehind ==
  ASSUME NEW n \in Nat, NEW p \in 0 .. n, NEW l \in Nat, l = p - 1
  PROVE  /\ p \in 1 .. n /\ ~ p <= l /\ ~ p > p
         /\ \A q \in 1 .. n : q # p => q <= l \/ q > p
OBVIOUS

\* The pair it is at, among the others
LEMMA AtItsPair ==
  ASSUME LocalInv, localMain \in {"starting", "running", "calling back"}
  PROVE  \E p \in Local!Pairs :
           /\ p = localPair /\ Len(localResults) = p - 1
           /\ ~ p <= Len(localResults) /\ ~ p > localPair
           /\ \A q \in Local!Pairs \ {p} : q <= Len(localResults) \/ q > localPair
<1>1. PICK p \in 0 .. N, l \in Nat : p = localPair /\ l = Len(localResults)
  BY Counted DEF LocalInv
<1>2. l = p - 1 /\ N \in Nat
  BY <1>1, CampaignAssumption DEF LocalInv
<1>3. /\ p \in 1 .. N /\ ~ p <= l /\ ~ p > p
      /\ \A q \in 1 .. N : q # p => q <= l \/ q > p
  BY <1>1, <1>2, OneBehind
<1>6. /\ p \in Local!Pairs /\ p = localPair /\ Len(localResults) = p - 1
      /\ ~ p <= Len(localResults) /\ ~ p > localPair
  BY <1>1, <1>2, <1>3, LocalPairs
<1>7. \A q \in Local!Pairs \ {p} : q <= Len(localResults) \/ q > localPair
  BY <1>1, <1>3, LocalPairs
<1>8. QED
  BY <1>6, <1>7

\* The end of the runner is the end of the pair.
LEMMA LocalRun ==
  ASSUME LocalInv, Local!Run
  PROVE  LocalStep
<1>1. /\ localMain = "running" /\ localMain' = "calling back"
      /\ localPair' = localPair /\ localResults' = localResults
  BY DEF Local!Run
<1>2. PICK p \in Local!Pairs :
        /\ ~ p <= Len(localResults) /\ ~ p > localPair
        /\ \A q \in Local!Pairs \ {p} : q <= Len(localResults) \/ q > localPair
  BY <1>1, AtItsPair
<1>3. Local!Stage(p) = "running" /\ Local!Stage(p)' = "ended"
  BY <1>1, <1>2, LocalStageIs
<1>4. \A q \in Local!Pairs \ {p} : Local!Stage(q)' = Local!Stage(q)
  BY <1>1, <1>2, LocalStageIs
<1>5. LocalVerdict = "open" /\ LocalVerdict' = "open"
  BY <1>1 DEF LocalVerdict
<1>6. Local!Campaign!Move(p, "running", "ended")
  BY <1>3, <1>4, <1>5, LocalMoves
<1>7. QED
  BY <1>6 DEF LocalStep, Local!Campaign!Next, Local!Campaign!End

\* The return of the callback reports the pair.
LEMMA LocalCallBack ==
  ASSUME LocalInv, Local!CallBack
  PROVE  LocalStep
<1>1. localMain = "calling back" /\ localPair' = localPair
  BY DEF Local!CallBack
<1>2. PICK p \in Local!Pairs :
        /\ p = localPair /\ Len(localResults) = p - 1
        /\ ~ p <= Len(localResults) /\ ~ p > localPair
        /\ \A q \in Local!Pairs \ {p} : q <= Len(localResults) \/ q > localPair
  BY <1>1, AtItsPair
<1>3. Local!Stage(p) = "ended" /\ LocalVerdict = "open"
  BY <1>1, <1>2 DEF Local!Stage, LocalVerdict
<1>4. CASE localResults' = Append(localResults, localStatus) /\ localMain' = "next"
  <2>1. PICK l \in Nat : l = Len(localResults)
    BY Counted
  <2>2. Len(localResults') = l + 1
    <3>1. localResults \in Seq({"SUCCEEDED", "FAILED"}) /\ localStatus \in {"SUCCEEDED", "FAILED"}
      BY DEF LocalInv
    <3>2. QED
      BY <1>4, <2>1, <3>1, OneLonger
  <2>3. p \in 1 .. N /\ l = p - 1
    BY <1>2, <2>1, LocalPairs
  <2>4. p <= l + 1 /\ \A q \in 1 .. N \ {p} : q <= l + 1 <=> q <= l
    BY <2>3
  <2>5. /\ p <= Len(localResults')
        /\ \A q \in Local!Pairs \ {p} : q <= Len(localResults') <=> q <= Len(localResults)
    BY <2>1, <2>2, <2>4, LocalPairs
  <2>6. Local!Stage(p)' = "reported" /\ LocalVerdict' = "open"
    BY <1>4, <2>5, LocalStageIs DEF LocalVerdict
  <2>7. \A q \in Local!Pairs \ {p} : Local!Stage(q)' = Local!Stage(q)
    BY <1>1, <1>2, <2>5, LocalStageIs
  <2>8. Local!Campaign!Move(p, "ended", "reported")
    BY <1>3, <2>6, <2>7, LocalMoves
  <2>9. QED
    BY <1>3, <2>8 DEF LocalStep, Local!Campaign!Next, Local!Campaign!Report, LocalVerdict
<1>5. CASE localMain' = "raised" /\ localResults' = localResults
  <2>1. \A q \in Local!Pairs : Local!Stage(q)' = Local!Stage(q)
    BY <1>1, <1>5, LocalStageIs
  <2>2. LocalStages' = LocalStages /\ LocalVerdict' = "failure"
    BY <1>5, <2>1 DEF LocalStages, LocalVerdict
  <2>3. Local!Campaign!Fail
    BY <1>3, <2>2 DEF Local!Campaign!Fail, LocalStages, LocalVerdict
  <2>4. QED
    BY <2>3 DEF LocalStep, Local!Campaign!Next
<1>6. QED
  BY <1>4, <1>5 DEF Local!CallBack

\* Every step is a step of PairCampaign or changes nothing there.
LEMMA LocalStepImplements == LocalInv /\ [Local!Next]_localVars => LocalStep
<1> SUFFICES ASSUME LocalInv, [Local!Next]_localVars PROVE LocalStep
  OBVIOUS
<1>1. CASE UNCHANGED localVars \/ Local!Start
  <2>1. UNCHANGED <<localPair, localResults>>
        /\ (localMain' = localMain \/ (localMain = "starting" /\ localMain' = "running"))
    BY <1>1 DEF localVars, Local!Start
  <2>2. \A q \in Local!Pairs : Local!Stage(q)' = Local!Stage(q)
    BY <2>1 DEF Local!Stage
  <2>3. QED
    BY <2>1, <2>2 DEF LocalStep, LocalStages, LocalVerdict
<1>2. QED
  BY <1>1, LocalDraw, LocalRun, LocalCallBack DEF Local!Next

\* LocalImplementsCampaign (LocalPairJobController.submit_jobs): the local
\* controller keeps the promise of PairCampaign too, one pair at a time, for any
\* number of pairs and wherever a spec file, a runner or a callback fails.
THEOREM LocalCampaignImplemented == Local!Spec => LocalImplementsCampaign
<1>1. Local!Init => Local!Campaign!Init
  BY CampaignAssumption DEF Local!Init, Local!Campaign!Init, Local!Stage, Local!Pairs
<1>2. LocalInv /\ [Local!Next]_localVars => [Local!Campaign!Next]_<<LocalStages, LocalVerdict>>
  BY LocalStepImplements DEF LocalStep
<1>3. QED
  BY LocalInitInv, LocalStepInv, <1>1, <1>2, PTL
  DEF Local!Spec, Local!vars, localVars, LocalImplementsCampaign, Local!ImplementsCampaign,
      Local!Campaign!Spec, LocalStages, LocalVerdict
=============================================================================
