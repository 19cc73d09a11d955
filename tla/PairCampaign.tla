---------------------------- MODULE PairCampaign ----------------------------
(***************************************************************************)
(* What a pair job controller promises the caller of submit_jobs: every    *)
(* dataset/model pair is launched at most once and never more than Width   *)
(* of them run at a time, the outcome of a pair is reported after its job  *)
(* has ended and at most once, and the call succeeds only when every pair  *)
(* has been reported.  After the verdict nothing is launched or reported.  *)
(***************************************************************************)
EXTENDS Integers, FiniteSets

CONSTANTS Pairs, \* the dataset/model pairs of a controller run
          Width  \* how many may run at a time

VARIABLES stage,  \* "waiting", "running", "ended", "reported", "botched"
          verdict \* "open", "success", "failure"

Stages == {"waiting", "running", "ended", "reported", "botched"}

At(where) == {p \in Pairs : stage[p] = where}

Init ==
  /\ stage = [p \in Pairs |-> "waiting"]
  /\ verdict = "open"

Move(p, from, to) ==
  /\ stage[p] = from
  /\ stage' = [stage EXCEPT ![p] = to]
  /\ UNCHANGED verdict

Launch(p) ==
  /\ verdict = "open"
  /\ Cardinality(At("running")) < Width
  /\ Move(p, "waiting", "running")

\* Jobs end when they end: a run that failed may leave some behind.
End(p) == Move(p, "running", "ended")

\* The output callback has returned, or has raised.
Report(p) ==
  /\ verdict = "open"
  /\ Move(p, "ended", "reported") \/ Move(p, "ended", "botched")

Succeed ==
  /\ verdict = "open"
  /\ At("reported") = Pairs
  /\ verdict' = "success"
  /\ UNCHANGED stage

Fail ==
  /\ verdict = "open"
  /\ verdict' = "failure"
  /\ UNCHANGED stage

Next ==
  \/ \E p \in Pairs : Launch(p) \/ End(p) \/ Report(p)
  \/ Succeed
  \/ Fail

Spec == Init /\ [][Next]_<<stage, verdict>>
=============================================================================
