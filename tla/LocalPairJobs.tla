--------------------------- MODULE LocalPairJobs ---------------------------
(***************************************************************************)
(* LocalPairJobController.submit_jobs of core/tune/job_submission.py: the  *)
(* pairs one after the other in the controller's own process, with the     *)
(* callback contract of the Ray controller.                                *)
(***************************************************************************)
EXTENDS Integers, FiniteSets, SequencesExt

CONSTANT N \* how many pairs, a natural number

Pairs == 1 .. N

VARIABLES main,    \* "next", "starting", "running", "calling back", "returned", "raised"
          pair,    \* the pair it is at
          status,  \* how the runner of this pair ended
          results  \* the statuses returned so far

vars == <<main, pair, status, results>>

Statuses == {"SUCCEEDED", "FAILED"}

TypeOK ==
  /\ main \in {"next", "starting", "running", "calling back", "returned", "raised"}
  /\ pair \in 0 .. N
  /\ status \in Statuses
  /\ results \in Seq(Statuses)

Init ==
  /\ main = "next"
  /\ pair = 0
  /\ status = "SUCCEEDED"
  /\ results = <<>>

\* The loop draws a pair and writes its spec file, which may fail.
Draw ==
  /\ main = "next"
  /\ \/ /\ pair = N
        /\ main' = "returned"
        /\ UNCHANGED <<pair, status>>
     \/ /\ pair < N
        /\ pair' = pair + 1
        /\ status' = "SUCCEEDED"
        /\ main' = "starting"
     \/ /\ pair < N
        /\ main' = "raised"
        /\ UNCHANGED <<pair, status>>
  /\ UNCHANGED results

\* on_job_start: its failure is logged.
Start ==
  /\ main = "starting"
  /\ main' = "running"
  /\ UNCHANGED <<pair, status, results>>

\* The runner returns, or raises: then the pair has failed.
Run ==
  /\ main = "running"
  /\ status' \in Statuses
  /\ main' = "calling back"
  /\ UNCHANGED <<pair, results>>

\* Mutant: a callback that raises is passed over.
CallBackLenient ==
  /\ main = "calling back"
  /\ results' \in {results, Append(results, status)}
  /\ main' = "next"
  /\ UNCHANGED <<pair, status>>

\* on_job_terminal: if it raises, so does submit_jobs.
CallBack ==
  /\ main = "calling back"
  /\ \/ /\ results' = Append(results, status)
        /\ main' = "next"
     \/ /\ main' = "raised"
        /\ UNCHANGED results
  /\ UNCHANGED <<pair, status>>

Next == Draw \/ Start \/ Run \/ CallBack

Spec == Init /\ [][Next]_vars /\ WF_vars(Next)

----------------------------------------------------------------------------
Stage(p) == IF p <= Len(results) THEN "reported"
            ELSE IF p > pair THEN "waiting"
            ELSE IF main \in {"starting", "running"} THEN "running"
            ELSE "ended"

Campaign == INSTANCE PairCampaign WITH
              Width <- 1,
              stage <- [p \in Pairs |-> Stage(p)],
              verdict <- CASE main = "returned" -> "success"
                           [] main = "raised"   -> "failure"
                           [] OTHER             -> "open"

\* The local controller keeps the promise of PairCampaign, one pair at a
\* time: a pair whose runner failed is reported like any other, and the call
\* returns only when every pair has been.
ImplementsCampaign == Campaign!Spec
=============================================================================
