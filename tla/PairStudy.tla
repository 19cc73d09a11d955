----------------------------- MODULE PairStudy -----------------------------
(***************************************************************************)
(* What the job of one dataset-model pair publishes of its results while   *)
(* it works, and what the controller makes of it when the job has ended:   *)
(* the tuning and single-train workflows of core/tuning_runner.py, the     *)
(* trainable of core/model_objectives.py, and the output callback of       *)
(* core/tune/callbacks.py.                                                 *)
(*                                                                         *)
(* A snapshot is written to three places, one after the other: the file    *)
(* result.json of the pair, the artifact summary/result.json of the MLflow *)
(* run of its current study, and its cells of the workbook that all pairs  *)
(* share.  The process may be stopped, or raise, between any two writes    *)
(* and inside those done in place.  MLflow artifacts appear whole.         *)
(*                                                                         *)
(* The pairs are those of one model in one campaign, named by the dataset  *)
(* that was asked for.  Scores are abstract and larger is better; any      *)
(* score may come of a seed, and the mean over seeds may move either way.  *)
(***************************************************************************)
EXTENDS Integers, Sequences, FiniteSetsExt

CONSTANTS Names,         \* names of datasets
          Pairs,         \* those that were asked for
          BaseName,      \* the name without "_tsst"
          Trials,        \* the trials of a search
          HpoSeeds,      \* how many seeds a trial evaluates
          FullSeeds,     \* how many seeds the final evaluation has
          MaxConcurrent, \* max_concurrent_trials
          MaxFailures,   \* FailureConfig(max_failures)
          Scores,        \* the scores seeds may lead to
          Modes,         \* kinds of campaigns: Ray or local search, single train
          OtherModels,   \* whether jobs of other models share the workbook
          None, Torn, StatusRow, BlankRow

Invalid == 0 \* _invalid_trial_metric_value: worse than every score

ASSUME StudyAssumption ==
  /\ Pairs \subseteq Names
  /\ BaseName \in [Pairs -> Names]
  /\ IsFiniteSet(Trials) /\ Trials # {}
  /\ HpoSeeds \in Nat \ {0}
  /\ FullSeeds \in Nat \ {0}
  /\ MaxConcurrent \in Nat \ {0}
  /\ MaxFailures \in Nat
  /\ Scores \subseteq Nat \ {Invalid}
  /\ Modes \subseteq {"ray", "local", "train"}
  /\ OtherModels \in BOOLEAN

VARIABLES mode,      \* the kind of this campaign
          finalEval, \* whether an evaluation follows a search (final_eval_after_hpo)
          outages,   \* whether reads from MLflow may fail
          stage,     \* where the job of a pair is
          trial,     \* the trials of the search of a pair
          best,      \* _best_metric_value, best_value
          tally,     \* the evaluation over the full seeds so far
          written,   \* how many snapshots were begun: numbers them
          studies,   \* the study runs in MLflow, in the order of their start
          file,      \* result.json of a pair
          workbook,  \* the rows of noboom_experiments.xlsx
          report     \* what on_job_terminal made of a pair

process == <<trial, best, tally>>
outputs == <<written, studies, file, workbook>>
campaign == <<mode, finalEval, outages>>
vars == <<campaign, stage, process, outputs, report>>

\* PairResult, as far as it matters
Snapshots ==
  [pair : Pairs, rank : Nat \ {0}, score : Scores \cup {Invalid}, seeds : Nat,
   source : {"incremental_best_trial", "hpo_best_trial",
             "incremental_final_eval", "final_eval"}]
\* The two last sources also stand for the names they have after a search.

\* What marks a value that is not there, or not whole, is no such value.
ASSUME MarkAssumption == None \notin Nat /\ {None, Torn} \cap Snapshots = {}

TrialStates ==
  [state : {"pending", "running", "ended"}, seeds : 0 .. HpoSeeds,
   last : Scores \cup {Invalid, None}, failures : 0 .. MaxFailures]

TypeOK ==
  /\ mode \in Modes
  /\ finalEval \in BOOLEAN
  /\ outages \in BOOLEAN
  /\ stage \in [Pairs -> {"queued", "search", "selected", "eval", "returned",
                          "failed", "stopped", "reported"}]
  /\ trial \in [Pairs -> [Trials -> TrialStates]]
  /\ best \in [Pairs -> Scores \cup {Invalid, None}]
  /\ tally \in [Pairs -> [seeds : 0 .. FullSeeds, score : Scores \cup {None}]]
  /\ written \in [Pairs -> Nat]
  /\ \A i \in DOMAIN studies :
       /\ studies[i].pair \in Pairs
       /\ studies[i].summary \in Snapshots \cup {None}
  /\ \A p \in Pairs :
       /\ file[p] \in Snapshots \cup {None, Torn}
       /\ workbook # Torn =>
            workbook[p] \in Snapshots \cup {None, StatusRow, BlankRow}
       /\ report[p] # None => /\ report[p].status \in {"SUCCEEDED", "FAILED", "STOPPED"}
                              /\ report[p].raised \in BOOLEAN
                              /\ report[p].result \in Snapshots \cup {None}

Pending == [state |-> "pending", seeds |-> 0, last |-> None, failures |-> 0]
NoTally == [seeds |-> 0, score |-> None]

Init ==
  /\ mode \in Modes
  /\ finalEval \in BOOLEAN
  /\ outages \in BOOLEAN
  /\ stage = [p \in Pairs |-> "queued"]
  /\ trial = [p \in Pairs |-> [t \in Trials |-> Pending]]
  /\ best = [p \in Pairs |-> None]
  /\ tally = [p \in Pairs |-> NoTally]
  /\ written = [p \in Pairs |-> 0]
  /\ studies = <<>>
  /\ file = [p \in Pairs |-> None]
  /\ workbook = [p \in Pairs |-> None]
  /\ report = [p \in Pairs |-> None]

----------------------------------------------------------------------------
(* _persist_pair_snapshot                                                  *)

\* args.study_run_id: the study the pair started last
CurrentStudy(p) == Max({i \in DOMAIN studies : studies[i].pair = p})

Snapshot(p, result, source) ==
  [pair |-> p, rank |-> written[p] + 1, score |-> result.score,
   seeds |-> result.seeds, source |-> source]

\* Mutant: write_mlflow is off.
PersistLocally(p, snapshot) ==
  /\ workbook # Torn
  /\ written' = [written EXCEPT ![p] = @ + 1]
  /\ file' = [file EXCEPT ![p] = snapshot]
  /\ workbook' = [workbook EXCEPT ![p] = snapshot]
  /\ UNCHANGED studies

\* All three writes succeed.
Persist(p, snapshot) ==
  /\ workbook # Torn
  /\ written' = [written EXCEPT ![p] = @ + 1]
  /\ file' = [file EXCEPT ![p] = snapshot]
  /\ studies' = [studies EXCEPT ![CurrentStudy(p)].summary = snapshot]
  /\ workbook' = [workbook EXCEPT ![p] = snapshot]

\* Only some writes happen: result.json is left torn (1) or is written (2),
\* MLflow has the snapshot too (3), the workbook is left torn (4).
PersistUpTo(p, snapshot, step) ==
  /\ step = 4 => workbook # Torn
  /\ written' = [written EXCEPT ![p] = @ + 1]
  /\ file' = [file EXCEPT ![p] = IF step = 1 THEN Torn ELSE snapshot]
  /\ studies' = IF step < 3 THEN studies
                ELSE [studies EXCEPT ![CurrentStudy(p)].summary = snapshot]
  /\ workbook' = IF step < 4 THEN workbook ELSE Torn

NewStudy(p) == studies' = Append(studies, [pair |-> p, summary |-> None])

----------------------------------------------------------------------------
(* The search: execute_tuning_workflow and execute_local_tuning_workflow   *)

StartSearch(p) ==
  /\ stage[p] = "queued"
  /\ mode \in {"ray", "local"}
  /\ stage' = [stage EXCEPT ![p] = "search"]
  /\ NewStudy(p)
  /\ UNCHANGED <<campaign, process, written, file, workbook, report>>

Running(p) == {t \in Trials : trial[p][t].state = "running"}

StartTrial(p, t) ==
  /\ stage[p] = "search"
  /\ trial[p][t].state = "pending"
  /\ Cardinality(Running(p)) < (IF mode = "ray" THEN MaxConcurrent ELSE 1)
  /\ trial' = [trial EXCEPT ![p][t].state = "running"]
  /\ UNCHANGED <<campaign, stage, best, tally, outputs, report>>

\* What a running trial may report next.  Ray hears of every seed, the local
\* loop of the whole trial; a configuration is found invalid at the start.
Results(p, t) ==
  LET seeds == IF mode = "ray" THEN trial[p][t].seeds + 1 ELSE HpoSeeds
  IN  [score : Scores, seeds : {seeds}]
        \cup IF trial[p][t].last = None /\ trial[p][t].failures = 0
             THEN {[score |-> Invalid, seeds |-> 0]}
             ELSE {}

\* Mutant: any change of the score is published.
Changes(p, score) == score # best[p]

Improves(p, score) == best[p] # None => score > best[p]

\* The trial goes on, has returned, or is stopped by the scheduler.
AfterResult(p, t, result) ==
  {[trial[p][t] EXCEPT !.seeds = result.seeds, !.last = result.score, !.state = s] :
     s \in IF mode = "ray" /\ result.seeds \in 1 .. HpoSeeds - 1
           THEN {"running", "ended"}
           ELSE {"ended"}}

\* BestTrialSnapshotCallback.on_trial_result, and its counterpart in the
\* local loop
TrialResult(p, t) ==
  /\ stage[p] = "search"
  /\ t \in Running(p)
  /\ \E result \in Results(p, t) :
       /\ \E after \in AfterResult(p, t, result) : trial' = [trial EXCEPT ![p][t] = after]
       /\ \/ /\ Improves(p, result.score)
             /\ best' = [best EXCEPT ![p] = result.score]
             /\ Persist(p, Snapshot(p, result, "incremental_best_trial"))
          \/ /\ ~ Improves(p, result.score)
             /\ UNCHANGED <<best, outputs>>
  /\ UNCHANGED <<campaign, stage, tally, report>>

\* Mutant: a trial is retried for ever.
RetryAlways(p, t) ==
  /\ stage[p] = "search" /\ mode = "ray" /\ t \in Running(p)
  /\ trial' = [trial EXCEPT ![p][t].seeds = 0, ![p][t].failures = MaxFailures]
  /\ UNCHANGED <<campaign, stage, best, tally, outputs, report>>

\* The trainable raised or its worker died.  Ray starts it again from its
\* first seed, at most MaxFailures times; the last result stays.
TrialFails(p, t) ==
  /\ stage[p] = "search"
  /\ mode = "ray"
  /\ t \in Running(p)
  /\ \/ /\ trial[p][t].failures < MaxFailures
        /\ trial' = [trial EXCEPT ![p][t].seeds = 0, ![p][t].failures = @ + 1]
     \/ /\ trial[p][t].failures = MaxFailures
        /\ trial' = [trial EXCEPT ![p][t].state = "ended"]
  /\ UNCHANGED <<campaign, stage, best, tally, outputs, report>>

SearchOver(p) == stage[p] = "search" /\ \A t \in Trials : trial[p][t].state = "ended"

\* get_best_result: the best of the last results of all trials, those that
\* failed or were stopped early among them
BestResults(p) ==
  LET reporting == {t \in Trials : trial[p][t].last # None}
  IN  {[score |-> trial[p][t].last, seeds |-> trial[p][t].seeds] :
         t \in {u \in reporting : \A v \in reporting : trial[p][v].last <= trial[p][u].last}}

FinishSearch(p) ==
  /\ SearchOver(p)
  /\ \E result \in BestResults(p) : Persist(p, Snapshot(p, result, "hpo_best_trial"))
  /\ stage' = [stage EXCEPT ![p] = IF finalEval THEN "selected" ELSE "returned"]
  /\ UNCHANGED <<campaign, process, report>>

----------------------------------------------------------------------------
(* execute_single_train_workflow, on its own or after a search.  It writes *)
(* no snapshot before all its seeds are done.                              *)

StartEval(p) ==
  /\ stage[p] = (IF mode = "train" THEN "queued" ELSE "selected")
  /\ stage' = [stage EXCEPT ![p] = "eval"]
  /\ NewStudy(p)
  /\ UNCHANGED <<campaign, process, written, file, workbook, report>>

EvalResult(p, score) == [score |-> score, seeds |-> tally[p].seeds + 1]

EvalSnapshot(p) ==
  /\ stage[p] = "eval"
  /\ tally[p].seeds < FullSeeds
  /\ \E score \in Scores :
       /\ tally' = [tally EXCEPT ![p] = EvalResult(p, score)]
       /\ Persist(p, Snapshot(p, EvalResult(p, score), "incremental_final_eval"))
  /\ UNCHANGED <<campaign, stage, trial, best, report>>

\* Mutant: the evaluation is final one seed early.
FinishEvalEarly(p) ==
  /\ stage[p] = "eval"
  /\ tally[p].seeds >= FullSeeds - 1 /\ tally[p].score # None
  /\ Persist(p, Snapshot(p, tally[p], "final_eval"))
  /\ stage' = [stage EXCEPT ![p] = "returned"]
  /\ UNCHANGED <<campaign, process, report>>

FinishEval(p) ==
  /\ stage[p] = "eval"
  /\ tally[p].seeds = FullSeeds
  /\ Persist(p, Snapshot(p, tally[p], "final_eval"))
  /\ stage' = [stage EXCEPT ![p] = "returned"]
  /\ UNCHANGED <<campaign, process, report>>

----------------------------------------------------------------------------
(* The end of a job before its time                                        *)

AtWork(p) == stage[p] \in {"queued", "search", "selected", "eval"}

\* The snapshots that the job of p may be writing when it ends.
NextSnapshots(p) ==
  {Snapshot(p, result, "incremental_best_trial") :
     result \in {r \in UNION {Results(p, t) : t \in IF stage[p] = "search" THEN Running(p) ELSE {}} :
                   Improves(p, r.score)}}
  \cup {Snapshot(p, result, "hpo_best_trial") :
          result \in IF SearchOver(p) THEN BestResults(p) ELSE {}}
  \cup {Snapshot(p, EvalResult(p, score), "incremental_final_eval") :
          score \in IF stage[p] = "eval" /\ tally[p].seeds < FullSeeds THEN Scores ELSE {}}
  \cup {Snapshot(p, tally[q], "final_eval") :
          q \in {r \in {p} : stage[r] = "eval" /\ tally[r].seeds = FullSeeds}}

\* The process is gone, and what it knew with it.
EndJob(p, how) ==
  /\ stage' = [stage EXCEPT ![p] = how]
  /\ trial' = [trial EXCEPT ![p] = [t \in Trials |-> Pending]]
  /\ best' = [best EXCEPT ![p] = None]
  /\ tally' = [tally EXCEPT ![p] = NoTally]
  /\ UNCHANGED <<campaign, report>>

\* The job is stopped, is killed, or raises, between two snapshots or within
\* the writing of one.
Interrupt(p) ==
  /\ AtWork(p)
  /\ \E how \in {"failed", "stopped"} : EndJob(p, how)
  /\ \/ UNCHANGED outputs
     \/ \E snapshot \in NextSnapshots(p), step \in 1 .. 4 : PersistUpTo(p, snapshot, step)

\* update_score_excel_one cannot read the workbook that another job left.
WorkbookUnreadable(p) ==
  /\ workbook = Torn
  /\ EndJob(p, "failed")
  /\ \E snapshot \in NextSnapshots(p) : PersistUpTo(p, snapshot, 3)

\* get_best_result has nothing to choose from.
NoResult(p) ==
  /\ SearchOver(p)
  /\ BestResults(p) = {}
  /\ EndJob(p, "failed")
  /\ UNCHANGED outputs

----------------------------------------------------------------------------
(* MlflowSeafilePairOutputCallback.on_job_terminal                         *)

Status(p) == CASE stage[p] = "returned" -> "SUCCEEDED"
               [] stage[p] = "failed"   -> "FAILED"
               [] stage[p] = "stopped"  -> "STOPPED"

\* Mutant: the oldest study run is taken.
FromOldest(p) ==
  LET found == {i \in DOMAIN studies : BaseName[studies[i].pair] = p}
  IN  IF found = {} THEN None ELSE studies[Min(found)].summary

\* load_json_artifact_from_mlflow: the newest study run tagged with the name
\* of the pair, if its artifact can be had
FromMlflow(p) ==
  LET found == {i \in DOMAIN studies : BaseName[studies[i].pair] = p}
  IN  IF found = {} THEN None ELSE studies[Max(found)].summary

\* _load_result: MLflow before the file of the pair
Loads(p) ==
  {IF FromMlflow(p) # None THEN FromMlflow(p) ELSE file[p]}
    \cup IF outages THEN {file[p]} ELSE {}

Reported(p, result, raised) ==
  /\ report' = [report EXCEPT ![p] = [status |-> Status(p), result |-> result, raised |-> raised]]
  /\ stage' = [stage EXCEPT ![p] = "reported"]
  /\ UNCHANGED <<campaign, process, written, studies, file>>

\* Some row gives the workbook columns.
HasColumns == \E q \in Pairs : workbook[q] # None

\* What becomes of the row of the pair in the workbook: its scores, or that it
\* failed, or an empty row under the columns there are
Rows(p, result) ==
  IF result # None THEN {result}
  ELSE IF stage[p] = "failed" THEN {StatusRow}
  ELSE IF stage[p] = "returned" THEN {workbook[p]}
  ELSE (IF OtherModels \/ HasColumns THEN {BlankRow} ELSE {})
         \cup (IF HasColumns THEN {} ELSE {workbook[p]})

JobTerminal(p) ==
  /\ stage[p] \in {"returned", "failed", "stopped"}
  /\ workbook # Torn
  /\ \E result \in Loads(p) \ {Torn} :
       /\ Reported(p, result, FALSE)
       /\ \E row \in Rows(p, result) : workbook' = [workbook EXCEPT ![p] = row]

\* The callback raises: three reads failed, result.json does not parse, or
\* the workbook cannot be read.  Only a look for columns survives the latter.
JobTerminalRaises(p) ==
  /\ stage[p] \in {"returned", "failed", "stopped"}
  /\ \/ /\ outages \/ Torn \in Loads(p)
        /\ Reported(p, None, TRUE)
     \/ /\ workbook = Torn
        /\ \E result \in Loads(p) \ {Torn} :
             Reported(p, result, result # None \/ stage[p] = "failed")
  /\ UNCHANGED workbook

----------------------------------------------------------------------------
Works(p) ==
  \/ StartSearch(p) \/ FinishSearch(p) \/ NoResult(p)
  \/ \E t \in Trials : StartTrial(p, t) \/ TrialResult(p, t) \/ TrialFails(p, t)
  \/ StartEval(p) \/ EvalSnapshot(p) \/ FinishEval(p)
  \/ WorkbookUnreadable(p)
  \/ JobTerminal(p) \/ JobTerminalRaises(p)

\* A job of another model is stopped while it writes the workbook.
OthersTearWorkbook ==
  /\ OtherModels
  /\ workbook # Torn
  /\ workbook' = Torn
  /\ UNCHANGED <<campaign, stage, process, written, studies, file, report>>

Next ==
  \/ \E p \in Pairs : Works(p) \/ Interrupt(p)
  \/ OthersTearWorkbook

\* A job gets on with its work, and the controller runs the callback of every
\* job that ended.
Spec == Init /\ [][Next]_vars /\ \A p \in Pairs : WF_vars(Works(p))

(* Properties                                                              *)

Published(p) == written[p] > 0

\* While a job works, and when it has returned, the three places hold the
\* same snapshot of its pair, the last one; only a study that has just been
\* started has no summary yet.
CopiesAgree ==
  \A p \in Pairs : (AtWork(p) \/ stage[p] = "returned") /\ Published(p) =>
    /\ file[p] \in Snapshots
    /\ file[p].pair = p
    /\ file[p].rank = written[p]
    /\ \/ studies[CurrentStudy(p)].summary = file[p]
       \/ /\ studies[CurrentStudy(p)].summary = None
          /\ stage[p] = "eval" /\ tally[p].seeds = 0
    /\ workbook = Torn \/ workbook[p] = file[p]

\* During a search no trial has a better last result than the one that is
\* published, whatever failed, was retried or was stopped early.
SearchPublishesBest ==
  \A p \in Pairs, t \in Trials : stage[p] = "search" /\ trial[p][t].last # None =>
    /\ file[p] \in Snapshots
    /\ file[p].score >= trial[p][t].last

\* No study run of another pair carries the name of p.
NameIsUnshared(p) == \A q \in Pairs \ {p} : BaseName[q] # p

\* The final result of p: that of the evaluation over all seeds where there is
\* one, else the best trial's.
IsFinal(p, result) ==
  /\ result \in Snapshots
  /\ result.rank = written[p]
  /\ IF mode = "train" \/ finalEval
     THEN result.source = "final_eval" /\ result.seeds = FullSeeds
     ELSE result.source = "hpo_best_trial"

\* However its job ended, a pair is reported with its last snapshot or the one
\* before, and without a result only if it never began to write one; as
\* SUCCEEDED only with its final result.  The callback raises only over a torn
\* file or a failing MLflow.
ReportedIsLatest ==
  \A p \in Pairs : stage[p] = "reported" /\ NameIsUnshared(p) =>
    IF report[p].raised
    THEN file[p] = Torn \/ workbook = Torn \/ outages
    ELSE /\ IF report[p].result = None
            THEN ~ Published(p)
            ELSE /\ report[p].result.pair = p
                 /\ report[p].result.rank \in {written[p] - 1, written[p]}
         /\ report[p].status = "SUCCEEDED" => IsFinal(p, report[p].result)

\* A job that was started ends, and its pair is reported.
PairsAreReported ==
  \A p \in Pairs : stage[p] # "queued" ~> stage[p] = "reported"

\* A result that is reported for a pair is one of that pair.
ReportIsOwn ==
  \A p \in Pairs : stage[p] = "reported" /\ report[p].result # None =>
    report[p].result.pair = p
=============================================================================
