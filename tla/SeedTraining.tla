---------------------------- MODULE SeedTraining ----------------------------
(***************************************************************************)
(* One seed of a trial (train_func of core/model_objectives.py and the     *)
(* hooks of benchmark_utils/benchmark_model.py): a network is trained on   *)
(* synthetic data, if the study asks for that, then on real data from the  *)
(* weights of the first stage.  When the training of a stage ends, the     *)
(* anomaly detector is fitted on the network, and the two score the test   *)
(* data.  A trial that fails is started again, and goes on from the last   *)
(* checkpoint it finds on its node.                                        *)
(*                                                                         *)
(* A network is a number, a new one for each epoch of training.            *)
(***************************************************************************)
EXTENDS Integers

CONSTANTS TrialNodes,       \* where an attempt may run
          Epochs,      \* max_epochs of each stage
          CheckEvery,  \* check_val_every_n_epoch
          MaxAttempts  \* bound: 4 in the code (max_failures)

Stages == {"synthetic", "real"}

ASSUME SeedAssumption ==
  /\ Epochs \in [Stages -> Nat \ {0}]
  /\ CheckEvery \in Nat \ {0} /\ MaxAttempts \in Nat \ {0}

VARIABLES seedAt,      \* where the attempt is
          useGenerated, lightning, saveCheckpoints, \* of the study: see SeedInit
          node, attempt,
          onStage,     \* stage
          network,     \* the network in memory
          origin,      \* the network whose weights the training began with
          epoch,       \* epochs of the stage
          detector,    \* what the detector is fitted on
          handed,      \* ckpt_path
          last,        \* last.ckpt of each node and stage
          scoredBy,     \* stage_results
          trained,     \* how many networks there were
          reopened     \* nodes on which a synthetic stage that had ended was trained further

study == <<useGenerated, lightning, saveCheckpoints>>
memory == <<network, origin, epoch, detector>>
seedVars == <<seedAt, study, node, attempt, onStage, memory, handed, last, scoredBy, trained, reopened>>

None == 0
Unfitted == [network |-> None, stage |-> "none"]
NoCheckpoint == [network |-> None, origin |-> None, epoch |-> 0, detector |-> Unfitted, ended |-> FALSE]
NoResult == [network |-> None, origin |-> None, detector |-> Unfitted, ended |-> None]

\* lightning: uses_lightning_optimizer, of a model whose checkpoints matter
SeedInit ==
  /\ seedAt = "opening"
  /\ useGenerated \in BOOLEAN /\ lightning \in BOOLEAN /\ saveCheckpoints \in BOOLEAN
  /\ node \in TrialNodes /\ attempt = 1
  /\ onStage = IF useGenerated THEN "synthetic" ELSE "real"
  /\ network = None /\ origin = None /\ epoch = 0 /\ detector = Unfitted
  /\ handed = None
  /\ last = [n \in TrialNodes |-> [s \in Stages |-> NoCheckpoint]]
  /\ scoredBy = [s \in Stages |-> NoResult]
  /\ trained = 0
  /\ reopened = {}

----------------------------------------------------------------------------
Saved(s) == last[node][s]
HasLast(s) == Saved(s) # NoCheckpoint

\* Mutant: the directory of the runtime checkpoints is not split by stage.
ResumeAny(s) == IF HasLast(s) \/ s = "synthetic" THEN Saved(s) ELSE Saved("synthetic")

\* _resolve_last_checkpoint_path of the stage to resume
Resume(s) == Saved(s)

\* trainer.fit returns at once from a checkpoint of the last epoch's end.
IsOver(s, checkpoint) == checkpoint.ended /\ checkpoint.epoch >= Epochs[s]

\* Where the training goes on from a checkpoint.
Reentry(s, checkpoint) ==
  IF IsOver(s, checkpoint) THEN "predicting"
  ELSE IF checkpoint.epoch >= Epochs[s] /\ ~ checkpoint.ended THEN "ending" ELSE "training"

\* A new model, with the weights of the stage before (setup).
NewNetwork ==
  /\ trained' = trained + 1 /\ network' = trained'
  /\ origin' = handed /\ epoch' = 0 /\ detector' = Unfitted
  /\ seedAt' = "training"
  /\ UNCHANGED reopened

\* Or all that a checkpoint holds.  A stage that stopped early is trained further.
Restore(c) ==
  /\ network' = c.network /\ origin' = c.origin
  /\ epoch' = c.epoch /\ detector' = c.detector
  /\ seedAt' = Reentry(onStage, c)
  /\ reopened' = IF onStage = "synthetic" /\ c.ended /\ ~ IsOver(onStage, c)
                 THEN reopened \cup {node} ELSE reopened
  /\ UNCHANGED trained

OpenStage ==
  /\ seedAt = "opening"
  /\ IF Resume(onStage) = NoCheckpoint THEN NewNetwork ELSE Restore(Resume(onStage))
  /\ UNCHANGED <<study, node, attempt, onStage, handed, last, scoredBy>>

Checkpoint(fitted, ended) ==
  [network |-> network, origin |-> origin, epoch |-> epoch, detector |-> fitted, ended |-> ended]

SaveLast(fitted, ended) == last' = [last EXCEPT ![node][onStage] = Checkpoint(fitted, ended)]

TrainEpoch ==
  /\ seedAt = "training"
  /\ trained' = trained + 1 /\ network' = trained'
  /\ epoch' = epoch + 1
  /\ seedAt' = IF epoch' % CheckEvery = 0 THEN "validating"
                ELSE IF epoch' >= Epochs[onStage] THEN "ending" ELSE "training"
  /\ UNCHANGED <<study, node, attempt, onStage, origin, detector, handed, last, scoredBy, reopened>>

\* EarlyStopping looks at the validation loss, ModelCheckpoint saves last.ckpt.
ValidateNetwork ==
  /\ seedAt = "validating"
  /\ UNCHANGED detector
  /\ SaveLast(detector, FALSE)
  /\ seedAt' \in {"ending"} \cup (IF epoch < Epochs[onStage] THEN {"training"} ELSE {})
  /\ UNCHANGED <<study, node, attempt, onStage, network, origin, epoch, handed, scoredBy, trained, reopened>>

\* _fit_detector: on the training data of the stage, with this network
Fitted(net) == [network |-> net, stage |-> onStage]

\* Mutant: a detector that is fitted is not fitted again.
EndTrainingOnce ==
  /\ seedAt = "ending"
  /\ detector' = IF detector = Unfitted THEN Fitted(network) ELSE detector
  /\ SaveLast(detector', TRUE)
  /\ seedAt' = "predicting"
  /\ UNCHANGED <<study, node, attempt, onStage, network, origin, epoch, handed, scoredBy, trained, reopened>>

\* on_train_end fits the detector on the network and saves last.ckpt again.
EndTraining ==
  /\ seedAt = "ending"
  /\ detector' = Fitted(network)
  /\ SaveLast(detector', TRUE)
  /\ seedAt' = "predicting"
  /\ UNCHANGED <<study, node, attempt, onStage, network, origin, epoch, handed, scoredBy, trained, reopened>>

\* trainer.predict on what last.ckpt holds, or on the model in memory.
\* on_predict_start fits a detector that is not fitted.
Predict ==
  /\ seedAt = "predicting"
  /\ lightning => HasLast(onStage)
  /\ LET c == IF lightning THEN Saved(onStage) ELSE Checkpoint(detector, TRUE)
         fit == IF c.detector = Unfitted THEN Fitted(c.network) ELSE c.detector
     IN  /\ scoredBy' = [scoredBy EXCEPT ![onStage] =
              [network |-> c.network, origin |-> c.origin, detector |-> fit, ended |-> network]]
         /\ network' = c.network /\ detector' = fit
  /\ seedAt' = "scored"
  /\ UNCHANGED <<study, node, attempt, onStage, origin, epoch, handed, last, trained, reopened>>

\* The real stage starts from the checkpoint the synthetic one was scored with.
NextStage ==
  /\ seedAt = "scored" /\ onStage = "synthetic"
  /\ handed' = IF lightning THEN Saved(onStage).network ELSE handed
  /\ onStage' = "real" /\ seedAt' = "opening"
  /\ network' = None /\ origin' = None /\ epoch' = 0 /\ detector' = Unfitted
  /\ UNCHANGED <<study, node, attempt, last, scoredBy, trained, reopened>>

----------------------------------------------------------------------------
\* The finally clause: the runtime checkpoints go, unless they are artifacts.
RemoveRuntime == last' = IF saveCheckpoints THEN last ELSE [last EXCEPT ![node] = [s \in Stages |-> NoCheckpoint]]

LeaveTraining(place) ==
  /\ seedAt' = place
  /\ network' = None /\ origin' = None /\ epoch' = 0 /\ detector' = Unfitted /\ handed' = None

FinishStages ==
  /\ seedAt = "scored" /\ onStage = "real"
  /\ RemoveRuntime /\ LeaveTraining("logging")
  /\ UNCHANGED <<study, node, attempt, onStage, scoredBy, trained, reopened>>

\* run_seed_task_local logs and saves the scoredBy.
LogSeed ==
  /\ seedAt = "logging"
  /\ seedAt' = "done"
  /\ UNCHANGED <<study, node, attempt, onStage, memory, handed, last, scoredBy, trained, reopened>>

AtWork == seedAt \notin {"done", "failed", "logging"}

RaiseInSeed ==
  /\ AtWork \/ seedAt = "logging"
  /\ RemoveRuntime /\ LeaveTraining("failed")
  /\ reopened' = IF saveCheckpoints THEN reopened ELSE reopened \ {node}
  /\ UNCHANGED <<study, node, attempt, onStage, scoredBy, trained>>

\* The trial's process is killed, or its node is gone.
KillSeed ==
  /\ AtWork
  /\ LeaveTraining("failed")
  /\ UNCHANGED <<study, node, attempt, onStage, last, scoredBy, trained, reopened>>

\* Ray Tune starts the trial again, on any node.
Retry ==
  /\ seedAt = "failed" /\ attempt < MaxAttempts
  /\ attempt' = attempt + 1
  /\ node' \in TrialNodes
  /\ onStage' = IF useGenerated THEN "synthetic" ELSE "real"
  /\ scoredBy' = [s \in Stages |-> NoResult]
  /\ seedAt' = "opening"
  /\ UNCHANGED <<study, memory, handed, last, trained, reopened>>

SeedNext ==
  \/ OpenStage \/ TrainEpoch \/ ValidateNetwork \/ EndTraining \/ Predict \/ NextStage
  \/ FinishStages \/ LogSeed \/ RaiseInSeed \/ KillSeed \/ Retry

SeedSpec == SeedInit /\ [][SeedNext]_seedVars

----------------------------------------------------------------------------
\* Whatever attempt a stage was begun in, and however it was resumed, what is
\* scored is the network its training ended with, by a detector that was
\* fitted on this very network and on the data of this stage.
ScoredByItsDetector ==
  \A s \in Stages :
    scoredBy[s] # NoResult =>
      /\ scoredBy[s].network = scoredBy[s].ended
      /\ scoredBy[s].detector = [network |-> scoredBy[s].network, stage |-> s]

\* The network of the real stage descends from the one whose synthetic scores
\* are reported beside its own, unless the synthetic stage had stopped early
\* and was trained further by a later attempt, while the real stage went on
\* from the checkpoint of an earlier one.
RealFromScoredSynthetic ==
  seedAt \in {"logging", "done"} /\ useGenerated /\ lightning /\ node \notin reopened =>
    scoredBy["real"].origin = scoredBy["synthetic"].network
=============================================================================
