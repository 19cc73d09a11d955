------------------------- MODULE PairPrograms_proof -------------------------
(***************************************************************************)
(* The programs that run for a pair: the training of a seed, the cache of  *)
(* styled windows, the upload of what the pair has left, the search for its *)
(* post-processing, the controller run that judges all pairs, and the      *)
(* scaler whose bundles the pairs are trained on.  They share no state;    *)
(* each part below is about one of them.                                   *)
(***************************************************************************)
EXTENDS SeedTraining, StyledPredictCache, PairUpload, PostprocessingSearch, ControllerRun,
        FeatureScaling, FiniteSetTheorems, SequenceTheorems, TLAPS

----------------------------------------------------------------------------
(***************************************************************************)
(* What is scored together belongs together, for any number of epochs,     *)
(* nodes and attempts.  A checkpoint written when the training ended holds *)
(* the detector of its own network; and on a node where no synthetic stage *)
(* was opened again after its end, a checkpoint of the real stage descends *)
(* from the one that ended the synthetic stage.                            *)
(***************************************************************************)

Places == {"opening", "training", "validating", "ending", "predicting", "scored",
           "logging", "done", "failed"}
Fits == [network : Int, stage : Stages \cup {"none"}]
Checkpoints == [network : Int, origin : Int, epoch : Int, detector : Fits, ended : BOOLEAN]
Scorings == [network : Int, origin : Int, detector : Fits, ended : Int]

SeedTypeOK ==
  /\ seedAt \in Places /\ onStage \in Stages
  /\ useGenerated \in BOOLEAN /\ lightning \in BOOLEAN /\ saveCheckpoints \in BOOLEAN
  /\ node \in TrialNodes /\ attempt \in Int
  /\ network \in Int /\ origin \in Int /\ epoch \in Int /\ trained \in Int /\ handed \in Int
  /\ detector \in Fits
  /\ last \in [TrialNodes -> [Stages -> Checkpoints]]
  /\ scoredBy \in [Stages -> Scorings]

\* The detector of a stage that has ended is that of its network, in the
\* checkpoint and in memory alike.
FittedInv ==
  /\ \A n \in TrialNodes, s \in Stages :
       last[n][s].ended => last[n][s].detector = [network |-> last[n][s].network, stage |-> s]
  /\ seedAt = "predicting" =>
       /\ detector = [network |-> network, stage |-> onStage]
       /\ lightning => /\ last[node][onStage].network = network
                       /\ last[node][onStage].detector = detector
  /\ ScoredByItsDetector

\* A real stage on disk descends from the end of the synthetic one.
DescentOnDisk ==
  \A n \in TrialNodes \ reopened :
    last[n]["real"] # NoCheckpoint =>
      last[n]["synthetic"].ended /\ last[n]["real"].origin = last[n]["synthetic"].network

\* The attempt hands this network on: there is no real stage yet while the
\* synthetic one is trained, and the one that follows begins with its weights.
DescentInMemory ==
  /\ onStage = "synthetic" /\ seedAt \in {"training", "validating", "ending"} =>
       last[node]["real"] = NoCheckpoint
  /\ onStage = "synthetic" /\ seedAt \in {"predicting", "scored"} => last[node]["synthetic"].ended
  /\ onStage = "synthetic" /\ seedAt = "scored" =>
       scoredBy["synthetic"].network = last[node]["synthetic"].network
  /\ onStage = "real" /\ AtWork =>
       /\ last[node]["synthetic"].ended
       /\ last[node]["synthetic"].network = handed
       /\ scoredBy["synthetic"].network = handed
  /\ onStage = "real" /\ seedAt \in {"training", "validating", "ending", "predicting"} => origin = handed
  /\ (onStage = "real" /\ seedAt = "scored") \/ seedAt \in {"logging", "done"} =>
       scoredBy["real"].origin = scoredBy["synthetic"].network

DescentInv ==
  useGenerated /\ lightning => DescentOnDisk /\ (node \notin reopened => DescentInMemory)

SeedInv == SeedTypeOK /\ FittedInv /\ DescentInv

----------------------------------------------------------------------------
\* The first attempt has no checkpoint and no result.
LEMMA SeedInitInv == SeedInit => SeedInv
<1> SUFFICES ASSUME SeedInit PROVE SeedInv
  OBVIOUS
<1> USE DEF SeedInit, None, Unfitted, NoCheckpoint, NoResult, Stages
<1>1. SeedTypeOK
  BY DEF SeedTypeOK, Places, Fits, Checkpoints, Scorings
<1>2. FittedInv
  BY DEF FittedInv, ScoredByItsDetector
<1>3. DescentInv
  BY DEF DescentInv, DescentOnDisk, DescentInMemory, AtWork
<1>4. QED
  BY <1>1, <1>2, <1>3 DEF SeedInv

\* Every step keeps the types.
LEMMA StepType == SeedTypeOK /\ [SeedNext]_seedVars => SeedTypeOK'
<1> SUFFICES ASSUME SeedTypeOK, [SeedNext]_seedVars PROVE SeedTypeOK'
  OBVIOUS
<1> USE SeedAssumption DEF SeedTypeOK, Places, Fits, Checkpoints, Scorings, Stages, None,
        Unfitted, NoCheckpoint, NoResult, study, memory
<1>1. CASE OpenStage
  BY <1>1 DEF OpenStage, NewNetwork, Restore, Resume, Saved, Reentry, IsOver
<1>2. CASE TrainEpoch
  BY <1>2 DEF TrainEpoch
<1>3. CASE ValidateNetwork
  BY <1>3 DEF ValidateNetwork, SaveLast, Checkpoint
<1>4. CASE EndTraining
  BY <1>4 DEF EndTraining, SaveLast, Checkpoint, Fitted
<1>5. CASE Predict
  BY <1>5 DEF Predict, Fitted, Saved, HasLast, Checkpoint
<1>6. CASE NextStage
  BY <1>6 DEF NextStage, Saved
<1>7. CASE FinishStages
  BY <1>7 DEF FinishStages, RemoveRuntime, LeaveTraining
<1>8. CASE LogSeed
  BY <1>8 DEF LogSeed
<1>9. CASE RaiseInSeed
  BY <1>9 DEF RaiseInSeed, RemoveRuntime, LeaveTraining
<1>10. CASE KillSeed
  BY <1>10 DEF KillSeed, LeaveTraining
<1>11. CASE Retry
  BY <1>11 DEF Retry
<1>12. CASE UNCHANGED seedVars
  BY <1>12 DEF seedVars
<1>13. QED
  BY <1>1, <1>2, <1>3, <1>4, <1>5, <1>6, <1>7, <1>8, <1>9, <1>10, <1>11, <1>12 DEF SeedNext

\* A detector is fitted on the network the checkpoint is written with, and
\* what is scored is read back from there.
LEMMA StepFitted == SeedInv /\ [SeedNext]_seedVars => FittedInv'
<1> SUFFICES ASSUME SeedTypeOK, FittedInv, [SeedNext]_seedVars PROVE FittedInv'
  BY DEF SeedInv
<1> USE DEF SeedTypeOK, FittedInv, ScoredByItsDetector, Stages, study, memory
<1>1. CASE OpenStage
  BY <1>1 DEF OpenStage, NewNetwork, Restore, Resume, Saved, Reentry, IsOver
<1>2. CASE TrainEpoch
  BY <1>2 DEF TrainEpoch
<1>3. CASE ValidateNetwork
  BY <1>3 DEF ValidateNetwork, SaveLast, Checkpoint
<1>4. CASE EndTraining
  BY <1>4 DEF EndTraining, SaveLast, Checkpoint, Fitted
<1>5. CASE Predict
  BY <1>5 DEF Predict, Fitted, Saved, HasLast, Checkpoint, Unfitted, NoResult
<1>6. CASE NextStage
  BY <1>6 DEF NextStage
<1>7. CASE FinishStages
  BY <1>7 DEF FinishStages, RemoveRuntime, LeaveTraining, NoCheckpoint
<1>8. CASE LogSeed
  BY <1>8 DEF LogSeed
<1>9. CASE RaiseInSeed
  BY <1>9 DEF RaiseInSeed, RemoveRuntime, LeaveTraining, NoCheckpoint
<1>10. CASE KillSeed
  BY <1>10 DEF KillSeed, LeaveTraining
<1>11. CASE Retry
  BY <1>11 DEF Retry
<1>12. CASE UNCHANGED seedVars
  BY <1>12 DEF seedVars
<1>13. QED
  BY <1>1, <1>2, <1>3, <1>4, <1>5, <1>6, <1>7, <1>8, <1>9, <1>10, <1>11, <1>12 DEF SeedNext

\* A synthetic stage is written only while there is no real stage on the node,
\* or else the node joins those that are reopened.
LEMMA StepDescent == SeedInv /\ [SeedNext]_seedVars => DescentInv'
<1> SUFFICES ASSUME SeedTypeOK, DescentInv, [SeedNext]_seedVars, useGenerated', lightning'
             PROVE  DescentOnDisk' /\ (node \notin reopened => DescentInMemory)'
  BY DEF SeedInv, DescentInv
<1>0. DescentOnDisk /\ (node \notin reopened => DescentInMemory) /\ useGenerated /\ lightning
  BY DEF DescentInv, SeedNext, OpenStage, NewNetwork, Restore, TrainEpoch, ValidateNetwork, EndTraining, Predict, NextStage,
         FinishStages, LogSeed, RaiseInSeed, KillSeed, Retry, seedVars, study
<1> USE <1>0 DEF SeedTypeOK, DescentOnDisk, DescentInMemory, AtWork, Stages, study, memory
<1>1. CASE OpenStage
  <2>1. CASE Saved(onStage) = NoCheckpoint
    <3>1. ~ Saved(onStage).ended
      BY <2>1 DEF NoCheckpoint
    <3>2. last' = last /\ node' = node /\ onStage' = onStage /\ handed' = handed /\ scoredBy' = scoredBy
          /\ reopened' = reopened /\ seedAt' = "training" /\ origin' = handed /\ seedAt = "opening"
      BY <1>1, <2>1 DEF OpenStage, NewNetwork, Restore, Resume
    <3>3. QED
      BY <3>1, <3>2 DEF Saved
  <2>2. CASE Saved(onStage) # NoCheckpoint
    <3>1. last' = last /\ node' = node /\ onStage' = onStage /\ handed' = handed /\ scoredBy' = scoredBy
          /\ origin' = Saved(onStage).origin /\ seedAt = "opening"
          /\ seedAt' = Reentry(onStage, Saved(onStage))
          /\ reopened \subseteq reopened'
      BY <1>1, <2>2 DEF OpenStage, NewNetwork, Restore, Resume
    <3>2. node \notin reopened' /\ onStage = "synthetic" /\ Saved(onStage).ended => seedAt' = "predicting"
      BY <1>1, <2>2, <3>1 DEF OpenStage, Restore, Resume, Reentry
    <3>3. seedAt' \in {"training", "ending", "predicting"}
          /\ (seedAt' = "predicting" => Saved(onStage).ended)
      BY <3>1 DEF Reentry, IsOver
    <3>4. QED
      BY <2>2, <3>1, <3>2, <3>3 DEF Saved
  <2>3. QED
    BY <2>1, <2>2
<1>2. CASE TrainEpoch
  BY <1>2 DEF TrainEpoch
<1>3. CASE ValidateNetwork
  BY <1>3 DEF ValidateNetwork, SaveLast, Checkpoint
<1>4. CASE EndTraining
  BY <1>4 DEF EndTraining, SaveLast, Checkpoint, Fitted
<1>5. CASE Predict
  BY <1>5 DEF Predict, Fitted, Saved, HasLast, Scorings
<1>6. CASE NextStage
  BY <1>6 DEF NextStage, Saved
<1>7. CASE FinishStages
  BY <1>7 DEF FinishStages, RemoveRuntime, LeaveTraining
<1>8. CASE LogSeed
  BY <1>8 DEF LogSeed
<1>9. CASE RaiseInSeed
  BY <1>9 DEF RaiseInSeed, RemoveRuntime, LeaveTraining
<1>10. CASE KillSeed
  BY <1>10 DEF KillSeed, LeaveTraining
<1>11. CASE Retry
  BY <1>11 DEF Retry
<1>12. CASE UNCHANGED seedVars
  BY <1>12 DEF seedVars
<1>13. QED
  BY <1>1, <1>2, <1>3, <1>4, <1>5, <1>6, <1>7, <1>8, <1>9, <1>10, <1>11, <1>12 DEF SeedNext

\* Every step preserves the invariant.
LEMMA SeedStepInv == SeedInv /\ [SeedNext]_seedVars => SeedInv'
  BY StepType, StepFitted, StepDescent DEF SeedInv

----------------------------------------------------------------------------
\* For any number of epochs, nodes and attempts, whatever is killed, raises or
\* is resumed: what is scored is the network the training ended with, by the
\* detector fitted on it.
THEOREM ScoresAreOfOneFit == SeedSpec => []ScoredByItsDetector
<1>1. SeedInv => ScoredByItsDetector
  BY DEF SeedInv, FittedInv
<1>2. QED
  BY SeedInitInv, SeedStepInv, <1>1, PTL DEF SeedSpec

\* For the same: the network of the real stage descends from the one whose
\* synthetic scores are reported, unless a synthetic stage that had stopped
\* early was trained further on its node.
THEOREM StagesBelongTogether == SeedSpec => []RealFromScoredSynthetic
<1>1. SeedInv => RealFromScoredSynthetic
  BY DEF SeedInv, DescentInv, DescentInMemory, RealFromScoredSynthetic
<1>2. QED
  BY SeedInitInv, SeedStepInv, <1>1, PTL DEF SeedSpec

----------------------------------------------------------------------------
(***************************************************************************)
(* That the windows are styled once, for any number of trials and losses.  *)
(* The lock gives it: whoever has got past "waiting" holds it, and there   *)
(* is one holder.  A holder only goes on to build if there is no cache,    *)
(* and nobody else can make one.                                           *)
(***************************************************************************)

Inside == {"locked", "building", "saving", "saved", "built"}

CacheTypeOK ==
  /\ cacheFile \in {"none", "whole", "damaged"}
  /\ temporary \in [Trials -> {"none", "torn", "whole"}]
  /\ flocked \subseteq Trials
  /\ trial \in [Trials -> {"out", "waiting"} \cup Inside]
  /\ load \in [Trials -> BOOLEAN]
  /\ override \in [Trials -> {"test", "whole"}]

\* A call past the lock holds it, and nobody else does.
LockInv ==
  /\ \A t \in Trials : t \in flocked <=> trial[t] \in Inside
  /\ \A t, u \in flocked : t = u

\* While a call builds there is no cache, and only its temporary file.
BuildInv ==
  /\ \A t \in Trials : Builds(t) => cacheFile = "none"
  /\ \A t \in Trials : temporary[t] # "none" => trial[t] \in {"saving", "saved"}
  /\ \A t \in Trials : trial[t] = "saved" => temporary[t] = "whole"

CacheInv == CacheTypeOK /\ LockInv /\ BuildInv

\* A new node satisfies the invariant, whatever an earlier experiment left.
LEMMA CacheInitInv == CacheInit => CacheInv
  BY DEF CacheInit, CacheInv, CacheTypeOK, LockInv, BuildInv, Builds, Inside

\* A step of a trial preserves it.
LEMMA TrialIInv ==
  ASSUME CacheInv, NEW t \in Trials,
         \/ \E loading \in BOOLEAN : Enable(t, loading)
         \/ Lock(t) \/ Decide(t) \/ Build(t) \/ Save(t) \/ Publish(t) \/ LoadBuilt(t)
         \/ NextSeed(t) \/ KillTrial(t)
  PROVE  CacheInv'
<1> USE DEF CacheInv, CacheTypeOK, LockInv, BuildInv, Builds, Inside
<1>1. CASE \E loading \in BOOLEAN : Enable(t, loading)
  BY <1>1 DEF Enable
<1>2. CASE Lock(t)
  BY <1>2 DEF Lock
<1>3. CASE Decide(t)
  BY <1>3 DEF Decide, Release
<1>4. CASE Build(t)
  BY <1>4 DEF Build, Release
<1>5. CASE Save(t)
  BY <1>5 DEF Save, Release
<1>6. CASE Publish(t)
  BY <1>6 DEF Publish, Release
<1>7. CASE LoadBuilt(t)
  BY <1>7 DEF LoadBuilt, Release
<1>8. CASE NextSeed(t)
  BY <1>8 DEF NextSeed
<1>9. CASE KillTrial(t)
  BY <1>9 DEF KillTrial
<1>10. QED
  BY <1>1, <1>2, <1>3, <1>4, <1>5, <1>6, <1>7, <1>8, <1>9

\* So does every step; a damaged cache was whole, so that nobody builds.
LEMMA CacheStepInv == CacheInv /\ [CacheNext]_cacheVars => CacheInv'
<1> SUFFICES ASSUME CacheInv, [CacheNext]_cacheVars PROVE CacheInv'
  OBVIOUS
<1>1. CASE UNCHANGED cacheVars
  BY <1>1 DEF cacheVars, CacheInv, CacheTypeOK, LockInv, BuildInv, Builds
<1>2. CASE Damage
  BY <1>2 DEF Damage, CacheInv, CacheTypeOK, LockInv, BuildInv, Builds
<1>3. CASE CacheNext /\ ~ Damage
  <2>1. PICK t \in Trials :
          \/ \E loading \in BOOLEAN : Enable(t, loading)
          \/ Lock(t) \/ Decide(t) \/ Build(t) \/ Save(t) \/ Publish(t) \/ LoadBuilt(t)
          \/ NextSeed(t) \/ KillTrial(t)
    BY <1>3 DEF CacheNext
  <2>2. QED
    BY <2>1, TrialIInv
<1>4. QED
  BY <1>1, <1>2, <1>3

\* For any number of trials, whichever calls raise and whatever is killed or
\* damaged: one trial at a time styles the windows, only while there is no
\* cache, and no reader finds half a file.
THEOREM StyledOnce == CacheSpec => []BuiltOnce
<1>1. CacheInv => BuiltOnce
  BY DEF CacheInv, CacheTypeOK, LockInv, BuildInv, BuiltOnce, Builds, Inside
<1>2. QED
  BY CacheInitInv, CacheStepInv, <1>1, PTL DEF CacheSpec

----------------------------------------------------------------------------
(***************************************************************************)
(* That a checkpoint is deleted only once the archive of all runs is on    *)
(* Seafile, for any runs of any names and whatever call is repeated.       *)
(***************************************************************************)

UploadTypeOK ==
  /\ upload \in {"best", "table", "runs", "archive", "synced", "cleaning", "reported", "failed"}
  /\ succeeded \in BOOLEAN /\ withBest \in BOOLEAN /\ hasStudy \in BOOLEAN
  /\ downloaded \subseteq StudyRuns /\ checkpoints \subseteq StudyRuns
  /\ bestRun \subseteq BestFiles
  /\ unheard \in BOOLEAN

\* Each run of the set is there, or another of its name.
Covers(runs, set) == \A r \in set : Namesakes(r) \cap runs # {}

\* What the callback has brought to Seafile by the time it is where it is: a
\* retry starts over, and brings nothing back that lay there.
UploadInv ==
  /\ UploadTypeOK
  /\ Covers(fetched, downloaded)
  /\ checkpoints # StudyRuns => upload \in {"cleaning", "reported", "failed"}
  /\ upload = "cleaning" => succeeded
  /\ ~ hasStudy => checkpoints = StudyRuns
  /\ ~ unheard =>
       /\ upload \in {"table", "runs", "synced", "cleaning", "reported"} =>
            (succeeded /\ hasStudy /\ withBest => "weights" \in bestRun)
       /\ upload \in {"runs", "synced", "cleaning", "reported"} => scoreTable
       /\ upload \in {"synced", "cleaning", "reported"} /\ succeeded /\ hasStudy =>
            Covers(allRuns, StudyRuns)
       /\ checkpoints # StudyRuns => Covers(allRuns, StudyRuns)

\* A callback that begins has deleted nothing.
LEMMA UploadInitInv == UploadInit => UploadInv
BY DEF UploadInit, UploadInv, UploadTypeOK, Covers, BestFiles

\* A download takes only a namesake from the temporary directory.
LEMMA DownloadCovers ==
  ASSUME downloaded \subseteq StudyRuns, Covers(fetched, downloaded),
         NEW r \in StudyRuns, DownloadRun(r)
  PROVE  Covers(fetched, downloaded)'
<1>1. UNCHANGED named /\ fetched' = (fetched \ Namesakes(r)) \cup {r}
  BY DEF DownloadRun, options
<1>2. SUFFICES ASSUME NEW p \in downloaded' PROVE Namesakes(p)' \cap fetched' # {}
  BY DEF Covers
<1>3. p \in StudyRuns /\ Namesakes(p)' = Namesakes(p) /\ (p \in downloaded \/ p = r)
  BY <1>1 DEF DownloadRun, Namesakes
<1>4. CASE named[p] = named[r]
  BY <1>1, <1>3, <1>4 DEF Namesakes
<1>5. CASE named[p] # named[r]
  <2>1. PICK q \in Namesakes(p) : q \in fetched
    BY <1>3, <1>5 DEF Covers
  <2>2. q \notin Namesakes(r)
    BY <1>5, <2>1 DEF Namesakes
  <2>3. QED
    BY <1>1, <1>3, <2>1, <2>2
<1>6. QED
  BY <1>4, <1>5

\* Every step of the callback, and every repeated call, preserves it.
LEMMA UploadStepInv == UploadInv /\ [UploadNext]_uploadVars => UploadInv'
<1> SUFFICES ASSUME UploadInv, [UploadNext]_uploadVars PROVE UploadInv'
  OBVIOUS
<1> USE DEF UploadInv, UploadTypeOK, options, tempDir, seafile
<1>0. ASSUME UNCHANGED named
      PROVE  /\ UNCHANGED <<fetched, downloaded>> => Covers(fetched, downloaded)'
             /\ downloaded' = {} => Covers(fetched, downloaded)'
             /\ UNCHANGED allRuns /\ Covers(allRuns, StudyRuns) => Covers(allRuns, StudyRuns)'
             /\ allRuns' = fetched /\ downloaded = StudyRuns => Covers(allRuns, StudyRuns)'
  BY <1>0 DEF Covers, Namesakes
<1>1. CASE Unavailable
  BY <1>0, <1>1 DEF Unavailable, RaiseUpload
<1>2. CASE UploadBest
  BY <1>0, <1>2 DEF UploadBest, Upload, BestFiles
<1>3. CASE UploadTable
  BY <1>0, <1>3 DEF UploadTable, Upload
<1>4. ASSUME NEW r \in StudyRuns, DownloadRun(r) PROVE UploadInv'
  BY <1>0, <1>4, DownloadCovers DEF DownloadRun
<1>5. CASE UploadArchive
  BY <1>0, <1>5 DEF UploadArchive, PackArchive, Upload
<1>6. CASE Synced
  BY <1>0, <1>6 DEF Synced
<1>7. ASSUME NEW r \in StudyRuns, DeleteRun(r) PROVE UploadInv'
  BY <1>0, <1>7 DEF DeleteRun
<1>8. CASE CleanedUp
  BY <1>0, <1>8 DEF CleanedUp
<1>9. CASE UNCHANGED uploadVars
  BY <1>0, <1>9 DEF uploadVars
<1>10. QED
  BY <1>1, <1>2, <1>3, <1>4, <1>5, <1>6, <1>7, <1>8, <1>9 DEF UploadNext

\* For any number of runs, whatever raises and whatever call is repeated, unless
\* the log alone knows of a failed upload: a checkpoint is deleted only once the
\* archive is on Seafile with every run or another of its name, and the
\* callback has reported only once the table is, and the weights of the best trial if they were asked for
\* (MlflowSeafilePairOutputCallback.on_job_terminal).
THEOREM NothingIsLost == UploadSpec => []DeletedIsArchived
<1>1. UploadInv => DeletedIsArchived
  BY DEF UploadInv, Covers, DeletedIsArchived
<1>2. QED
  BY <1>1, UploadInitInv, UploadStepInv, PTL DEF UploadSpec

----------------------------------------------------------------------------
(***************************************************************************)
(* That the coordinate search stops at a setting which no change of one    *)
(* parameter improves, for any parameters, candidates and ranking.  Whatever *)
(* is left of a round's queue is all it has not tried; a round ends without *)
(* an improvement only if the setting it began with outranks all of them.  *)
(* A step forward adds a setting to the history, and the current one is    *)
(* always the best of the history.                                         *)
(***************************************************************************)

\* The natural numbers are well founded: by way of the initial segments they
\* bound, which are finite sets.
LEMMA LeastElement ==
  ASSUME NEW T \in SUBSET Nat, T # {}
  PROVE  \E d \in T : \A e \in T : d <= e
<1> DEFINE Below == {0 .. d : d \in T}
           Smaller == StrictSubsetOrdering(Nat)
           Finite == FiniteSubsetsOf(Nat)
<1>1. IsWellFoundedOn(Smaller, Finite)
  BY FS_StrictSubsetOrderingWellFounded
<1>2. Below # {} /\ Below \subseteq Finite
  <2>1. \A d \in T : IsFiniteSet(0 .. d) /\ 0 .. d \in SUBSET Nat
    BY FS_Interval
  <2>2. QED
    BY <2>1 DEF FiniteSubsetsOf
<1>3. PICK x \in Below : \A y \in Below : ~ (<<y, x>> \in Smaller)
  <2> HIDE DEF Below, Smaller, Finite
  <2>1. QED
    BY <1>1, <1>2, WFMin
<1>4. PICK d \in T : x = 0 .. d
  OBVIOUS
<1>5. ASSUME NEW e \in T, e < d PROVE FALSE
  <2>1. 0 .. e \in Below /\ 0 .. e \in SUBSET Nat /\ 0 .. d \in SUBSET Nat
    BY <1>2 DEF FiniteSubsetsOf
  <2>2. 0 .. e \subseteq 0 .. d /\ d \notin 0 .. e /\ d \in 0 .. d
    BY <1>5
  <2>3. <<0 .. e, x>> \in Smaller
    BY <1>4, <2>1, <2>2 DEF StrictSubsetOrdering
  <2>4. QED
    BY <1>3, <2>1, <2>3
<1>6. QED
  BY <1>5

----------------------------------------------------------------------------
(* The coordinate search                                                    *)

SearchSpec == SearchInit /\ [][SearchNext]_searchVars

Tried == ToSet(history)

SearchTypeOK ==
  /\ search \in {"try", "adopt", "stopped"}
  /\ initial \in AllSettings
  /\ rank \in [SettingsFrom(initial) -> Nat]
  /\ {current, best, local} \subseteq SettingsFrom(initial)
  /\ param \in 1 .. Len(Order)
  /\ improved \in BOOLEAN
  /\ history \in Seq(SettingsFrom(initial))

\* All settings that differ from the current one in the parameter p were tried.
TriedAll(p) == \A v \in ToSet(Space[p]) : [current EXCEPT ![p] = v] \in Tried

\* What the search holds ranks best of all it has tried, better than the first.
RanksInv ==
  /\ current = best /\ {current, local} \subseteq Tried
  /\ \A s \in Tried : rank[s] <= rank[local]
  /\ local # initial => rank[local] > rank[initial]

\* The candidates that have left the queue were tried, and in a round without
\* an improvement those of the parameters before were as well.
RoundInv ==
  /\ search # "stopped" =>
       /\ queue \subseteq Candidates(current, Order[param])
       /\ \A i \in Candidates(current, Order[param]) \ queue :
            With(current, Order[param], i) \in Tried
       /\ ~ improved => \A n \in 1 .. param - 1 : TriedAll(Order[n])
  /\ search = "adopt" => queue = {}
  /\ search = "stopped" =>
       /\ local = current
       /\ ~ improved => \A n \in 1 .. Len(Order) : TriedAll(Order[n])

SearchInv == SearchTypeOK /\ RanksInv /\ RoundInv

\* The parameter in turn is one of the order.
LEMMA OrderFacts ==
  /\ Len(Order) \in Nat /\ 1 <= Len(Order) /\ DOMAIN Order = 1 .. Len(Order)
  /\ \A n \in 1 .. Len(Order) : Order[n] \in Params
  /\ \A p \in Params : \E n \in 1 .. Len(Order) : p = Order[n]
  /\ \A p \in Params : Space[p] \in Seq(Settings)
<1>1. Order \in Seq(Params) /\ Order # <<>>
  BY SearchAssumption
<1>2. Len(Order) \in Nat /\ DOMAIN Order = 1 .. Len(Order) /\ 1 <= Len(Order)
  BY <1>1
<1>3. QED
  BY <1>1, <1>2, SearchAssumption DEF Params, ToSet

\* What may become of a setting is a setting of the search.
LEMMA CandidateIsSetting ==
  ASSUME initial \in AllSettings, NEW s \in SettingsFrom(initial), NEW p \in Params,
         NEW i \in Candidates(s, p)
  PROVE  With(s, p, i) \in SettingsFrom(initial)
<1>1. CASE i = 0
  BY <1>1 DEF With
<1>2. CASE i # 0
  <2>1. i \in DOMAIN Space[p] /\ Space[p] \in Seq(Settings)
    BY <1>2, OrderFacts DEF Candidates
  <2>2. Space[p][i] \in Settings /\ Space[p][i] \in ToSet(Space[p])
    BY <2>1 DEF ToSet
  <2>3. s \in AllSettings /\ \A q \in Params : s[q] \in ToSet(Space[q]) \cup {initial[q]}
    BY DEF SettingsFrom
  <2>4. With(s, p, i) = [s EXCEPT ![p] = Space[p][i]]
    BY <1>2 DEF With
  <2>5. [s EXCEPT ![p] = Space[p][i]] \in AllSettings
    BY <2>2, <2>3 DEF AllSettings
  <2>6. \A q \in Params : [s EXCEPT ![p] = Space[p][i]][q] \in ToSet(Space[q]) \cup {initial[q]}
    BY <2>2, <2>3 DEF AllSettings
  <2>7. QED
    BY <2>4, <2>5, <2>6 DEF SettingsFrom
<1>3. QED
  BY <1>1, <1>2

\* Once all candidates of a parameter are tried, all its values are.
LEMMA CandidatesCover ==
  ASSUME current \in AllSettings, current \in Tried, NEW p \in Params,
         \A i \in Candidates(current, p) : With(current, p, i) \in Tried
  PROVE  TriedAll(p)
<1> SUFFICES ASSUME NEW v \in ToSet(Space[p])
             PROVE  [current EXCEPT ![p] = v] \in Tried
  BY DEF TriedAll
<1> DEFINE At == {i \in DOMAIN Space[p] : Space[p][i] = v}
<1>1. Space[p] \in Seq(Settings)
  BY OrderFacts
<1>2. At \subseteq Nat /\ At # {}
  BY <1>1 DEF ToSet
<1>3. PICK i \in At : \A j \in At : i <= j
  BY <1>2, LeastElement
<1>4. CASE v = current[p]
  BY <1>4 DEF AllSettings
<1>5. CASE v # current[p]
  <2>1. \A j \in 1 .. i - 1 : Space[p][j] # Space[p][i]
    BY <1>1, <1>2, <1>3
  <2>2. i \in Candidates(current, p) /\ i # 0
    BY <1>1, <1>5, <2>1 DEF Candidates
  <2>3. QED
    BY <2>2 DEF With
<1>6. QED
  BY <1>4, <1>5

\* A search begins with a setting that is the best of all it has tried.
LEMMA SearchInitInv ==
  ASSUME SearchInit
  PROVE  SearchInv
<1> USE DEF SearchInit
<1>1. initial \in AllSettings /\ Order[1] \in Params
  BY OrderFacts, SearchAssumption
<1>2. initial \in SettingsFrom(initial)
  BY <1>1 DEF SettingsFrom
<1>3. Tried = {initial} /\ history \in Seq(SettingsFrom(initial))
  BY <1>2 DEF Tried, ToSet
<1>4. rank \in [SettingsFrom(initial) -> Nat]
  <2>1. Ranks \in Nat
    BY SearchAssumption
  <2>2. 1 .. Ranks \subseteq Nat
    BY <2>1
  <2>3. QED
    BY <2>2
<1>5. SearchTypeOK
  <2>1. param \in 1 .. Len(Order) /\ {current, best, local} \subseteq SettingsFrom(initial)
    BY <1>2, OrderFacts
  <2>2. search \in {"try", "adopt", "stopped"} /\ improved \in BOOLEAN
    OBVIOUS
  <2>3. QED
    BY <1>1, <1>3, <1>4, <2>1, <2>2 DEF SearchTypeOK
<1>6. RanksInv
  BY <1>2, <1>3, <1>4 DEF RanksInv
<1>7. RoundInv
  BY DEF RoundInv
<1>8. QED
  BY <1>5, <1>6, <1>7 DEF SearchInv

\* A try takes a candidate from the queue into the history.
LEMMA TryInv ==
  ASSUME SearchInv, Try
  PROVE  SearchInv'
<1> USE DEF SearchInv
<1> DEFINE p == Order[param]
<1>1. PICK i \in queue :
        LET candidate == With(current, p, i)
        IN  /\ history' = IF candidate \in ToSet(history) THEN history ELSE Append(history, candidate)
            /\ local' = IF IsTrialBetter(candidate, local) THEN candidate ELSE local
            /\ queue' = queue \ {i}
  BY DEF Try
<1> DEFINE candidate == With(current, p, i)
<1>2. /\ search = "try" /\ search' = (IF queue' = {} THEN "adopt" ELSE "try")
      /\ UNCHANGED <<rank, initial, current, best, param, improved, round>>
  BY DEF Try
<1>3. p \in Params /\ i \in Candidates(current, p) /\ current \in SettingsFrom(initial)
  BY <1>2, OrderFacts DEF SearchTypeOK, RoundInv
<1>4. candidate \in SettingsFrom(initial)
  BY <1>3, CandidateIsSetting DEF SearchTypeOK
<1> HIDE DEF candidate
<1>5. history' \in Seq(SettingsFrom(initial)) /\ Tried' = Tried \cup {candidate}
  <2>1. history \in Seq(SettingsFrom(initial))
    BY DEF SearchTypeOK
  <2>2. CASE candidate \in ToSet(history)
    BY <1>1, <2>1, <2>2 DEF Tried, candidate
  <2>3. CASE candidate \notin ToSet(history)
    <3>1. history' = Append(history, candidate)
      BY <1>1, <2>3 DEF candidate
    <3>2. ToSet(history') = ToSet(history) \cup {candidate}
      BY <1>4, <2>1, <3>1 DEF ToSet
    <3>3. QED
      BY <1>4, <2>1, <3>1, <3>2 DEF Tried
  <2>4. QED
    BY <2>2, <2>3
<1>6. local' = (IF rank[candidate] > rank[local] THEN candidate ELSE local) /\ queue' = queue \ {i}
  BY <1>1 DEF IsTrialBetter, candidate
<1>7. SearchTypeOK'
  <2>1. SettingsFrom(initial)' = SettingsFrom(initial)
    BY <1>2 DEF SettingsFrom
  <2>2. QED
    BY <1>2, <1>4, <1>5, <1>6, <2>1 DEF SearchTypeOK
<1>8. RanksInv'
  <2>1. rank[candidate] \in Nat /\ rank[local] \in Nat /\ rank[initial] \in Nat
    BY <1>4 DEF SearchTypeOK, SettingsFrom
  <2>2. \A s \in Tried : rank[s] \in Nat
    BY DEF SearchTypeOK, Tried, ToSet
  <2>3. QED
    BY <1>2, <1>5, <1>6, <2>1, <2>2 DEF RanksInv
<1>9. RoundInv'
  <2>1. /\ queue' \subseteq Candidates(current, p)
        /\ \A j \in Candidates(current, p) \ queue' : With(current, p, j) \in Tried'
    BY <1>2, <1>5, <1>6 DEF RoundInv, candidate
  <2>2. ~ improved => \A n \in 1 .. param - 1 : TriedAll(Order[n])'
    BY <1>2, <1>5 DEF RoundInv, TriedAll
  <2>3. Candidates(current, p)' = Candidates(current, p)
    BY <1>2 DEF Candidates
  <2>4. \A j : With(current, p, j)' = With(current, p, j)
    BY <1>2 DEF With
  <2>5. QED
    BY <1>2, <2>1, <2>2, <2>3, <2>4 DEF RoundInv
<1>10. QED
  BY <1>7, <1>8, <1>9

\* An adoption moves to the best tried, and on to the next parameter.
LEMMA AdoptInv ==
  ASSUME SearchInv, Adopt
  PROVE  SearchInv'
<1> USE DEF SearchInv
<1> DEFINE better == improved \/ local # current
<1>1. /\ search = "adopt" /\ current' = local /\ best' = local /\ local' = local
      /\ UNCHANGED <<rank, initial, history>>
  BY DEF Adopt, NextParam, RanksInv
<1>2. PICK p \in 1 .. Len(Order) :
        \/ /\ param < Len(Order) /\ p = param + 1
           /\ NextParam(p) /\ improved' = better
        \/ p = 1 /\ NextParam(p) /\ improved' = FALSE
        \/ param = Len(Order) /\ search' = "stopped" /\ improved' = better /\ UNCHANGED param
  <2>1. param \in 1 .. Len(Order) /\ Len(Order) \in Nat
    BY OrderFacts DEF SearchTypeOK
  <2>2. CASE param < Len(Order)
    BY <2>1, <2>2 DEF Adopt
  <2>3. CASE ~ (param < Len(Order))
    BY <2>1, <2>3 DEF Adopt
  <2>4. QED
    BY <2>2, <2>3
<1>3. SearchTypeOK'
  <2>1. SettingsFrom(initial)' = SettingsFrom(initial)
    BY <1>1 DEF SettingsFrom
  <2>2. QED
    BY <1>1, <1>2, <2>1 DEF SearchTypeOK, NextParam
<1>4. local \in Tried /\ Tried' = Tried
  BY <1>1 DEF RanksInv, Tried
<1>5. RanksInv'
  BY <1>1, <1>4 DEF RanksInv
<1>6. TriedAll(Order[param])
  BY <1>1, OrderFacts, CandidatesCover DEF RoundInv, RanksInv, SearchTypeOK, SettingsFrom
<1>7. ASSUME ~ better
      PROVE  \A n \in 1 .. param : TriedAll(Order[n])'
  <2>1. \A n \in 1 .. param : TriedAll(Order[n])
    BY <1>1, <1>6, <1>7 DEF RoundInv, SearchTypeOK
  <2>2. QED
    BY <1>1, <1>4, <1>7, <2>1 DEF TriedAll
<1>8. RoundInv'
  <2>1. CASE p = param + 1 /\ NextParam(p) /\ improved' = better
    <3>1. param' = p /\ search' = "try" /\ queue' = Candidates(local, Order[p])
      BY <2>1 DEF NextParam
    <3>2. param \in Nat /\ p - 1 = param
      BY <2>1, OrderFacts DEF SearchTypeOK
    <3>3. ~ improved' => \A n \in 1 .. p - 1 : TriedAll(Order[n])'
      BY <1>7, <2>1, <3>2
    <3>4. QED
      BY <1>1, <3>1, <3>3 DEF RoundInv, Candidates
  <2>2. CASE p = 1 /\ NextParam(p) /\ improved' = FALSE
    <3>1. param' = 1 /\ search' = "try" /\ queue' = Candidates(local, Order[1])
      BY <2>2 DEF NextParam
    <3>2. 1 .. (1 - 1) = {}
      OBVIOUS
    <3>3. QED
      BY <1>1, <3>1, <3>2 DEF RoundInv, Candidates
  <2>3. CASE param = Len(Order) /\ search' = "stopped" /\ improved' = better
    BY <1>1, <1>7, <2>3 DEF RoundInv
  <2>4. QED
    BY <1>2, <2>1, <2>2, <2>3
<1>9. QED
  BY <1>3, <1>5, <1>8

\* Every step preserves the invariant.
LEMMA SearchStepInv ==
  ASSUME SearchInv, [SearchNext]_searchVars
  PROVE  SearchInv'
<1>1. CASE UNCHANGED searchVars
  <2>1. UNCHANGED <<search, rank, initial, current, best, param, queue, local, improved, history>>
    BY <1>1 DEF searchVars
  <2>2. Tried' = Tried /\ SettingsFrom(initial)' = SettingsFrom(initial)
    BY <2>1 DEF Tried, SettingsFrom
  <2>3. \A q : TriedAll(q)' <=> TriedAll(q)
    BY <2>1, <2>2 DEF TriedAll
  <2>4. SearchTypeOK'
    BY <2>1, <2>2 DEF SearchInv, SearchTypeOK
  <2>5. RanksInv'
    BY <2>1, <2>2 DEF SearchInv, RanksInv
  <2>6. RoundInv'
    BY <2>1, <2>2, <2>3 DEF SearchInv, RoundInv, Candidates, With
  <2>7. QED
    BY <2>4, <2>5, <2>6 DEF SearchInv
<1>2. QED
  BY <1>1, TryInv, AdoptInv DEF SearchNext

\* A search that stops holds a setting that ranks best of all it has tried; if
\* its last round improved nothing, no change of a single parameter would rank
\* better (search_evaluation_postprocessing): for every order and space of the
\* parameters, every ranking of the settings and every number of rounds.
THEOREM StopsAtLocalBest == SearchSpec => []SearchIsLocallyBest
<1>1. ASSUME SearchInv
      PROVE  SearchIsLocallyBest
  <2>1. CASE search = "stopped"
    <3>1. local = best /\ current = best /\ \A s \in Tried : rank[s] <= rank[best]
      BY <1>1, <2>1 DEF SearchInv, RanksInv, RoundInv
    <3>2. ASSUME ~ improved, NEW s \in Neighbours(best)
          PROVE  s \in Tried
      <4>1. PICK p \in Params : \E v \in ToSet(Space[p]) : s = [best EXCEPT ![p] = v]
        BY <3>2 DEF Neighbours
      <4>2. PICK n \in 1 .. Len(Order) : p = Order[n]
        BY OrderFacts
      <4>3. TriedAll(p)
        BY <1>1, <2>1, <3>2, <4>2 DEF SearchInv, RoundInv
      <4>4. QED
        BY <3>1, <4>1, <4>3 DEF TriedAll
    <3>3. QED
      BY <1>1, <3>1, <3>2 DEF SearchIsLocallyBest, SearchInv, RanksInv, Tried
  <2>2. CASE search # "stopped"
    BY <1>1, <2>2 DEF SearchIsLocallyBest, SearchInv, RanksInv
  <2>3. QED
    BY <2>1, <2>2
<1>2. QED
  BY <1>1, SearchInitInv, SearchStepInv, PTL DEF SearchSpec

----------------------------------------------------------------------------
(***************************************************************************)
(* That a run is told as it went: whoever reads along hears the notices of *)
(* both threads in order, none twice, and misses none unless a link, the   *)
(* relay or Telegram failed; the exit code, MLflow and the last notice     *)
(* agree.  The invariant follows every notice from the thread that holds   *)
(* it to the relay and past it: of the notices dispatched so far, a thread *)
(* that still holds one also holds all that should come after it.          *)
(***************************************************************************)

Notices == (RunPairs \X {"start", "terminal", "breach"}) \cup {<<Controller, "start">>} \cup Endings

RunTypes ==
  /\ runAt \in {"preparing", "connecting", "announcing", "submitting", "draining", "summing",
                "closing", "failing", "returned 0", "returned 1", "raised"}
  /\ lineage \in BOOLEAN /\ inProcess \in BOOLEAN
  /\ pairStage \in [RunPairs -> {"waiting", "running", "ended", "reported", "botched"}]
  /\ handedOver \in Seq(RunPairs)
  /\ calling \in {NoCall} \cup [pair : RunPairs, ends : {"reported", "botched"}]

PostTypes ==
  /\ told \subseteq Notices
  /\ outbox \in [Posters -> Seq(Notices)]
  /\ awaiting \in [Posters -> told \cup {Nothing}]
  /\ heard \in Seq([chat : Chats, notice : told])
  /\ DOMAIN requests \subseteq told /\ lost \subseteq told /\ givenUp \subseteq told

\* How far each pair has come
HandedInv ==
  /\ \A i, j \in DOMAIN handedOver : handedOver[i] = handedOver[j] => i = j
  /\ \A p \in ToSet(handedOver) : pairStage[p] = "ended" /\ p # calling.pair
  /\ calling # NoCall => pairStage[calling.pair] = "ended"
  /\ handedOver # <<>> \/ calling # NoCall => runAt \in {"submitting", "draining"}
  /\ runAt \in {"preparing", "connecting", "announcing"} =>
       told = {} /\ \A p \in RunPairs : pairStage[p] = "waiting"

Judged(p) == pairStage[p] \in {"reported", "botched"}

\* What has been said of each pair
SaidInv ==
  \A p \in RunPairs :
    /\ <<p, "start">> \in told => pairStage[p] # "waiting"
    /\ <<p, "terminal">> \in told <=> p = calling.pair \/ Judged(p)
    /\ <<p, "breach">> \in told => p = calling.pair \/ Judged(p)
    /\ pairStage[p] # "waiting" =>
         (runAt = "submitting" \/ p \in ToSet(handedOver) \/ p = calling.pair \/ Judged(p) =>
            <<p, "start">> \in told)

Asked == UNION {ToSet(outbox[t]) : t \in Posters}
Heard == {heard[i].notice : i \in DOMAIN heard}

\* Each notice is in one place: with its thread, at the relay, or past it
PlaceInv ==
  /\ \A t \in Posters : \A i, j \in DOMAIN outbox[t] : outbox[t][i] = outbox[t][j] => i = j
  /\ \A n \in ToSet(outbox["main"]) : n \notin ToSet(outbox["callbacks"])
  /\ \A t \in Posters : \A n \in ToSet(outbox[t]) :
       n \in told /\ n \notin DOMAIN requests \cup Heard \cup lost \cup givenUp
  /\ \A n \in DOMAIN requests : n \notin Heard
  /\ \A t \in Posters : awaiting[t] # Nothing =>
       /\ awaiting[t] \in DOMAIN requests \ givenUp
       /\ \A u \in Posters : awaiting[u] = awaiting[t] => u = t
  /\ \A n \in DOMAIN requests \ givenUp : \E t \in Posters : awaiting[t] = n
  /\ "telegram" \in sinks => told \subseteq Asked \cup DOMAIN requests \cup Heard \cup lost

\* A thread has it in its hands that the notice is heard in order.
Holds(t, n) == n \in ToSet(outbox[t]) \/ n = awaiting[t]

ThreadInv ==
  /\ \A n \in Notices : Holds("callbacks", n) =>
       ~ inProcess /\ calling # NoCall /\ n \in {<<calling.pair, "terminal">>, <<calling.pair, "breach">>}
  /\ \A p \in ToSet(handedOver) : ~ Holds("main", <<p, "start">>)
  /\ handedOver # <<>> => ~ Holds("main", <<Controller, "start">>)

OrderInv ==
  /\ \A t \in Posters : \A m, n \in told : Holds(t, m) /\ Precedes(m, n) => n \in ToSet(outbox[t])
  /\ \A t \in Posters : \A i, j \in DOMAIN outbox[t] : i < j => ~ Precedes(outbox[t][j], outbox[t][i])
  /\ InOrder(HeardNotices, givenUp)

ClosingInv ==
  /\ VerdictsAgree
  /\ runAt \in {"summing", "closing", "returned 0"} => verdict = "success"

RunInv ==
  RunTypes /\ PostTypes /\ HandedInv /\ SaidInv /\ PlaceInv /\ ThreadInv /\ OrderInv /\ ClosingInv

\* The empty sequence has no elements.
LEMMA NothingIn == ToSet(<<>>) = {}
BY DEF ToSet

\* The notices there are, and that none of them is Nothing.
LEMMA NoticeFacts ==
  /\ Nothing \notin Notices
  /\ \A p \in RunPairs : p # Controller /\ p # Nothing
  /\ \A p \in RunPairs : {<<p, "start">>, <<p, "terminal">>, <<p, "breach">>} \subseteq Notices
  /\ {<<Controller, "start">>, <<Controller, "SUCCEEDED">>, <<Controller, "FAILED">>} \subseteq Notices
BY ControllerAssumption DEF Notices, Nothing, Endings

\* No notice of a pair is an ending.
LEMMA PairNotEnding ==
  ASSUME NEW p \in RunPairs
  PROVE  /\ <<p, "start">> \notin Endings /\ <<p, "terminal">> \notin Endings
         /\ <<p, "breach">> \notin Endings
BY DEF Endings

\* No ending is the start of the run.
LEMMA EndingNotStart ==
  ASSUME NEW n \in Endings
  PROVE  n # <<Controller, "start">>
BY DEF Endings

\* A list of one notice holds that notice.
LEMMA OneNotice ==
  ASSUME NEW n
  PROVE  ToSet(<<n>>) = {n}
BY DEF ToSet

\* What comes before what: the start of the run first, its ending last, and
\* the notices of a pair as they are listed in Acts.
LEMMA PrecedesCases ==
  ASSUME NEW m \in Notices, NEW n \in Notices, Precedes(m, n)
  PROVE  \/ m = <<Controller, "start">> /\ n # m
         \/ n \in Endings /\ m \notin Endings
         \/ \E p \in RunPairs :
              \/ m = <<p, "start">> /\ n \in {<<p, "terminal">>, <<p, "breach">>}
              \/ m = <<p, "terminal">> /\ n = <<p, "breach">>
<1> SUFFICES ASSUME m # <<Controller, "start">>, m[1] = n[1], m[1] # Controller,
                    \E i, j \in DOMAIN Acts : i < j /\ m[2] = Acts[i] /\ n[2] = Acts[j]
             PROVE  \E p \in RunPairs :
                      \/ m = <<p, "start">> /\ n \in {<<p, "terminal">>, <<p, "breach">>}
                      \/ m = <<p, "terminal">> /\ n = <<p, "breach">>
  BY DEF Precedes
<1>1. \/ m[2] = "start" /\ n[2] \in {"terminal", "breach"}
      \/ m[2] = "terminal" /\ n[2] = "breach"
  BY DEF Acts
<1>2. m \in RunPairs \X {"start", "terminal", "breach"} /\ n \in RunPairs \X {"start", "terminal", "breach"}
  BY DEF Notices, Endings
<1>3. QED
  BY <1>1, <1>2

\* No notice precedes itself.
LEMMA PrecedesNotSame ==
  ASSUME NEW n \in Notices
  PROVE  ~ Precedes(n, n)
BY PrecedesCases

\* The elements of a sequence over a set are in that set.
LEMMA Elements ==
  ASSUME NEW S, NEW s \in Seq(S)
  PROVE  ToSet(s) \subseteq S
<1>1. \A i \in DOMAIN s : s[i] \in S
  OBVIOUS
<1>2. QED
  BY <1>1 DEF ToSet

\* A sequence over a set is a sequence over a larger one.
LEMMA Widened ==
  ASSUME NEW S, NEW T, S \subseteq T, NEW s \in Seq(S)
  PROVE  s \in Seq(T) /\ \A i \in DOMAIN s : s[i] \in S
OBVIOUS

\* A sequence that is not empty, taken apart.
LEMMA TailOf ==
  ASSUME NEW S, NEW s \in Seq(S), s # <<>>
  PROVE  /\ Tail(s) \in Seq(S) /\ Head(s) = s[1] /\ 1 \in DOMAIN s /\ Head(s) \in S
         /\ \A i \in DOMAIN Tail(s) : i + 1 \in DOMAIN s /\ Tail(s)[i] = s[i + 1]
         /\ ToSet(s) = {Head(s)} \cup ToSet(Tail(s))
<1>1. /\ Tail(s) \in Seq(S) /\ Head(s) = s[1] /\ Len(s) \in Nat \ {0}
      /\ DOMAIN s = 1 .. Len(s) /\ DOMAIN Tail(s) = 1 .. Len(s) - 1
      /\ \A i \in 1 .. Len(s) - 1 : Tail(s)[i] = s[i + 1]
  OBVIOUS
<1>2. ASSUME NEW i \in 1 .. Len(s), i # 1
      PROVE  i - 1 \in 1 .. Len(s) - 1 /\ s[i] = Tail(s)[i - 1]
  <2>1. i - 1 \in 1 .. Len(s) - 1 /\ (i - 1) + 1 = i
    BY <1>1, <1>2
  <2>2. QED
    BY <1>1, <2>1
<1>3. ToSet(s) = {Head(s)} \cup ToSet(Tail(s))
  <2>1. ASSUME NEW n \in ToSet(s) PROVE n \in {Head(s)} \cup ToSet(Tail(s))
    <3>1. PICK i \in 1 .. Len(s) : n = s[i]
      BY <1>1, <2>1 DEF ToSet
    <3>2. CASE i # 1
      BY <1>1, <1>2, <3>1, <3>2 DEF ToSet
    <3>3. QED
      BY <1>1, <3>1, <3>2
  <2>2. ASSUME NEW n \in ToSet(Tail(s)) PROVE n \in ToSet(s)
    BY <1>1, <2>2 DEF ToSet
  <2>3. Head(s) \in ToSet(s)
    BY <1>1 DEF ToSet
  <2>4. QED
    BY <2>1, <2>2, <2>3
<1>4. QED
  BY <1>1, <1>3

(* Notices on their way *)

\* A step that changes nothing but where the notices are
Forwards ==
  /\ UNCHANGED <<runAt, runOptions, tracked, campaignVars, handedOver, calling, told>>
  /\ \A t \in Posters :
       \/ outbox'[t] = outbox[t] /\ awaiting'[t] \in {awaiting[t], Nothing}
       \/ /\ outbox[t] # <<>> /\ outbox'[t] = Tail(outbox[t])
          /\ awaiting[t] = Nothing /\ awaiting'[t] \in {Nothing, Head(outbox[t])}

\* Such a step keeps the invariant if what is heard stays in order and every
\* notice has its place: no notice overtakes one that its thread still holds.
LEMMA ForwardsKeeps ==
  ASSUME RunInv, Forwards, PostTypes', PlaceInv', InOrder(HeardNotices, givenUp)'
  PROVE  RunInv'
<1> USE DEF RunInv
<1>1. ASSUME NEW t \in Posters, NEW n
      PROVE  Holds(t, n)' => Holds(t, n) \/ n = Nothing
  <2>1. outbox[t] \in Seq(Notices)
    BY DEF PostTypes
  <2>2. CASE outbox[t] # <<>> /\ outbox'[t] = Tail(outbox[t]) /\ awaiting'[t] \in {Nothing, Head(outbox[t])}
    <3>1. ToSet(outbox[t]) = {Head(outbox[t])} \cup ToSet(outbox'[t])
      BY <2>1, <2>2, TailOf
    <3>2. QED
      BY <2>2, <3>1 DEF Holds
  <2>3. QED
    BY <2>2 DEF Forwards, Holds
<1>2. RunTypes' /\ HandedInv' /\ SaidInv'
  BY DEF Forwards, RunTypes, HandedInv, SaidInv, Judged, runOptions, campaignVars
<1>3. ClosingInv'
  BY DEF Forwards, ClosingInv, VerdictsAgree, runOptions, campaignVars
<1>4. ThreadInv'
  <2>1. \A t \in Posters, n \in Notices : Holds(t, n)' => Holds(t, n)
    BY <1>1, NoticeFacts
  <2>2. {"main", "callbacks"} \subseteq Posters /\ ToSet(handedOver) \subseteq RunPairs
    BY ControllerAssumption, Elements DEF RunTypes
  <2>3. \A p \in ToSet(handedOver) : <<p, "start">> \in Notices
    BY <2>2, NoticeFacts
  <2>4. UNCHANGED <<inProcess, calling, handedOver>>
    BY DEF Forwards, runOptions
  <2>5. QED
    BY <2>1, <2>2, <2>3, <2>4, NoticeFacts DEF ThreadInv
<1>5. ASSUME NEW t \in Posters
      PROVE  \A i, j \in DOMAIN outbox'[t] : i < j => ~ Precedes(outbox'[t][j], outbox'[t][i])
  <2>1. outbox[t] \in Seq(Notices)
    BY DEF PostTypes
  <2>2. CASE outbox'[t] = outbox[t]
    BY <2>2 DEF OrderInv
  <2>3. CASE outbox[t] # <<>> /\ outbox'[t] = Tail(outbox[t])
    <3>1. \A i \in DOMAIN outbox'[t] : i \in Int /\ i + 1 \in DOMAIN outbox[t] /\ outbox'[t][i] = outbox[t][i + 1]
      BY <2>1, <2>3, TailOf
    <3>2. QED
      BY <3>1 DEF OrderInv
  <2>4. QED
    BY <2>2, <2>3 DEF Forwards
<1>6. ASSUME NEW t \in Posters, NEW m \in told, NEW n \in told, Holds(t, m)', Precedes(m, n)
      PROVE  n \in ToSet(outbox'[t])
  <2>1. m \in Notices /\ n \in Notices /\ m # Nothing /\ outbox[t] \in Seq(Notices)
    BY NoticeFacts DEF PostTypes
  <2>2. n \in ToSet(outbox[t])
    BY <1>1, <1>6, <2>1 DEF OrderInv
  <2>3. CASE outbox'[t] = outbox[t]
    BY <2>2, <2>3
  <2>4. CASE /\ outbox[t] # <<>> /\ outbox'[t] = Tail(outbox[t])
             /\ awaiting'[t] \in {Nothing, Head(outbox[t])}
    <3>1. CASE m \in ToSet(Tail(outbox[t]))
      <4>1. PICK i \in DOMAIN Tail(outbox[t]) : m = Tail(outbox[t])[i]
        BY <3>1 DEF ToSet
      <4>2. i \in Nat /\ 1 < i + 1 /\ i + 1 \in DOMAIN outbox[t] /\ m = outbox[t][i + 1]
            /\ 1 \in DOMAIN outbox[t] /\ Head(outbox[t]) = outbox[t][1]
        BY <2>1, <2>4, <4>1, TailOf
      <4>3. n # Head(outbox[t])
        BY <1>6, <4>2 DEF OrderInv
      <4>4. QED
        BY <2>1, <2>2, <2>4, <4>3, TailOf
    <3>2. CASE m = Head(outbox[t])
      BY <1>6, <2>1, <2>2, <2>4, <3>2, TailOf, PrecedesNotSame
    <3>3. QED
      BY <1>6, <2>1, <2>4, <3>1, <3>2 DEF Holds
  <2>5. QED
    BY <2>3, <2>4 DEF Forwards
<1>7. OrderInv'
  BY <1>5, <1>6 DEF OrderInv, Forwards, Precedes, Acts
<1>8. QED
  BY <1>2, <1>3, <1>4, <1>7

\* The notice that is taken off a queue was in no other place, and leaves the
\* rest of the queues as they were.
LEMMA TakenOff ==
  ASSUME PostTypes, PlaceInv, NEW t \in Posters, outbox[t] # <<>>,
         outbox' = [outbox EXCEPT ![t] = Tail(@)]
  PROVE  /\ outbox' \in [Posters -> Seq(Notices)]
         /\ \A u \in Posters : \A i, j \in DOMAIN outbox'[u] : outbox'[u][i] = outbox'[u][j] => i = j
         /\ Head(outbox[t]) \in told \ (DOMAIN requests \cup Heard \cup lost \cup givenUp)
         /\ \A u \in Posters : ToSet(outbox'[u]) = ToSet(outbox[u]) \ {Head(outbox[t])}
<1> DEFINE h == Head(outbox[t])
<1>1. /\ outbox \in [Posters -> Seq(Notices)] /\ outbox[t] \in Seq(Notices)
      /\ outbox'[t] = Tail(outbox[t]) /\ \A u \in Posters \ {t} : outbox'[u] = outbox[u]
  BY DEF PostTypes
<1>2. /\ Tail(outbox[t]) \in Seq(Notices) /\ h = outbox[t][1] /\ 1 \in DOMAIN outbox[t]
      /\ \A i \in DOMAIN outbox'[t] :
           i \in Nat \ {0} /\ i + 1 \in DOMAIN outbox[t] /\ outbox'[t][i] = outbox[t][i + 1]
      /\ ToSet(outbox[t]) = {h} \cup ToSet(outbox'[t])
  BY <1>1, TailOf
<1>3. outbox' \in [Posters -> Seq(Notices)]
  BY <1>1, <1>2
<1>4. \A i, j \in DOMAIN outbox[t] : outbox[t][i] = outbox[t][j] => i = j
  BY DEF PlaceInv
<1>5. ASSUME NEW u \in Posters, NEW i \in DOMAIN outbox'[u], NEW j \in DOMAIN outbox'[u],
             outbox'[u][i] = outbox'[u][j]
      PROVE  i = j
  <2>1. CASE u = t
    <3>1. i + 1 = j + 1 /\ i \in Nat /\ j \in Nat
      BY <1>2, <1>4, <1>5, <2>1
    <3>2. QED
      BY <3>1
  <2>2. CASE u # t
    BY <1>1, <1>5, <2>2 DEF PlaceInv
  <2>3. QED
    BY <2>1, <2>2
<1>6. h \in ToSet(outbox[t]) /\ h \notin ToSet(outbox'[t])
  <2>1. ASSUME NEW i \in DOMAIN outbox'[t], outbox'[t][i] = h PROVE FALSE
    <3>1. i + 1 = 1 /\ i \in Nat \ {0}
      BY <1>2, <1>4, <2>1
    <3>2. QED
      BY <3>1
  <2>2. QED
    BY <1>2, <2>1 DEF ToSet
<1>7. h \in told \ (DOMAIN requests \cup Heard \cup lost \cup givenUp)
  BY <1>6 DEF PlaceInv
<1>8. ASSUME NEW u \in Posters PROVE ToSet(outbox'[u]) = ToSet(outbox[u]) \ {h}
  <2>1. CASE u = t
    BY <1>2, <1>6, <2>1
  <2>2. CASE u # t
    <3>1. h \notin ToSet(outbox[u])
      BY <1>6, <2>2, ControllerAssumption DEF PlaceInv
    <3>2. QED
      BY <1>1, <2>2, <3>1
  <2>3. QED
    BY <2>1, <2>2
<1>9. QED
  BY <1>3, <1>5, <1>7, <1>8

\* An e-mail changes nothing of what is heard.
LEMMA MailInv ==
  ASSUME RunInv, NEW t \in Posters, Mail(t)
  PROVE  RunInv'
<1> USE DEF RunInv
<1>1. /\ UNCHANGED <<runAt, runOptions, tracked, campaignVars, handedOver, calling, told, relayVars>>
      /\ outbox[t] # <<>> /\ awaiting[t] = Nothing
      /\ outbox' = outbox \/ ("telegram" \notin sinks /\ outbox' = [outbox EXCEPT ![t] = Tail(@)])
  BY DEF Mail
<1>2. UNCHANGED <<told, sinks, awaiting, requests, heard, lost, givenUp>>
  BY <1>1 DEF relayVars, runOptions
<1>3. Heard' = Heard /\ HeardNotices' = HeardNotices
  BY <1>2 DEF Heard, HeardNotices
<1>4. Forwards
  <2>1. outbox \in [Posters -> Seq(Notices)]
    BY DEF PostTypes
  <2>2. QED
    BY <1>1, <1>2, <2>1 DEF Forwards
<1>5. InOrder(HeardNotices, givenUp)'
  BY <1>2, <1>3 DEF OrderInv, InOrder, Precedes, Acts
<1>6. CASE outbox' = outbox
  <2>1. PostTypes'
    BY <1>2, <1>6 DEF PostTypes, Notices
  <2>2. PlaceInv'
    BY <1>2, <1>3, <1>6 DEF PlaceInv, Asked
  <2>3. QED
    BY <1>4, <1>5, <2>1, <2>2, ForwardsKeeps
<1>7. CASE "telegram" \notin sinks /\ outbox' = [outbox EXCEPT ![t] = Tail(@)]
  <2>1. PostTypes'
    BY <1>1, <1>2, <1>7, TakenOff DEF PostTypes, Notices
  <2>2. /\ \A u \in Posters : \A i, j \in DOMAIN outbox'[u] : outbox'[u][i] = outbox'[u][j] => i = j
        /\ \A u \in Posters : ToSet(outbox'[u]) \subseteq ToSet(outbox[u])
    BY <1>1, <1>7, TakenOff
  <2>3. PlaceInv'
    BY <1>2, <1>3, <1>7, <2>2, ControllerAssumption DEF PlaceInv
  <2>4. QED
    BY <1>4, <1>5, <2>1, <2>3, ForwardsKeeps
<1>8. QED
  BY <1>1, <1>6, <1>7

\* A notice that is posted moves to the relay, or is lost.
LEMMA TelegramInv ==
  ASSUME RunInv, NEW t \in Posters, Telegram(t)
  PROVE  RunInv'
<1> USE DEF RunInv
<1> DEFINE n == Head(outbox[t])
<1>1. /\ UNCHANGED <<runAt, runOptions, tracked, campaignVars, handedOver, calling, told>>
      /\ outbox[t] # <<>> /\ awaiting[t] = Nothing
      /\ outbox' = [outbox EXCEPT ![t] = Tail(@)]
      /\ Post(t, n)
  BY DEF Telegram, Post
<1>2. /\ UNCHANGED <<told, sinks, heard, givenUp>>
      /\ \/ /\ DOMAIN requests' = DOMAIN requests \cup {n}
            /\ awaiting' = [awaiting EXCEPT ![t] = n] /\ lost' = lost
         \/ UNCHANGED <<requests, awaiting>> /\ lost' = lost \cup {n}
  BY <1>1 DEF Post, runOptions
<1>3. Heard' = Heard /\ HeardNotices' = HeardNotices
  BY <1>2 DEF Heard, HeardNotices
<1>4. /\ outbox' \in [Posters -> Seq(Notices)]
      /\ \A u \in Posters : \A i, j \in DOMAIN outbox'[u] : outbox'[u][i] = outbox'[u][j] => i = j
      /\ n \in told \ (DOMAIN requests \cup Heard \cup lost \cup givenUp)
      /\ \A u \in Posters : ToSet(outbox'[u]) = ToSet(outbox[u]) \ {n}
  BY <1>1, TakenOff
<1>5. awaiting \in [Posters -> told \cup {Nothing}] /\ outbox \in [Posters -> Seq(Notices)]
  BY DEF PostTypes
<1>6. Forwards
  BY <1>1, <1>2, <1>5 DEF Forwards
<1>7. InOrder(HeardNotices, givenUp)'
  BY <1>2, <1>3 DEF OrderInv, InOrder, Precedes, Acts
<1> HIDE DEF n
<1>8. PostTypes'
  <2>1. awaiting' \in [Posters -> told \cup {Nothing}]
    BY <1>2, <1>4, <1>5
  <2>2. DOMAIN requests' \subseteq told /\ lost' \subseteq told
    BY <1>2, <1>4 DEF PostTypes
  <2>3. QED
    BY <1>2, <1>4, <2>1, <2>2 DEF PostTypes, Notices
<1>9. PlaceInv'
  <2>1. \A u \in Posters : awaiting'[u] # Nothing =>
          /\ awaiting'[u] \in DOMAIN requests' \ givenUp'
          /\ \A v \in Posters : awaiting'[v] = awaiting'[u] => v = u
    <3>1. \A u \in Posters : awaiting[u] # Nothing => awaiting[u] # n
      BY <1>4 DEF PlaceInv
    <3>2. CASE UNCHANGED <<requests, awaiting>>
      BY <1>2, <3>2 DEF PlaceInv
    <3>3. CASE DOMAIN requests' = DOMAIN requests \cup {n} /\ awaiting' = [awaiting EXCEPT ![t] = n]
      <4>1. awaiting'[t] = n /\ \A u \in Posters \ {t} : awaiting'[u] = awaiting[u]
        BY <1>5, <3>3
      <4>2. n # Nothing
        BY <1>4, NoticeFacts DEF PostTypes
      <4>3. QED
        BY <1>2, <1>4, <3>1, <3>3, <4>1, <4>2 DEF PlaceInv
    <3>4. QED
      BY <1>2, <3>2, <3>3
  <2>2. \A m \in DOMAIN requests' \ givenUp' : \E u \in Posters : awaiting'[u] = m
    BY <1>1, <1>2, <1>4, <1>5, NoticeFacts DEF PlaceInv, PostTypes
  <2>3. "telegram" \in sinks' => told' \subseteq Asked' \cup DOMAIN requests' \cup Heard' \cup lost'
    <3>1. Asked \subseteq Asked' \cup {n}
      BY <1>4 DEF Asked
    <3>2. n \in DOMAIN requests' \cup lost'
      BY <1>2
    <3>3. QED
      BY <1>2, <1>3, <3>1, <3>2 DEF PlaceInv
  <2>4. QED
    BY <1>2, <1>3, <1>4, <2>1, <2>2, <2>3, ControllerAssumption DEF PlaceInv
<1>10. QED
  BY <1>6, <1>7, <1>8, <1>9, ForwardsKeeps

\* A request that ends has lost its notice, or it is heard as the last one: if
\* its caller still waits, the caller holds no notice that should come before.
LEMMA EndsInv ==
  ASSUME RunInv, UNCHANGED <<runVars, givenUp>>, NEW N \in SUBSET DOMAIN requests, EndRequests(N),
         \/ lost' = lost \cup N /\ heard' = heard
         \/ \E n \in N, c \in Chats :
              N = {n} /\ heard' = Append(heard, [chat |-> c, notice |-> n]) /\ lost' = lost
  PROVE  RunInv'
<1> USE DEF RunInv
<1>1. UNCHANGED <<runAt, runOptions, inProcess, sinks, tracked, campaignVars, handedOver, calling, outbox, told, givenUp>>
  BY DEF runVars, runOptions, posting
<1>2. /\ DOMAIN requests' = DOMAIN requests \ N
      /\ awaiting' = [u \in Posters |-> IF awaiting[u] \in N THEN Nothing ELSE awaiting[u]]
  BY DEF EndRequests, Restrict
<1>3. awaiting \in [Posters -> told \cup {Nothing}] /\ N \subseteq told /\ N \subseteq Notices
  BY DEF PostTypes
<1>4. Forwards
  BY <1>1, <1>2, <1>3 DEF Forwards
<1>5. /\ heard' \in Seq([chat : Chats, notice : told])
      /\ Heard \subseteq Heard' /\ Heard' \subseteq Heard \cup N
      /\ N \subseteq Heard' \cup lost' /\ lost \subseteq lost' /\ lost' \subseteq lost \cup N
      /\ InOrder(HeardNotices, givenUp)'
  <2>1. CASE lost' = lost \cup N /\ heard' = heard
    <3>1. Heard' = Heard /\ HeardNotices' = HeardNotices
      BY <2>1 DEF Heard, HeardNotices
    <3>2. QED
      BY <1>1, <2>1, <3>1 DEF PostTypes, OrderInv, InOrder, Precedes, Acts
  <2>2. ASSUME NEW n \in N, NEW c \in Chats, N = {n}, lost' = lost,
               heard' = Append(heard, [chat |-> c, notice |-> n])
        PROVE  /\ heard' \in Seq([chat : Chats, notice : told])
               /\ Heard' = Heard \cup {n}
               /\ InOrder(HeardNotices, givenUp)'
    <3>1. /\ heard \in Seq([chat : Chats, notice : told]) /\ n \in told
          /\ [chat |-> c, notice |-> n] \in [chat : Chats, notice : told]
      BY <1>3 DEF PostTypes
    <3>2. /\ heard' \in Seq([chat : Chats, notice : told])
          /\ Len(heard) \in Nat /\ DOMAIN heard = 1 .. Len(heard)
          /\ DOMAIN heard' = 1 .. Len(heard) + 1
          /\ \A i \in DOMAIN heard : heard'[i] = heard[i]
          /\ heard'[Len(heard) + 1].notice = n
      BY <2>2, <3>1
    <3>3. Heard' = Heard \cup {n}
      <4>1. \A i \in DOMAIN heard' : i \in DOMAIN heard \/ i = Len(heard) + 1
        BY <3>2
      <4>2. DOMAIN heard \subseteq DOMAIN heard' /\ Len(heard) + 1 \in DOMAIN heard'
        BY <3>2
      <4>3. QED
        BY <3>2, <4>1, <4>2 DEF Heard
    <3>4. ASSUME NEW i \in DOMAIN heard
          PROVE  heard[i].notice # n /\ (Precedes(n, heard[i].notice) => n \in givenUp)
      <4>1. heard[i].notice \in Heard /\ heard[i].notice \in told
        <5>1. heard[i] \in [chat : Chats, notice : told]
          BY <3>1, Widened
        <5>2. QED
          BY <5>1 DEF Heard
      <4>2. heard[i].notice # n
        BY <4>1 DEF PlaceInv
      <4>3. ASSUME Precedes(n, heard[i].notice), n \notin givenUp PROVE FALSE
        <5>1. PICK t \in Posters : awaiting[t] = n
          BY <4>3 DEF PlaceInv
        <5>2. heard[i].notice \in ToSet(outbox[t])
          BY <3>1, <4>1, <4>3, <5>1 DEF OrderInv, Holds
        <5>3. QED
          BY <4>1, <5>2 DEF PlaceInv
      <4>4. QED
        BY <4>2, <4>3
    <3>5. ASSUME NEW i \in DOMAIN heard', NEW j \in DOMAIN heard', i < j
          PROVE  /\ heard'[i].notice # heard'[j].notice
                 /\ Precedes(heard'[j].notice, heard'[i].notice) => heard'[j].notice \in givenUp
      <4>1. i \in DOMAIN heard
        BY <3>2, <3>5
      <4>2. CASE j \in DOMAIN heard
        <5>1. /\ DOMAIN HeardNotices = DOMAIN heard
              /\ HeardNotices[i] = heard[i].notice /\ HeardNotices[j] = heard[j].notice
          BY <4>1, <4>2 DEF HeardNotices
        <5>2. QED
          BY <3>2, <3>5, <4>1, <4>2, <5>1 DEF OrderInv, InOrder
      <4>3. CASE j = Len(heard) + 1
        BY <3>2, <3>4, <4>1, <4>3
      <4>4. QED
        BY <3>2, <4>2, <4>3
    <3>6. InOrder(HeardNotices, givenUp)'
      BY <1>1, <3>5 DEF InOrder, HeardNotices, Precedes, Acts
    <3>7. QED
      BY <3>2, <3>3, <3>6
  <2>3. QED
    BY <2>1, <2>2
<1>6. PostTypes'
  BY <1>1, <1>2, <1>3, <1>5 DEF PostTypes, Notices
<1>7. PlaceInv'
  <2>1. \A u \in Posters : awaiting'[u] # Nothing => awaiting'[u] = awaiting[u] /\ awaiting[u] \notin N
    BY <1>2
  <2>2. \A m \in DOMAIN requests' \ givenUp' : \E u \in Posters : awaiting'[u] = m
    BY <1>1, <1>2 DEF PlaceInv
  <2>3. Asked' = Asked
    BY <1>1 DEF Asked
  <2>4. \A u \in Posters : \A m \in ToSet(outbox[u]) : m \notin N
    BY DEF PlaceInv
  <2>5. QED
    BY <1>1, <1>2, <1>5, <2>1, <2>2, <2>3, <2>4, ControllerAssumption DEF PlaceInv
<1>8. QED
  BY <1>4, <1>5, <1>6, <1>7, ForwardsKeeps

\* A caller that gives up excuses its notice.
LEMMA TimeOutInv ==
  ASSUME RunInv, UNCHANGED runVars, NEW t \in Posters, TimeOut(t)
  PROVE  RunInv'
<1> USE DEF RunInv
<1>1. UNCHANGED <<runAt, runOptions, inProcess, sinks, tracked, campaignVars, handedOver, calling, outbox, told>>
  BY DEF runVars, runOptions, posting
<1>2. /\ UNCHANGED <<requests, heard, lost>> /\ awaiting[t] # Nothing
      /\ givenUp' = givenUp \cup {awaiting[t]}
      /\ awaiting' = [awaiting EXCEPT ![t] = Nothing]
  BY DEF TimeOut
<1>3. awaiting \in [Posters -> told \cup {Nothing}]
  BY DEF PostTypes
<1>4. Forwards
  BY <1>1, <1>2, <1>3 DEF Forwards
<1>5. Heard' = Heard /\ HeardNotices' = HeardNotices /\ Asked' = Asked
  BY <1>1, <1>2 DEF Heard, HeardNotices, Asked
<1>6. InOrder(HeardNotices, givenUp)'
  BY <1>2, <1>5 DEF OrderInv, InOrder, Precedes, Acts
<1>7. PostTypes'
  BY <1>1, <1>2, <1>3 DEF PostTypes, Notices
<1>8. PlaceInv'
  <2>1. awaiting[t] \in DOMAIN requests /\ \A u \in Posters : awaiting[u] = awaiting[t] => u = t
    BY <1>2 DEF PlaceInv
  <2>2. \A u \in Posters : awaiting'[u] # Nothing => awaiting'[u] = awaiting[u] /\ awaiting[u] # awaiting[t]
    BY <1>2, <1>3, <2>1
  <2>3. \A m \in DOMAIN requests' \ givenUp' : \E u \in Posters : awaiting'[u] = m
    BY <1>2, <1>3 DEF PlaceInv
  <2>4. \A u \in Posters : \A m \in ToSet(outbox[u]) : m # awaiting[t]
    BY <2>1 DEF PlaceInv
  <2>5. QED
    BY <1>1, <1>2, <1>5, <2>1, <2>2, <2>3, <2>4, ControllerAssumption DEF PlaceInv
<1>9. QED
  BY <1>4, <1>6, <1>7, <1>8, ForwardsKeeps

\* A step of the relay that ends no request changes nothing of the order.
LEMMA SameRequests ==
  ASSUME RunInv, UNCHANGED <<runVars, awaiting, heard, lost, givenUp>>, DOMAIN requests' = DOMAIN requests
  PROVE  RunInv'
<1> USE DEF RunInv
<1>1. UNCHANGED <<runAt, runOptions, inProcess, sinks, tracked, campaignVars, handedOver, calling, outbox, told>>
  BY DEF runVars, runOptions, posting
<1>2. Forwards
  BY <1>1 DEF Forwards
<1>3. Heard' = Heard /\ HeardNotices' = HeardNotices /\ Asked' = Asked
  BY <1>1 DEF Heard, HeardNotices, Asked
<1>4. InOrder(HeardNotices, givenUp)'
  BY <1>3 DEF OrderInv, InOrder, Precedes, Acts
<1>5. PostTypes'
  BY <1>1 DEF PostTypes, Notices
<1>6. PlaceInv'
  BY <1>1, <1>3 DEF PlaceInv
<1>7. QED
  BY <1>2, <1>4, <1>5, <1>6, ForwardsKeeps

\* Every step of the relay preserves the invariant.
LEMMA RelayInv ==
  ASSUME RunInv, RelayNext, UNCHANGED runVars
  PROVE  RunInv'
<1>1. ASSUME NEW n \in DOMAIN requests, LookUp(n) PROVE RunInv'
  <2>1. CASE requests' = [requests EXCEPT ![n] = link] /\ UNCHANGED <<awaiting, lost>>
    BY <1>1, <2>1, SameRequests DEF LookUp
  <2>2. CASE EndRequests({n}) /\ lost' = lost \cup {n}
    BY <1>1, <2>2, EndsInv DEF LookUp
  <2>3. QED
    BY <1>1, <2>1, <2>2 DEF LookUp
<1>2. ASSUME NEW n \in DOMAIN requests, Forward(n) PROVE RunInv'
  BY <1>2, EndsInv DEF Forward
<1>3. ASSUME NEW t \in Posters, TimeOut(t) PROVE RunInv'
  BY <1>3, TimeOutInv
<1>4. ASSUME NEW c \in Chats, Subscribe(c) PROVE RunInv'
  BY <1>4, SameRequests DEF Subscribe
<1>5. CASE RelayRestarts
  BY <1>5, EndsInv DEF RelayRestarts
<1>6. QED
  BY <1>1, <1>2, <1>3, <1>4, <1>5 DEF RelayNext

(* Notices that are dispatched *)

\* None of these notices was dispatched before, none comes before another it
\* should follow, and none of the other thread's should precede them.
New(t, notices) ==
  /\ notices \in Seq(Notices)
  /\ ToSet(notices) \cap told = {}
  /\ \A i, j \in DOMAIN notices : notices[i] = notices[j] => i = j
  /\ \A i, j \in DOMAIN notices : i < j => ~ Precedes(notices[j], notices[i])
  /\ \A m \in ToSet(notices), n \in told : ~ Precedes(m, n)
  /\ \A u \in Posters \ {t} : \A m \in Notices : Holds(u, m) =>
       \A n \in ToSet(notices) : ~ Precedes(m, n)

\* New notices wait behind none and before none of those that are on the way.
LEMMA DispatchInv ==
  ASSUME RunInv, NEW t \in Posters, NEW notices, New(t, notices), Free(t), Dispatch(t, notices),
         UNCHANGED <<sinks, relayVars>>
  PROVE  /\ PostTypes' /\ PlaceInv' /\ OrderInv'
         /\ told' = told \cup ToSet(notices)
         /\ \A n : Holds(t, n)' => n \in ToSet(notices) \/ n = Nothing
         /\ \A u \in Posters \ {t} : \A n : Holds(u, n)' <=> Holds(u, n)
<1> USE DEF RunInv
<1> DEFINE N == ToSet(notices)
<1>1. /\ outbox \in [Posters -> Seq(Notices)] /\ told' = told \cup N
      /\ awaiting \in [Posters -> told \cup {Nothing}] /\ awaiting[t] = Nothing /\ outbox[t] = <<>>
      /\ outbox' = [outbox EXCEPT ![t] = IF sinks = {} THEN <<>> ELSE notices]
      /\ UNCHANGED <<requests, awaiting, heard, lost, givenUp, sinks>>
  BY DEF PostTypes, Free, Dispatch, relayVars
<1>2. /\ outbox'[t] = IF sinks = {} THEN <<>> ELSE notices
      /\ \A u \in Posters \ {t} : outbox'[u] = outbox[u]
      /\ ToSet(<<>>) = {} /\ ToSet(outbox[t]) = {}
  BY <1>1 DEF ToSet
<1>3. /\ notices \in Seq(Notices) /\ N \subseteq Notices /\ N \cap told = {}
      /\ ToSet(outbox'[t]) \subseteq N /\ (sinks # {} => ToSet(outbox'[t]) = N)
  BY <1>2, Elements DEF New
<1>4. Heard' = Heard /\ HeardNotices' = HeardNotices
  BY <1>1 DEF Heard, HeardNotices
<1>5. Heard \cup lost \cup givenUp \cup DOMAIN requests \subseteq told
  <2>1. heard \in Seq([chat : Chats, notice : told])
    BY DEF PostTypes
  <2>2. \A i \in DOMAIN heard : heard[i] \in [chat : Chats, notice : told]
    BY <2>1, Widened
  <2>3. QED
    BY <2>2 DEF PostTypes, Heard
<1>6. PostTypes'
  <2>1. <<>> \in Seq(Notices)
    OBVIOUS
  <2>2. outbox' \in [Posters -> Seq(Notices)]
    BY <1>1, <1>3, <2>1
  <2>3. heard \in Seq([chat : Chats, notice : told \cup N])
    <3>1. heard \in Seq([chat : Chats, notice : told])
      BY DEF PostTypes
    <3>2. [chat : Chats, notice : told] \subseteq [chat : Chats, notice : told \cup N]
      OBVIOUS
    <3>3. QED
      BY <3>1, <3>2, Widened
  <2> HIDE DEF N
  <2>4. QED
    BY <1>1, <1>3, <2>2, <2>3 DEF PostTypes, Notices
<1>7. PlaceInv'
  <2>1. \A u \in Posters : \A i, j \in DOMAIN outbox'[u] : outbox'[u][i] = outbox'[u][j] => i = j
    <3>1. \A i, j \in DOMAIN notices : notices[i] = notices[j] => i = j
      BY DEF New
    <3>2. DOMAIN <<>> = {}
      OBVIOUS
    <3>3. QED
      BY <1>2, <3>1, <3>2 DEF PlaceInv
  <2>2. \A u \in Posters \ {t} : ToSet(outbox'[u]) = ToSet(outbox[u]) /\ ToSet(outbox[u]) \subseteq told
    BY <1>2 DEF PlaceInv
  <2>3. \A u \in Posters : \A n \in ToSet(outbox'[u]) :
          n \in told' /\ n \notin DOMAIN requests' \cup Heard' \cup lost' \cup givenUp'
    <3>1. ASSUME NEW u \in Posters \ {t}, NEW n \in ToSet(outbox'[u])
          PROVE  n \in told' /\ n \notin DOMAIN requests' \cup Heard' \cup lost' \cup givenUp'
      BY <1>1, <1>4, <2>2, <3>1 DEF PlaceInv
    <3>2. ASSUME NEW n \in ToSet(outbox'[t])
          PROVE  n \in told' /\ n \notin DOMAIN requests' \cup Heard' \cup lost' \cup givenUp'
      BY <1>1, <1>3, <1>4, <1>5, <3>2
    <3>3. QED
      BY <3>1, <3>2
  <2>4. \A n \in ToSet(outbox'["main"]) : n \notin ToSet(outbox'["callbacks"])
    BY <1>3, <2>2, ControllerAssumption DEF PlaceInv
  <2>5. "telegram" \in sinks' => told' \subseteq Asked' \cup DOMAIN requests' \cup Heard' \cup lost'
    <3>1. ASSUME "telegram" \in sinks PROVE Asked' = Asked \cup N
      BY <1>2, <1>3, <2>2, <3>1 DEF Asked
    <3>2. QED
      BY <1>1, <1>4, <3>1 DEF PlaceInv
  <2>6. QED
    BY <1>1, <1>4, <2>1, <2>3, <2>4, <2>5 DEF PlaceInv
<1>8. /\ \A n : Holds(t, n)' => n \in N \/ n = Nothing
      /\ \A u \in Posters \ {t} : \A n : Holds(u, n)' <=> Holds(u, n)
  BY <1>1, <1>2, <1>3 DEF Holds
<1>9. OrderInv'
  <2>1. ASSUME NEW u \in Posters, NEW m \in told', NEW n \in told', Holds(u, m)', Precedes(m, n)
        PROVE  n \in ToSet(outbox'[u])
    <3>1. m \in Notices /\ m # Nothing
      BY <1>1, <1>3, NoticeFacts DEF PostTypes
    <3>2. CASE u = t
      <4>1. m \in ToSet(outbox'[t]) /\ m \in N
        BY <1>1, <1>3, <2>1, <3>1, <3>2 DEF Holds
      <4>2. n \in N
        BY <1>1, <2>1, <4>1 DEF New
      <4>3. sinks # {}
        BY <1>2, <4>1
      <4>4. QED
        BY <1>3, <3>2, <4>2, <4>3
    <3>3. CASE u # t
      <4>1. Holds(u, m) /\ m \in told /\ n \notin N
        <5>1. Holds(u, m)
          BY <1>8, <2>1, <3>3
        <5>2. m \in told
          BY <1>1, <3>1, <5>1 DEF Holds, PlaceInv
        <5>3. QED
          BY <2>1, <3>1, <3>3, <5>1, <5>2 DEF New
      <4>2. n \in ToSet(outbox[u])
        BY <1>1, <2>1, <4>1 DEF OrderInv
      <4>3. QED
        BY <1>2, <3>3, <4>2
    <3>4. QED
      BY <3>2, <3>3
  <2>2. ASSUME NEW u \in Posters, NEW i \in DOMAIN outbox'[u], NEW j \in DOMAIN outbox'[u], i < j
        PROVE  ~ Precedes(outbox'[u][j], outbox'[u][i])
    <3>1. DOMAIN <<>> = {}
      OBVIOUS
    <3>2. QED
      BY <1>2, <2>2, <3>1 DEF OrderInv, New
  <2>3. InOrder(HeardNotices, givenUp)'
    BY <1>1, <1>4 DEF OrderInv, InOrder, Precedes, Acts
  <2>4. QED
    BY <2>1, <2>2, <2>3 DEF OrderInv, Precedes, Acts
<1>10. QED
  BY <1>1, <1>6, <1>7, <1>8, <1>9

\* When a single notice is new
LEMMA NewOne ==
  ASSUME NEW t \in Posters, NEW n \in Notices, n \notin told,
         \A m \in told : ~ Precedes(n, m),
         \A u \in Posters \ {t} : \A m \in Notices : Holds(u, m) => ~ Precedes(m, n)
  PROVE  New(t, <<n>>) /\ ToSet(<<n>>) = {n}
<1>1. <<n>> \in Seq(Notices) /\ DOMAIN <<n>> = {1} /\ <<n>>[1] = n
  OBVIOUS
<1>2. ToSet(<<n>>) = {n}
  BY <1>1 DEF ToSet
<1>3. QED
  BY <1>1, <1>2 DEF New

\* When two notices are new
LEMMA NewTwo ==
  ASSUME NEW t \in Posters, NEW n \in Notices, NEW o \in Notices, {n, o} \cap told = {},
         n # o, ~ Precedes(o, n),
         \A m \in told : ~ Precedes(n, m) /\ ~ Precedes(o, m),
         \A u \in Posters \ {t} : \A m \in Notices :
           Holds(u, m) => ~ Precedes(m, n) /\ ~ Precedes(m, o)
  PROVE  New(t, <<n, o>>) /\ ToSet(<<n, o>>) = {n, o}
<1>1. /\ <<n, o>> \in Seq(Notices) /\ DOMAIN <<n, o>> = {1, 2}
      /\ <<n, o>>[1] = n /\ <<n, o>>[2] = o
  OBVIOUS
<1>2. ToSet(<<n, o>>) = {n, o}
  BY <1>1 DEF ToSet
<1>3. QED
  BY <1>1, <1>2 DEF New

(* The controllers and run_tune *)

\* A step that dispatches nothing leaves the notices where they are.
LEMMA SamePosting ==
  ASSUME RunInv, UNCHANGED <<posting, relayVars, sinks>>
  PROVE  /\ PostTypes' /\ PlaceInv' /\ OrderInv' /\ told' = told
         /\ \A t \in Posters, n \in Notices : Holds(t, n)' <=> Holds(t, n)
<1> USE DEF RunInv
<1>1. UNCHANGED <<outbox, told, awaiting, requests, heard, lost, givenUp>>
  BY DEF posting, relayVars
<1>2. Heard' = Heard /\ HeardNotices' = HeardNotices /\ Asked' = Asked
  BY <1>1 DEF Heard, HeardNotices, Asked
<1>3. PostTypes'
  BY <1>1 DEF PostTypes, Notices
<1>4. PlaceInv'
  BY <1>1, <1>2 DEF PlaceInv
<1>5. OrderInv'
  BY <1>1, <1>2 DEF OrderInv, InOrder, Holds, Precedes, Acts
<1>6. QED
  BY <1>1, <1>3, <1>4, <1>5 DEF Holds

Early == {"preparing", "connecting", "announcing"}

\* run_tune goes on without a word.
LEMMA MovesOn ==
  ASSUME RunInv, UNCHANGED <<pairStage, handedOver, calling, runOptions, posting, relayVars>>,
         runAt' \in Early \cup {"draining", "summing", "closing", "failing", "raised"},
         runAt' \in Early => runAt \in Early,
         runAt' # "draining" => runAt \notin {"submitting", "draining"} \/ (handedOver = <<>> /\ calling = NoCall),
         ClosingInv'
  PROVE  RunInv'
<1> USE DEF RunInv
<1>1. UNCHANGED <<sinks, inProcess, lineage>>
  BY DEF runOptions
<1>2. /\ PostTypes' /\ PlaceInv' /\ OrderInv' /\ told' = told
      /\ \A t \in Posters, n \in Notices : Holds(t, n)' <=> Holds(t, n)
  BY <1>1, SamePosting
<1>3. RunTypes'
  BY <1>1 DEF RunTypes, Early
<1>4. HandedInv'
  BY <1>2 DEF HandedInv, Early
<1>5. SaidInv'
  BY <1>2 DEF SaidInv, Judged, Early
<1>6. ThreadInv'
  BY <1>1, <1>2, NoticeFacts, ControllerAssumption, Elements DEF ThreadInv, RunTypes
<1>7. QED
  BY <1>2, <1>3, <1>4, <1>5, <1>6

\* The first notice of the run is the first of all.
LEMMA AnnounceInv ==
  ASSUME RunInv, Announce, ClosingInv'
  PROVE  RunInv'
<1> USE DEF RunInv
<1> DEFINE n == <<Controller, "start">>
<1>1. /\ runAt = "announcing" /\ runAt' = "submitting" /\ Free("main") /\ Dispatch("main", <<n>>)
      /\ UNCHANGED <<pairStage, handedOver, calling, lineage, inProcess, sinks, relayVars>>
  BY DEF Announce, MainMoves, campaignVars, runOptions
<1>2. told = {} /\ (\A p \in RunPairs : pairStage[p] = "waiting") /\ handedOver = <<>> /\ calling = NoCall
  BY <1>1 DEF HandedInv
<1>3. n \in Notices /\ "main" \in Posters
  BY NoticeFacts, ControllerAssumption
<1>4. New("main", <<n>>) /\ ToSet(<<n>>) = {n}
  <2>1. \A u \in Posters \ {"main"} : \A m \in Notices : ~ Holds(u, m)
    BY <1>2, ControllerAssumption DEF ThreadInv
  <2>2. QED
    BY <1>2, <1>3, <2>1, NewOne
<1>5. /\ PostTypes' /\ PlaceInv' /\ OrderInv' /\ told' = {n}
      /\ \A u \in Posters \ {"main"} : \A m : Holds(u, m)' <=> Holds(u, m)
  BY <1>1, <1>2, <1>3, <1>4, DispatchInv
<1>6. RunTypes' /\ HandedInv'
  BY <1>1, <1>2 DEF RunTypes, HandedInv
<1>7. ToSet(<<>>) = {}
  BY NothingIn
<1>8. SaidInv'
  BY <1>1, <1>2, <1>5, <1>7, NoticeFacts DEF SaidInv, Judged, NoCall
<1>9. ThreadInv'
  BY <1>1, <1>2, <1>5, <1>7, ControllerAssumption DEF ThreadInv
<1>10. QED
  BY <1>5, <1>6, <1>8, <1>9

\* A job that ends says nothing.
LEMMA JobOverInv ==
  ASSUME RunInv, NEW p \in RunPairs, JobOver(p), ClosingInv'
  PROVE  RunInv'
<1> USE DEF RunInv
<1>1. /\ pairStage[p] = "running" /\ pairStage' = [pairStage EXCEPT ![p] = "ended"]
      /\ UNCHANGED <<runAt, handedOver, calling, lineage, inProcess, sinks, posting, relayVars>>
  BY DEF JobOver, Campaign!End, Campaign!Move, runOptions
<1>2. /\ PostTypes' /\ PlaceInv' /\ OrderInv' /\ told' = told
      /\ \A t \in Posters, n \in Notices : Holds(t, n)' <=> Holds(t, n)
  BY <1>1, SamePosting
<1>3. RunTypes'
  BY <1>1 DEF RunTypes
<1>4. ToSet(handedOver) \subseteq RunPairs /\ pairStage \in [RunPairs -> {"waiting", "running", "ended", "reported", "botched"}]
  BY Elements DEF RunTypes
<1>5. p \notin ToSet(handedOver) /\ p # calling.pair
  BY <1>1, NoticeFacts DEF HandedInv, NoCall
<1>6. HandedInv'
  BY <1>1, <1>2, <1>4, <1>5 DEF HandedInv, RunTypes
<1>7. SaidInv'
  BY <1>1, <1>2, <1>4, <1>5 DEF SaidInv, Judged
<1>8. ThreadInv'
  BY <1>1, <1>2, <1>4, NoticeFacts, ControllerAssumption DEF ThreadInv
<1>9. QED
  BY <1>2, <1>3, <1>6, <1>7, <1>8

\* A sequence with one more element
LEMMA Appending ==
  ASSUME NEW S, NEW s \in Seq(S), NEW e \in S
  PROVE  /\ Append(s, e) \in Seq(S) /\ ToSet(Append(s, e)) = ToSet(s) \cup {e}
         /\ DOMAIN Append(s, e) = DOMAIN s \cup {Len(s) + 1} /\ Len(s) + 1 \notin DOMAIN s
         /\ Append(s, e)[Len(s) + 1] = e /\ \A i \in DOMAIN s : Append(s, e)[i] = s[i]
<1>1. /\ Append(s, e) \in Seq(S) /\ Len(s) \in Nat /\ DOMAIN s = 1 .. Len(s)
      /\ DOMAIN Append(s, e) = 1 .. Len(s) + 1
      /\ Append(s, e)[Len(s) + 1] = e /\ \A i \in DOMAIN s : Append(s, e)[i] = s[i]
  OBVIOUS
<1>2. DOMAIN Append(s, e) = DOMAIN s \cup {Len(s) + 1} /\ Len(s) + 1 \notin DOMAIN s
  BY <1>1
<1>3. ToSet(Append(s, e)) = ToSet(s) \cup {e}
  BY <1>1, <1>2 DEF ToSet
<1>4. QED
  BY <1>1, <1>2, <1>3

\* A pair is handed over once its start was posted, from the main thread.
LEMMA HandOverInv ==
  ASSUME RunInv, NEW p \in RunPairs, HandOver(p), ClosingInv'
  PROVE  RunInv'
<1> USE DEF RunInv
<1>1. /\ runAt = "submitting" /\ Free("main") /\ pairStage[p] = "ended"
      /\ p # calling.pair /\ p \notin ToSet(handedOver)
      /\ handedOver' = Append(handedOver, p)
      /\ UNCHANGED <<runAt, pairStage, calling, lineage, inProcess, sinks, posting, relayVars>>
  BY DEF HandOver, runOptions, campaignVars
<1>2. /\ PostTypes' /\ PlaceInv' /\ OrderInv' /\ told' = told
      /\ \A t \in Posters, n \in Notices : Holds(t, n)' <=> Holds(t, n)
  BY <1>1, SamePosting
<1>3. handedOver \in Seq(RunPairs)
  BY DEF RunTypes
<1>4. /\ handedOver' \in Seq(RunPairs) /\ ToSet(handedOver') = ToSet(handedOver) \cup {p}
      /\ DOMAIN handedOver' = DOMAIN handedOver \cup {Len(handedOver) + 1}
      /\ handedOver'[Len(handedOver) + 1] = p
      /\ \A i \in DOMAIN handedOver : handedOver'[i] = handedOver[i] /\ handedOver[i] # p
  BY <1>1, <1>3, Appending DEF ToSet
<1>5. RunTypes'
  BY <1>1, <1>4 DEF RunTypes
<1>6. HandedInv'
  <2>1. ASSUME NEW i \in DOMAIN handedOver', NEW j \in DOMAIN handedOver', handedOver'[i] = handedOver'[j]
        PROVE  i = j
    BY <1>4, <2>1 DEF HandedInv
  <2>2. QED
    BY <1>1, <1>2, <1>4, <2>1 DEF HandedInv
<1>7. SaidInv'
  BY <1>1, <1>2, <1>4 DEF SaidInv, Judged
<1>8. ThreadInv'
  <2>1. \A n \in Notices : ~ Holds("main", n)'
    <3>1. ToSet(<<>>) = {}
      BY NothingIn
    <3>2. QED
      BY <1>1, <1>2, <3>1, NoticeFacts, ControllerAssumption DEF Free, Holds
  <2>2. ToSet(handedOver') \subseteq RunPairs
    BY <1>4, Elements
  <2>3. QED
    BY <1>1, <1>2, <2>1, <2>2, NoticeFacts, ControllerAssumption DEF ThreadInv
<1>9. QED
  BY <1>2, <1>5, <1>6, <1>7, <1>8

\* A pair is launched before anything else is said of it.
LEMMA LaunchInv ==
  ASSUME RunInv, NEW p \in RunPairs, Launch(p), ClosingInv'
  PROVE  RunInv'
<1> USE DEF RunInv
<1> DEFINE n == <<p, "start">>
<1>1. /\ pairStage[p] = "waiting" /\ pairStage' = [pairStage EXCEPT ![p] = "running"]
      /\ runAt = "submitting" /\ Free("main")
      /\ UNCHANGED <<handedOver, calling, lineage, inProcess, sinks, relayVars>>
      /\ \/ runAt' = "submitting" /\ Dispatch("main", <<n>>)
         \/ runAt' = "draining" /\ UNCHANGED posting
  BY DEF Launch, Campaign!Launch, Campaign!Move, MainMoves, runOptions
<1>2. /\ ToSet(handedOver) \subseteq RunPairs
      /\ pairStage \in [RunPairs -> {"waiting", "running", "ended", "reported", "botched"}]
  BY Elements DEF RunTypes
<1>3. p \notin ToSet(handedOver) /\ p # calling.pair
  BY <1>1, NoticeFacts DEF HandedInv, NoCall
<1>4. RunTypes'
  BY <1>1 DEF RunTypes
<1>5. \A q \in RunPairs : Judged(q)' <=> Judged(q)
  BY <1>1, <1>2 DEF Judged
<1>6. ASSUME told' = told \/ told' = told \cup {n} PROVE HandedInv'
  BY <1>1, <1>2, <1>3, <1>6 DEF HandedInv, RunTypes
<1>7. CASE runAt' = "submitting" /\ Dispatch("main", <<n>>)
  <2>1. n \in Notices /\ "main" \in Posters /\ n \notin told
    BY <1>1, NoticeFacts, ControllerAssumption DEF SaidInv
  <2>2. ASSUME NEW m \in told PROVE ~ Precedes(n, m)
    <3>1. m \in Notices /\ m \notin Endings
      BY <1>1 DEF PostTypes, ClosingInv, VerdictsAgree
    <3>2. <<p, "terminal">> \notin told /\ <<p, "breach">> \notin told
      BY <1>1, <1>3 DEF SaidInv, Judged
    <3>3. QED
      BY <2>1, <3>1, <3>2, PrecedesCases, NoticeFacts
  <2>3. ASSUME NEW m \in Notices, Holds("callbacks", m) PROVE ~ Precedes(m, n)
    <3>1. m = <<calling.pair, "terminal">> \/ m = <<calling.pair, "breach">>
      BY <2>3 DEF ThreadInv
    <3>2. n \notin Endings
      BY NoticeFacts DEF Endings
    <3>3. QED
      BY <2>1, <3>1, <3>2, PrecedesCases
  <2>4. New("main", <<n>>) /\ ToSet(<<n>>) = {n}
    BY <2>1, <2>2, <2>3, NewOne, ControllerAssumption
  <2>5. /\ PostTypes' /\ PlaceInv' /\ OrderInv' /\ told' = told \cup {n}
        /\ \A m : Holds("main", m)' => m = n \/ m = Nothing
        /\ \A m : Holds("callbacks", m)' <=> Holds("callbacks", m)
    BY <1>1, <1>7, <2>1, <2>4, DispatchInv, ControllerAssumption
  <2>6. SaidInv'
    BY <1>1, <1>2, <1>3, <1>5, <1>7, <2>5 DEF SaidInv
  <2>7. ThreadInv'
    BY <1>1, <1>2, <1>3, <2>5, NoticeFacts DEF ThreadInv
  <2>8. QED
    BY <1>4, <1>6, <2>5, <2>6, <2>7
<1>8. CASE runAt' = "draining" /\ UNCHANGED posting
  <2>1. /\ PostTypes' /\ PlaceInv' /\ OrderInv' /\ told' = told
        /\ \A t \in Posters, m \in Notices : Holds(t, m)' <=> Holds(t, m)
    BY <1>1, <1>8, SamePosting
  <2>2. \A q \in RunPairs \ {p} : pairStage'[q] = pairStage[q]
    BY <1>1, <1>2
  <2>3. pairStage'[p] = "running" /\ ~ Judged(p)'
    BY <1>1, <1>2 DEF Judged
  <2>4. SaidInv'
    BY <1>1, <1>3, <1>5, <1>8, <2>1, <2>2, <2>3 DEF SaidInv
  <2>5. ThreadInv'
    BY <1>1, <1>2, <2>1, NoticeFacts, ControllerAssumption DEF ThreadInv
  <2>6. QED
    BY <1>4, <1>6, <2>1, <2>4, <2>5
<1>9. QED
  BY <1>1, <1>7, <1>8

\* What is said of a pair at its end follows its start, which the main thread no
\* longer holds.
LEMMA CallBackInv ==
  ASSUME RunInv, CallBack, ClosingInv'
  PROVE  RunInv'
<1> USE DEF RunInv
<1>0. /\ handedOver # <<>> /\ handedOver \in Seq(RunPairs)
      /\ Head(handedOver) \in RunPairs /\ CallbackThread \in Posters
  BY TailOf, ControllerAssumption DEF CallBack, RunTypes, CallbackThread
<1>p. PICK p \in RunPairs, t \in Posters : p = Head(handedOver) /\ t = CallbackThread
  BY <1>0
<1> DEFINE said == <<p, "terminal">>
           worse == <<p, "breach">>
<1>1. PICK notices \in {<<said>>, <<said, worse>>}, end \in {"reported", "botched"} :
        /\ handedOver # <<>> /\ calling = NoCall /\ Free(t) /\ Dispatch(t, notices)
        /\ handedOver' = Tail(handedOver) /\ calling' = [pair |-> p, ends |-> end]
        /\ UNCHANGED <<runAt, pairStage, lineage, inProcess, sinks, relayVars>>
  BY <1>p DEF CallBack, runOptions, campaignVars
<1>2. handedOver \in Seq(RunPairs)
  BY <1>0
<1>3. /\ handedOver' \in Seq(RunPairs) /\ p \in RunPairs
      /\ ToSet(handedOver) = {p} \cup ToSet(handedOver')
      /\ p = handedOver[1] /\ 1 \in DOMAIN handedOver
      /\ \A i \in DOMAIN handedOver' : /\ i \in Nat \ {0} /\ i + 1 \in DOMAIN handedOver
                                       /\ handedOver'[i] = handedOver[i + 1]
      /\ ToSet(handedOver) \subseteq RunPairs
  BY <1>1, <1>2, <1>p, TailOf, Elements
<1>4. \A i, j \in DOMAIN handedOver : handedOver[i] = handedOver[j] => i = j
  BY DEF HandedInv
<1>5. p \notin ToSet(handedOver')
  <2>1. ASSUME NEW i \in DOMAIN handedOver', handedOver'[i] = p PROVE FALSE
    <3>1. i + 1 = 1 /\ i \in Nat \ {0}
      BY <1>3, <1>4, <2>1
    <3>2. QED
      BY <3>1
  <2>2. QED
    BY <2>1 DEF ToSet
<1>6. /\ pairStage[p] = "ended" /\ t \in Posters /\ runAt \in {"submitting", "draining"}
      /\ \A q \in RunPairs : q # calling.pair
      /\ \A u \in Posters \ {t} : \A m \in Notices : Holds(u, m) => u = "main" /\ t = "callbacks"
  <2>1. \A q \in RunPairs : q # calling.pair
    BY <1>1, NoticeFacts DEF NoCall
  <2>2. pairStage[p] = "ended" /\ runAt \in {"submitting", "draining"}
    BY <1>1, <1>3 DEF HandedInv
  <2>3. QED
    BY <1>1, <1>p, <2>1, <2>2, ControllerAssumption DEF CallbackThread, ThreadInv
<1>7. said \in Notices /\ worse \in Notices /\ said # worse /\ {said, worse} \cap Endings = {}
  BY <1>3, NoticeFacts, PairNotEnding
<1>8. {said, worse} \cap told = {} /\ told \cap Endings = {} /\ <<p, "start">> \in told
  BY <1>3, <1>6 DEF SaidInv, Judged, ClosingInv, VerdictsAgree
<1>9. ~ Precedes(worse, said)
  BY <1>7, PrecedesCases, NoticeFacts
<1>10. ASSUME NEW m \in told PROVE ~ Precedes(said, m) /\ ~ Precedes(worse, m)
  <2>1. m \in Notices /\ m \notin Endings /\ m # worse
    BY <1>8 DEF PostTypes
  <2>2. QED
    BY <1>7, <2>1, PrecedesCases, NoticeFacts
<1>11. ASSUME NEW u \in Posters \ {t}, NEW m \in Notices, Holds(u, m)
       PROVE  ~ Precedes(m, said) /\ ~ Precedes(m, worse)
  <2>1. Holds("main", m)
    BY <1>6, <1>11
  <2>2. m # <<p, "start">> /\ m # <<Controller, "start">>
    BY <1>1, <1>3, <2>1 DEF ThreadInv
  <2>3. m # said
    <3>1. m \in told
      BY <2>1, ControllerAssumption, NoticeFacts DEF Holds, PlaceInv, PostTypes
    <3>2. QED
      BY <1>8, <3>1
  <2>4. QED
    BY <1>7, <2>2, <2>3, PrecedesCases
<1>12. New(t, notices) /\ said \in ToSet(notices) /\ ToSet(notices) \subseteq {said, worse}
  <2>1. CASE notices = <<said>>
    <3>1. New(t, <<said>>) /\ ToSet(<<said>>) = {said}
      BY <1>6, <1>7, <1>8, <1>10, <1>11, NewOne
    <3>2. QED
      BY <2>1, <3>1
  <2>2. CASE notices = <<said, worse>>
    <3>1. New(t, <<said, worse>>) /\ ToSet(<<said, worse>>) = {said, worse}
      BY <1>6, <1>7, <1>8, <1>9, <1>10, <1>11, NewTwo
    <3>2. QED
      BY <2>2, <3>1
  <2>3. QED
    BY <2>1, <2>2
<1>13. /\ PostTypes' /\ PlaceInv' /\ OrderInv' /\ told' = told \cup ToSet(notices)
       /\ \A n : Holds(t, n)' => n \in ToSet(notices) \/ n = Nothing
       /\ \A u \in Posters \ {t} : \A n : Holds(u, n)' <=> Holds(u, n)
  <2> HIDE DEF said, worse
  <2>1. New(t, notices) /\ Free(t) /\ Dispatch(t, notices) /\ UNCHANGED <<sinks, relayVars>> /\ t \in Posters
    BY <1>1, <1>6, <1>12
  <2>2. QED
    BY <2>1, DispatchInv
<1>14. RunTypes'
  BY <1>1, <1>3 DEF RunTypes
<1>15. calling'.pair = p /\ calling' # NoCall
  BY <1>1, <1>3, NoticeFacts DEF NoCall
<1>16. HandedInv'
  <2>1. ASSUME NEW i \in DOMAIN handedOver', NEW j \in DOMAIN handedOver', handedOver'[i] = handedOver'[j]
        PROVE  i = j
    <3>1. i + 1 = j + 1 /\ i \in Nat /\ j \in Nat
      BY <1>3, <1>4, <2>1
    <3>2. QED
      BY <3>1
  <2>2. \A q \in ToSet(handedOver') : pairStage'[q] = "ended" /\ q # calling'.pair
    BY <1>1, <1>3, <1>5, <1>15 DEF HandedInv
  <2>3. QED
    BY <1>1, <1>6, <1>15, <2>1, <2>2 DEF HandedInv
<1>17. SaidInv'
  <2> SUFFICES ASSUME NEW q \in RunPairs
               PROVE  /\ <<q, "start">> \in told' => pairStage'[q] # "waiting"
                      /\ <<q, "terminal">> \in told' <=> q = calling'.pair \/ Judged(q)'
                      /\ <<q, "breach">> \in told' => q = calling'.pair \/ Judged(q)'
                      /\ pairStage'[q] # "waiting" =>
                           (runAt' = "submitting" \/ q \in ToSet(handedOver') \/ q = calling'.pair \/ Judged(q)' =>
                              <<q, "start">> \in told')
    BY DEF SaidInv
  <2>1. /\ <<q, "start">> \in told' <=> <<q, "start">> \in told
        /\ <<q, "terminal">> \in told' <=> (<<q, "terminal">> \in told \/ q = p)
        /\ <<q, "breach">> \in told' => <<q, "breach">> \in told \/ q = p
    BY <1>12, <1>13
  <2>2. Judged(q)' <=> Judged(q)
    BY <1>1 DEF Judged
  <2>3. QED
    BY <1>1, <1>3, <1>6, <1>8, <1>15, <2>1, <2>2 DEF SaidInv
<1>18. ThreadInv'
  <2>1. CASE t = "callbacks"
    <3>1. ~ inProcess
      BY <1>p, <2>1 DEF CallbackThread
    <3>2. \A n \in Notices : Holds("main", n)' <=> Holds("main", n)
      BY <1>13, <2>1, ControllerAssumption
    <3>3. \A n \in Notices : Holds("callbacks", n)' => n \in {said, worse}
      <4> HIDE DEF said, worse
      <4>1. \A n \in Notices : n # Nothing
        BY NoticeFacts
      <4>2. QED
        BY <1>12, <1>13, <2>1, <4>1
    <3>4. QED
      BY <1>1, <1>3, <1>15, <3>1, <3>2, <3>3, NoticeFacts DEF ThreadInv
  <2>2. CASE t = "main"
    <3>1. \A n \in Notices : ~ Holds("callbacks", n)'
      BY <1>6, <1>13, <2>2, ControllerAssumption
    <3>2. \A n \in Notices : Holds("main", n)' => n \in {said, worse}
      <4> HIDE DEF said, worse
      <4>1. \A n \in Notices : n # Nothing
        BY NoticeFacts
      <4>2. QED
        BY <1>12, <1>13, <2>2, <4>1
    <3>3. QED
      BY <1>1, <1>3, <3>1, <3>2, NoticeFacts DEF ThreadInv
  <2>3. QED
    BY <1>p, <2>1, <2>2 DEF CallbackThread
<1>19. QED
  BY <1>13, <1>14, <1>16, <1>17, <1>18

\* A callback returns when its notices are out.
LEMMA CalledBackInv ==
  ASSUME RunInv, CalledBack, ClosingInv'
  PROVE  RunInv'
<1> USE DEF RunInv
<1> DEFINE p == calling.pair
           t == CallbackThread
<1>1. /\ calling # NoCall /\ Free(t)
      /\ pairStage[p] = "ended" /\ \E to \in {"reported", "botched"} : pairStage' = [pairStage EXCEPT ![p] = to]
      /\ calling' = NoCall
      /\ UNCHANGED <<runAt, handedOver, lineage, inProcess, sinks, posting, relayVars>>
  BY DEF CalledBack, Campaign!Report, Campaign!Move, runOptions
<1>2. /\ p \in RunPairs /\ ToSet(handedOver) \subseteq RunPairs
      /\ pairStage \in [RunPairs -> {"waiting", "running", "ended", "reported", "botched"}]
  BY <1>1, Elements DEF RunTypes
<1>3. /\ PostTypes' /\ PlaceInv' /\ OrderInv' /\ told' = told
      /\ \A u \in Posters, n \in Notices : Holds(u, n)' <=> Holds(u, n)
  BY <1>1, SamePosting
<1>4. pairStage'[p] \in {"reported", "botched"} /\ \A q \in RunPairs \ {p} : pairStage'[q] = pairStage[q]
  BY <1>1, <1>2
<1>5. RunTypes'
  BY <1>1, <1>2 DEF RunTypes
<1>6. \A q \in RunPairs : q # calling'.pair
  BY <1>1, NoticeFacts DEF NoCall
<1> HIDE DEF p
<1>7. p \notin ToSet(handedOver)
  BY DEF HandedInv, p
<1>8. HandedInv'
  BY <1>1, <1>2, <1>3, <1>4, <1>6, <1>7 DEF HandedInv
<1>9. SaidInv'
  <2>1. \A q \in RunPairs : Judged(q)' <=> Judged(q) \/ q = p
    BY <1>4 DEF Judged
  <2>2. QED
    BY <1>1, <1>2, <1>3, <1>4, <1>6, <1>7, <2>1 DEF SaidInv, p
<1>10. ThreadInv'
  <2>1. ToSet(<<>>) = {}
    BY NothingIn
  <2>2. \A n \in Notices : ~ Holds("callbacks", n)
    BY <1>1, <2>1, NoticeFacts DEF Free, Holds, CallbackThread, ThreadInv
  <2>3. QED
    BY <1>1, <1>2, <1>3, <2>2, NoticeFacts, ControllerAssumption DEF ThreadInv
<1>11. QED
  BY <1>3, <1>5, <1>8, <1>9, <1>10

\* run_tune ends, and says how.
LEMMA EndsInvs ==
  ASSUME RunInv, NEW n \in Endings, runAt \in {"closing", "failing"}, runAt' \in {"returned 0", "returned 1"},
         Free("main"), Dispatch("main", <<n>>),
         UNCHANGED <<pairStage, handedOver, calling, runOptions, relayVars>>, ClosingInv'
  PROVE  RunInv'
<1> USE DEF RunInv
<1>1. UNCHANGED <<inProcess, lineage, sinks>>
  BY DEF runOptions
<1>2. handedOver = <<>> /\ calling = NoCall
  BY DEF HandedInv
<1>3. /\ n # <<Controller, "start">>
      /\ \A q \in RunPairs : n \notin {<<q, "start">>, <<q, "terminal">>, <<q, "breach">>}
  <2>2. n # <<Controller, "start">>
    BY EndingNotStart
  <2>3. ASSUME NEW q \in RunPairs
        PROVE  n \notin {<<q, "start">>, <<q, "terminal">>, <<q, "breach">>}
    BY PairNotEnding, <2>3
  <2>4. QED
    BY <2>2, <2>3
<1>4. n \in Notices /\ "main" \in Posters /\ n \notin told
  BY ControllerAssumption DEF Notices, ClosingInv, VerdictsAgree
<1>5. \A u \in Posters \ {"main"} : \A m \in Notices : ~ Holds(u, m)
  BY <1>2, ControllerAssumption DEF ThreadInv
<1>6. New("main", <<n>>) /\ ToSet(<<n>>) = {n}
  <2>1. \A m \in told : ~ Precedes(n, m)
    BY <1>3, <1>4, PrecedesCases DEF PostTypes
  <2>2. QED
    BY <1>4, <1>5, <2>1, NewOne
<1>7. /\ PostTypes' /\ PlaceInv' /\ OrderInv' /\ told' = told \cup {n}
      /\ \A u \in Posters \ {"main"} : \A m : Holds(u, m)' <=> Holds(u, m)
  BY <1>1, <1>4, <1>6, DispatchInv
<1>8. RunTypes' /\ HandedInv'
  BY <1>1, <1>2 DEF RunTypes, HandedInv
<1>9. SaidInv'
  <2>1. \A q \in RunPairs : n \notin {<<q, "start">>, <<q, "terminal">>, <<q, "breach">>}
    BY <1>3
  <2>2. QED
    BY <1>7, <2>1 DEF SaidInv, Judged
<1>10. ToSet(<<>>) = {}
  BY NothingIn
<1>11. ThreadInv'
  BY <1>2, <1>5, <1>7, <1>10, ControllerAssumption DEF ThreadInv
<1>12. QED
  BY <1>7, <1>8, <1>9, <1>11

(* How the run ends *)

Returned == {"returned 0", "returned 1"}

\* A step that neither goes on nor says how the run ended changes nothing of
\* what is said of the end.
LEMMA BystandsKeeps ==
  ASSUME ClosingInv, UNCHANGED <<runAt, lineage, tracked>>, verdict = "success" => verdict' = "success",
         told' \cap Endings = told \cap Endings
  PROVE  ClosingInv'
BY DEF ClosingInv, VerdictsAgree

\* run_tune moves from one place to a later one that says nothing yet.
LEMMA GoesOnKeeps ==
  ASSUME ClosingInv, runAt \notin Returned, runAt' \notin Returned, UNCHANGED lineage,
         told' \cap Endings = told \cap Endings,
         runAt' \in {"summing", "closing"} => verdict' = "success"
  PROVE  ClosingInv'
BY DEF ClosingInv, VerdictsAgree, Returned

\* What is said of the pairs and of the start is no ending.
LEMMA SaidOfOthers ==
  ASSUME NEW t, NEW n, NEW o, n \notin Endings, o \notin Endings,
         Dispatch(t, <<n>>) \/ Dispatch(t, <<n, o>>)
  PROVE  told' \cap Endings = told \cap Endings
<1>1. ToSet(<<n>>) = {n} /\ ToSet(<<n, o>>) = {n, o}
  BY DEF ToSet
<1>2. QED
  BY <1>1 DEF Dispatch

\* run_tune says how it ended, and so does MLflow.
LEMMA ReturnKeeps ==
  ASSUME ClosingInv, NEW n \in Endings, NEW status, Dispatch("main", <<n>>), UNCHANGED <<lineage, verdict>>,
         lineage => tracked' = status,
         \/ /\ runAt = "closing" /\ runAt' = "returned 0"
            /\ n = <<Controller, "SUCCEEDED">> /\ status = "FINISHED"
         \/ /\ runAt = "failing" /\ runAt' = "returned 1"
            /\ n = <<Controller, "FAILED">> /\ status = "FAILED"
  PROVE  ClosingInv'
<1>1. ToSet(<<n>>) = {n}
  BY OneNotice
<1>2. told' = told \cup {n} /\ told \cap Endings = {}
  BY <1>1 DEF Dispatch, ClosingInv, VerdictsAgree
<1>3. told' \cap Endings = {n}
  BY <1>2
<1>4. CASE runAt = "closing"
  <2>1. runAt' = "returned 0" /\ n = <<Controller, "SUCCEEDED">> /\ status = "FINISHED" /\ verdict = "success"
    BY <1>4 DEF ClosingInv
  <2>2. QED
    BY <1>3, <2>1 DEF ClosingInv, VerdictsAgree
<1>5. CASE runAt = "failing"
  BY <1>3, <1>5 DEF ClosingInv, VerdictsAgree
<1>6. QED
  BY <1>4, <1>5

(* The invariant *)

\* A run that begins has said nothing.
LEMMA RunInitInv ==
  ASSUME RunInit
  PROVE  RunInv
<1>1. /\ runAt = "preparing" /\ lineage \in BOOLEAN /\ inProcess \in BOOLEAN
      /\ pairStage = [p \in RunPairs |-> "waiting"]
      /\ handedOver = <<>> /\ calling = NoCall /\ told = {}
      /\ outbox = [t \in Posters |-> <<>>] /\ awaiting = [t \in Posters |-> Nothing]
      /\ DOMAIN requests = {} /\ heard = <<>> /\ lost = {} /\ givenUp = {}
  BY DEF RunInit, RelayInit, Campaign!Init
<1>2. DOMAIN handedOver = {} /\ DOMAIN heard = {} /\ ToSet(handedOver) = {} /\ handedOver \in Seq(RunPairs)
  BY <1>1, NothingIn
<1>3. \A t \in Posters : outbox[t] = <<>> /\ awaiting[t] = Nothing /\ ToSet(outbox[t]) = {} /\ DOMAIN outbox[t] = {}
  BY <1>1, NothingIn
<1>4. \A t \in Posters, n \in Notices : ~ Holds(t, n)
  BY <1>3, NoticeFacts DEF Holds
<1>5. RunTypes
  BY <1>1, <1>2 DEF RunTypes
<1>6. PostTypes
  <2>1. <<>> \in Seq(Notices)
    OBVIOUS
  <2>2. outbox \in [Posters -> Seq(Notices)] /\ awaiting \in [Posters -> told \cup {Nothing}]
    BY <1>1, <2>1
  <2>3. heard \in Seq([chat : Chats, notice : told])
    BY <1>1
  <2>4. QED
    BY <1>1, <2>2, <2>3 DEF PostTypes
<1>7. HandedInv
  BY <1>1, <1>2 DEF HandedInv
<1>8. SaidInv
  BY <1>1, NoticeFacts DEF SaidInv, Judged, NoCall
<1>9. PlaceInv
  BY <1>1, <1>3, ControllerAssumption DEF PlaceInv
<1>10. ThreadInv
  BY <1>1, <1>2, <1>4, ControllerAssumption DEF ThreadInv
<1>11. OrderInv
  BY <1>1, <1>2, <1>3 DEF OrderInv, InOrder, HeardNotices
<1>12. ClosingInv
  BY <1>1 DEF ClosingInv, VerdictsAgree
<1>13. QED
  BY <1>5, <1>6, <1>7, <1>8, <1>9, <1>10, <1>11, <1>12 DEF RunInv

\* Every step preserves the invariant.
LEMMA RunStepInv ==
  ASSUME RunInv, [RunNext]_<<runVars, relayVars>>
  PROVE  RunInv'
<1> USE DEF runOptions, campaignVars
<1>0. RunTypes /\ HandedInv /\ ClosingInv
  BY DEF RunInv
<1>u. UNCHANGED posting => told' \cap Endings = told \cap Endings
  BY DEF posting
<1>1. CASE UNCHANGED <<runVars, relayVars>>
  BY <1>1, SameRequests DEF relayVars
<1>2. CASE StartRun
  <2>1. /\ runAt = "preparing" /\ runAt' \in {"connecting", "raised"}
        /\ UNCHANGED <<pairStage, verdict, handedOver, calling, runOptions, posting, relayVars>>
    BY <1>2 DEF StartRun, Track, MainMoves
  <2>2. ClosingInv'
    BY <1>0, <1>u, <2>1, GoesOnKeeps DEF Returned
  <2>3. QED
    BY <2>1, <2>2, MovesOn DEF Early
<1>3. CASE Connect
  <2>1. /\ runAt = "connecting" /\ runAt' \in {"announcing", "raised"}
        /\ UNCHANGED <<pairStage, verdict, handedOver, calling, runOptions, posting, relayVars>>
    BY <1>3 DEF Connect, MainMoves
  <2>2. ClosingInv'
    BY <1>0, <1>u, <2>1, GoesOnKeeps DEF Returned
  <2>3. QED
    BY <2>1, <2>2, MovesOn DEF Early
<1>4. CASE Announce
  <2>1. <<Controller, "start">> \notin Endings
    BY DEF Endings
  <2>2. told' \cap Endings = told \cap Endings
    BY <1>4, <2>1, SaidOfOthers DEF Announce
  <2>3. runAt = "announcing" /\ runAt' = "submitting" /\ UNCHANGED lineage
    BY <1>4 DEF Announce, MainMoves
  <2>4. ClosingInv'
    BY <1>0, <2>2, <2>3, GoesOnKeeps DEF Returned
  <2>5. QED
    BY <1>4, <2>4, AnnounceInv
<1>5. ASSUME NEW p \in RunPairs, Launch(p) PROVE RunInv'
  <2>1. told' \cap Endings = told \cap Endings
    BY <1>5, <1>u, PairNotEnding, SaidOfOthers DEF Launch
  <2>2. runAt = "submitting" /\ runAt' \in {"submitting", "draining"} /\ UNCHANGED lineage
    BY <1>5 DEF Launch, MainMoves
  <2>3. ClosingInv'
    BY <1>0, <2>1, <2>2, GoesOnKeeps DEF Returned
  <2>4. QED
    BY <1>5, <2>3, LaunchInv
<1>6. ASSUME NEW p \in RunPairs, JobOver(p) PROVE RunInv'
  <2>1. ClosingInv'
    BY <1>0, <1>6, <1>u, BystandsKeeps DEF JobOver, Campaign!End, Campaign!Move
  <2>2. QED
    BY <1>6, <2>1, JobOverInv
<1>7. ASSUME NEW p \in RunPairs, HandOver(p) PROVE RunInv'
  <2>1. ClosingInv'
    BY <1>0, <1>7, <1>u, BystandsKeeps DEF HandOver
  <2>2. QED
    BY <1>7, <2>1, HandOverInv
<1>8. CASE CallBack
  <2>1. Head(handedOver) \in RunPairs
    BY <1>0, <1>8, TailOf DEF CallBack, RunTypes
  <2>2. PICK t \in Posters, p \in RunPairs : \/ Dispatch(t, <<<<p, "terminal">>>>)
                                 \/ Dispatch(t, <<<<p, "terminal">>, <<p, "breach">>>>)
    BY <1>8, <2>1, ControllerAssumption DEF CallBack, CallbackThread
  <2>3. told' \cap Endings = told \cap Endings
    BY <2>2, PairNotEnding, SaidOfOthers
  <2>4. ClosingInv'
    BY <1>0, <1>8, <2>3, BystandsKeeps DEF CallBack
  <2>5. QED
    BY <1>8, <2>4, CallBackInv
<1>9. CASE CalledBack
  <2>1. ClosingInv'
    BY <1>0, <1>9, <1>u, BystandsKeeps DEF CalledBack, Campaign!Report, Campaign!Move
  <2>2. QED
    BY <1>9, <2>1, CalledBackInv
<1>10. CASE LeaveLoop
  <2>1. /\ runAt = "submitting" /\ runAt' = "draining"
        /\ UNCHANGED <<pairStage, verdict, handedOver, calling, runOptions, posting, relayVars>>
    BY <1>10 DEF LeaveLoop, MainMoves
  <2>2. ClosingInv'
    BY <1>0, <1>u, <2>1, GoesOnKeeps DEF Returned
  <2>3. QED
    BY <2>1, <2>2, MovesOn DEF Early
<1>11. CASE JudgeWhenCalledBack
  <2>1. /\ runAt = "draining" /\ handedOver = <<>> /\ calling = NoCall
        /\ (runAt' = "summing" /\ verdict' = "success") \/ runAt' = "failing"
        /\ UNCHANGED <<pairStage, handedOver, calling, runOptions, posting, relayVars>>
    BY <1>11 DEF JudgeWhenCalledBack, Judge, MainMoves, Campaign!Succeed, Campaign!Fail
  <2>2. ClosingInv'
    BY <1>0, <1>u, <2>1, GoesOnKeeps DEF Returned
  <2>3. QED
    BY <2>1, <2>2, MovesOn DEF Early
<1>12. CASE LogSummary
  <2>1. /\ runAt = "summing" /\ runAt' \in {"closing", "failing"}
        /\ UNCHANGED <<pairStage, verdict, handedOver, calling, runOptions, posting, relayVars>>
    BY <1>12 DEF LogSummary, MainMoves
  <2>2. ClosingInv'
    BY <1>0, <1>u, <2>1, GoesOnKeeps DEF Returned, ClosingInv
  <2>3. QED
    BY <2>1, <2>2, MovesOn DEF Early
<1>13. CASE Close
  <2>1. /\ runAt = "closing" /\ Free("main")
        /\ UNCHANGED <<pairStage, verdict, handedOver, calling, runOptions, relayVars>>
    BY <1>13 DEF Close, Track, MainMoves
  <2>2. CASE runAt' = "returned 0" /\ Dispatch("main", <<<<Controller, "SUCCEEDED">>>>)
    <3>1. (lineage => tracked' = "FINISHED") /\ <<Controller, "SUCCEEDED">> \in Endings
      BY <1>13, <2>2 DEF Close, Track, MainMoves, Endings
    <3>2. ClosingInv'
      BY <1>0, <2>1, <2>2, <3>1, ReturnKeeps
    <3>3. QED
      BY <2>1, <2>2, <3>1, <3>2, EndsInvs
  <2>3. CASE runAt' = "failing" /\ UNCHANGED posting
    <3>1. ClosingInv'
      BY <1>0, <1>u, <2>1, <2>3, GoesOnKeeps DEF Returned
    <3>2. QED
      BY <2>1, <2>3, <3>1, MovesOn DEF Early
  <2>4. QED
    BY <1>13, <2>2, <2>3 DEF Close
<1>14. CASE CloseFailed
  <2>1. /\ runAt = "failing" /\ Free("main")
        /\ UNCHANGED <<pairStage, verdict, handedOver, calling, runOptions, relayVars>>
    BY <1>14 DEF CloseFailed, Track, MainMoves
  <2>2. CASE runAt' = "returned 1" /\ Dispatch("main", <<<<Controller, "FAILED">>>>)
    <3>1. (lineage => tracked' = "FAILED") /\ <<Controller, "FAILED">> \in Endings
      BY <1>14, <2>2 DEF CloseFailed, Track, MainMoves, Endings
    <3>2. ClosingInv'
      BY <1>0, <2>1, <2>2, <3>1, ReturnKeeps
    <3>3. QED
      BY <2>1, <2>2, <3>1, <3>2, EndsInvs
  <2>3. CASE runAt' = "raised" /\ UNCHANGED posting
    <3>1. ClosingInv'
      BY <1>0, <1>u, <2>1, <2>3, GoesOnKeeps DEF Returned
    <3>2. QED
      BY <2>1, <2>3, <3>1, MovesOn DEF Early
  <2>4. QED
    BY <1>14, <2>2, <2>3 DEF CloseFailed
<1>15. ASSUME NEW t \in Posters, Mail(t) \/ Telegram(t) PROVE RunInv'
  BY <1>15, MailInv, TelegramInv
<1>16. CASE RelayNext /\ UNCHANGED runVars
  BY <1>16, RelayInv
<1>17. QED
  BY <1>1, <1>2, <1>3, <1>4, <1>5, <1>6, <1>7, <1>8, <1>9, <1>10, <1>11, <1>12, <1>13, <1>14,
     <1>15, <1>16 DEF RunNext

\* The invariant says what was promised: when the run has returned nothing is
\* left with a thread, so that each notice is at the relay or past it.
LEMMA RunIsTold ==
  ASSUME RunInv
  PROVE  ToldAsItWent
<1> USE DEF RunInv
<1>1. VerdictsAgree /\ InOrder(HeardNotices, givenUp)
  BY DEF ClosingInv, OrderInv
<1>2. ASSUME runAt \in {"returned 0", "returned 1"}, "telegram" \in sinks, Free("main")
      PROVE  /\ told = ToSet(HeardNotices) \cup lost \cup DOMAIN requests
             /\ \A p \in RunPairs : pairStage[p] \in {"reported", "botched"} =>
                  {<<p, "start">>, <<p, "terminal">>} \subseteq told
  <2>1. Asked = {}
    <3>1. calling = NoCall
      BY <1>2 DEF HandedInv
    <3>2. ToSet(outbox["callbacks"]) \cap Notices = {} /\ outbox["callbacks"] \in Seq(Notices)
      BY <3>1, ControllerAssumption DEF ThreadInv, Holds, PostTypes
    <3>3. ToSet(outbox["callbacks"]) = {}
      BY <3>2, Elements
    <3>4. ToSet(outbox["main"]) = {}
      BY <1>2, NothingIn DEF Free
    <3>5. QED
      BY <3>3, <3>4, ControllerAssumption DEF Asked
  <2>2. ToSet(HeardNotices) = Heard
    BY DEF ToSet, HeardNotices, Heard
  <2>3. Heard \subseteq told
    <3>1. heard \in Seq([chat : Chats, notice : told])
      BY DEF PostTypes
    <3>2. \A i \in DOMAIN heard : heard[i] \in [chat : Chats, notice : told]
      BY <3>1, Widened
    <3>3. QED
      BY <3>2 DEF Heard
  <2>4. told = ToSet(HeardNotices) \cup lost \cup DOMAIN requests
    BY <1>2, <2>1, <2>2, <2>3 DEF PlaceInv, PostTypes
  <2>5. \A p \in RunPairs : Judged(p) => pairStage[p] # "waiting"
    BY DEF Judged
  <2>6. QED
    BY <2>4, <2>5 DEF SaidInv, Judged
<1>3. QED
  BY <1>1, <1>2 DEF ToldAsItWent

\* Whoever reads along sees the run as it went (run_tune, on_job_terminal and the
\* dispatcher), for any set of pairs, any sinks, under either controller, and
\* whatever fails or times out at the relay.
THEOREM RunIsToldAsItWent == RunSpec => []ToldAsItWent
BY RunInitInv, RunStepInv, RunIsTold, PTL DEF RunSpec

----------------------------------------------------------------------------
(***************************************************************************)
(* The scaler of the prepared bundles, for batches of any shape.  Columns, *)
(* names and plans are numbered separately; what ties them together is     *)
(* that the names follow the columns (NamesInv), that each of the two      *)
(* loops of fit is where it should be (LoopInv), and that every plan goes  *)
(* from a column to the place called by it (GroupInv, IndicatorInv), with  *)
(* none left out (CoverInv).                                               *)
(***************************************************************************)

Roles == {"value", "is_nonzero"}
Plans == [in : Seq(Nat), out : Seq(Nat)]

ScalingTypeOK ==
  /\ scaling \in {"unfitted", "naming", "planning", "fitted", "transformed"}
  /\ Height \in Nat \ {0} /\ Width \in Nat \ {0}
  /\ columns \in Seq(1 .. Width)
  /\ kind \in Seq(Kinds)
  /\ names \in Seq((1 .. Width) \X Roles)
  /\ feature \in Nat /\ output \in Nat
  /\ plans \in [Kinds -> Plans] /\ zeroPlan \in Plans

\* The name of column f by its role stands at that place.
Names(place, f, role) == place \in DOMAIN names /\ names[place] = <<columns[f], role>>

FirstRole(f) == IF Shown(kind[f]) THEN "is_nonzero" ELSE "value"

\* No column is handled twice, and the names follow the columns.
NamesInv ==
  /\ \A f, g \in DOMAIN columns : columns[f] = columns[g] => f = g
  /\ Len(kind) <= Len(columns)
  /\ \A place \in DOMAIN names : \E f \in DOMAIN kind : names[place][1] = columns[f]
  /\ kind # <<>> => Names(1, 1, FirstRole(1))
  /\ \A place \in DOMAIN names, f \in DOMAIN kind :
       /\ Names(place, f, "is_nonzero") => Names(place + 1, f, "value")
       /\ Names(place, f, "value") =>
            IF f = Len(kind) THEN place = Len(names) ELSE Names(place + 1, f + 1, FirstRole(f + 1))

\* Where fit is in its two loops
LoopInv ==
  /\ scaling \in {"unfitted", "naming"} => output = 1
  /\ scaling = "unfitted" => kind = <<>> /\ names = <<>> /\ feature = 1
  /\ scaling = "naming" => feature \in DOMAIN columns /\ Len(kind) = feature - 1
  /\ scaling \in {"planning", "fitted", "transformed"} => Len(kind) = Len(columns)
  /\ scaling = "planning" => feature \in DOMAIN columns /\ Names(output, feature, FirstRole(feature))
  /\ scaling \in {"fitted", "transformed"} => output = Len(names) + 1

Planned ==
  IF scaling \in {"unfitted", "naming"} THEN 0
  ELSE IF scaling = "planning" THEN feature - 1
  ELSE Len(columns)

\* What is planned so far, of a kind and of the indicators
GroupInv(k) ==
  /\ DOMAIN plans[k].in = DOMAIN plans[k].out
  /\ \A i \in DOMAIN plans[k].in :
       /\ plans[k].in[i] \in 1 .. Planned
       /\ kind[plans[k].in[i]] = k
       /\ plans[k].out[i] < output
       /\ Names(plans[k].out[i], plans[k].in[i], "value")

IndicatorInv ==
  /\ DOMAIN zeroPlan.in = DOMAIN zeroPlan.out
  /\ \A i \in DOMAIN zeroPlan.in :
       /\ zeroPlan.in[i] \in DOMAIN plans["zero_inflated"].in
       /\ zeroPlan.out[i] < output
       /\ Names(zeroPlan.out[i], plans["zero_inflated"].in[zeroPlan.in[i]], "is_nonzero")

\* Every place before the next one and every column before the next one are
\* in a plan.
CoverInv ==
  /\ \A place \in 1 .. output - 1 :
       \/ \E k \in Kinds : \E i \in DOMAIN plans[k].in : plans[k].out[i] = place
       \/ \E i \in DOMAIN zeroPlan.in : zeroPlan.out[i] = place
  /\ \A f \in 1 .. Planned : \E i \in DOMAIN plans[kind[f]].in : plans[kind[f]].in[i] = f

OutInv ==
  scaling = "transformed" =>
    /\ cells \in [1 .. Height -> [1 .. Width -> {"plain", "odd", "hole"}]]
    /\ out = Transformed(cells, ModeAction(testMode))

ScalingInv ==
  /\ ScalingTypeOK /\ NamesInv /\ LoopInv
  /\ (\A k \in Kinds : GroupInv(k)) /\ IndicatorInv /\ CoverInv
  /\ OutInv

\* What one more element does to a sequence
LEMMA Appended ==
  ASSUME NEW S, NEW s \in Seq(S), NEW e \in S
  PROVE  /\ Append(s, e) \in Seq(S)
         /\ Len(s) \in Nat /\ DOMAIN s = 1 .. Len(s)
         /\ Len(Append(s, e)) = Len(s) + 1 /\ DOMAIN Append(s, e) = 1 .. Len(s) + 1
         /\ \A i \in 1 .. Len(s) : Append(s, e)[i] = s[i]
         /\ Append(s, e)[Len(s) + 1] = e
OBVIOUS

LEMMA AppendedNumber ==
  ASSUME NEW s \in Seq(Nat), NEW e \in Nat
  PROVE  /\ Append(s, e) \in Seq(Nat)
         /\ Len(s) \in Nat /\ DOMAIN s = 1 .. Len(s)
         /\ DOMAIN Append(s, e) = 1 .. Len(s) + 1
         /\ \A i \in 1 .. Len(s) : Append(s, e)[i] = s[i]
         /\ Append(s, e)[Len(s) + 1] = e
OBVIOUS

\* Names are appended one by one.
LEMMA Twice ==
  ASSUME NEW S, NEW s \in Seq(S), NEW d \in S, NEW e \in S
  PROVE  /\ s \o <<d>> = Append(s, d)
         /\ s \o <<d, e>> = Append(Append(s, d), e)
OBVIOUS

\* The domains and lengths that the invariant implies
LEMMA ScalingFacts ==
  ASSUME ScalingInv
  PROVE  /\ Len(columns) \in Nat /\ DOMAIN columns = 1 .. Len(columns)
         /\ Len(kind) \in Nat /\ DOMAIN kind = 1 .. Len(kind)
         /\ Len(names) \in Nat /\ DOMAIN names = 1 .. Len(names)
         /\ \A k \in Kinds : /\ plans[k].in \in Seq(Nat) /\ plans[k].out \in Seq(Nat)
                             /\ Len(plans[k].in) \in Nat /\ DOMAIN plans[k].in = 1 .. Len(plans[k].in)
                             /\ Len(plans[k].out) = Len(plans[k].in)
         /\ zeroPlan.in \in Seq(Nat) /\ zeroPlan.out \in Seq(Nat)
         /\ Len(zeroPlan.in) \in Nat /\ DOMAIN zeroPlan.in = 1 .. Len(zeroPlan.in)
         /\ Len(zeroPlan.out) = Len(zeroPlan.in)
<1>1. ASSUME NEW S, NEW s \in Seq(S) PROVE Len(s) \in Nat /\ DOMAIN s = 1 .. Len(s)
  OBVIOUS
<1>2. \A k \in Kinds : plans[k].in \in Seq(Nat) /\ plans[k].out \in Seq(Nat)
  BY DEF ScalingInv, ScalingTypeOK, Plans
<1>3. zeroPlan.in \in Seq(Nat) /\ zeroPlan.out \in Seq(Nat)
  BY DEF ScalingInv, ScalingTypeOK, Plans
<1>4. columns \in Seq(1 .. Width) /\ kind \in Seq(Kinds) /\ names \in Seq((1 .. Width) \X Roles)
  BY DEF ScalingInv, ScalingTypeOK
<1>5. ASSUME NEW m \in Nat, NEW n \in Nat, 1 .. m = 1 .. n PROVE m = n
  <2>1. m \in 0 .. n /\ n \in 0 .. m
    BY <1>5
  <2>2. QED
    BY <2>1
<1>6. DOMAIN zeroPlan.in = DOMAIN zeroPlan.out /\ \A k \in Kinds : DOMAIN plans[k].in = DOMAIN plans[k].out
  BY DEF ScalingInv, GroupInv, IndicatorInv
<1>7. Len(zeroPlan.out) = Len(zeroPlan.in)
  BY <1>1, <1>3, <1>5, <1>6
<1>8. ASSUME NEW k \in Kinds PROVE Len(plans[k].out) = Len(plans[k].in)
  BY <1>1, <1>2, <1>5, <1>6
<1>9. QED
  BY <1>1, <1>2, <1>3, <1>4, <1>7, <1>8

\* Nothing is fitted yet.
LEMMA ScalingInitInv == ScalingInit => ScalingInv
<1> SUFFICES ASSUME ScalingInit PROVE ScalingInv
  OBVIOUS
<1>1. shape \in (Nat \ {0}) \X (Nat \ {0})
  BY ShapeAssumption DEF ScalingInit
<1>2. <<>> \in Seq(Nat) /\ <<>> \in Seq(Kinds) /\ <<>> \in Seq(1 .. Width) /\ <<>> \in Seq((1 .. Width) \X Roles)
      /\ Len(<<>>) = 0 /\ DOMAIN <<>> = {}
  OBVIOUS
<1>3. NoPlan \in Plans /\ NoPlan.in = <<>> /\ NoPlan.out = <<>>
  BY <1>2 DEF NoPlan, Plans
<1>4. \A k \in Kinds : plans[k] = NoPlan
  BY DEF ScalingInit
<1>5. ScalingTypeOK
  BY <1>1, <1>2, <1>3, <1>4 DEF ScalingInit, ScalingTypeOK, Height, Width
<1>6. NamesInv /\ LoopInv
  BY <1>2 DEF ScalingInit, NamesInv, LoopInv
<1>7. Planned = 0 /\ output = 1
  BY DEF ScalingInit, Planned
<1>8. (\A k \in Kinds : GroupInv(k)) /\ IndicatorInv
  BY <1>2, <1>3, <1>4 DEF ScalingInit, GroupInv, IndicatorInv
<1>9. CoverInv
  BY <1>7 DEF CoverInv
<1>10. OutInv
  BY DEF ScalingInit, OutInv
<1>11. QED
  BY <1>5, <1>6, <1>8, <1>9, <1>10 DEF ScalingInv

\* Nothing is planned before the second loop.
LEMMA NothingPlanned ==
  ASSUME ScalingInv, scaling \in {"unfitted", "naming"}, UNCHANGED <<plans, zeroPlan, output>>,
         Planned' = 0
  PROVE  (\A k \in Kinds : GroupInv(k)') /\ IndicatorInv' /\ CoverInv'
<1>1. Planned = 0 /\ output = 1 /\ output' = 1
  BY DEF ScalingInv, LoopInv, Planned
<1>2. \A k \in Kinds : DOMAIN plans[k].in = {} /\ DOMAIN plans[k].out = {}
  BY <1>1 DEF ScalingInv, GroupInv
<1>3. DOMAIN zeroPlan.in = {} /\ DOMAIN zeroPlan.out = {}
  BY <1>2 DEF ScalingInv, IndicatorInv, Kinds
<1>4. \A k \in Kinds : GroupInv(k)'
  BY <1>2 DEF GroupInv
<1>5. IndicatorInv'
  BY <1>3 DEF IndicatorInv
<1>6. CoverInv'
  BY <1>1 DEF CoverInv
<1>7. QED
  BY <1>4, <1>5, <1>6

\* The selected columns are different ones.
LEMMA SelectStep == ScalingInv /\ SelectColumns => ScalingInv'
<1> SUFFICES ASSUME ScalingInv, SelectColumns PROVE ScalingInv'
  OBVIOUS
<1>1. PICK n \in 1 .. Width : columns' \in [1 .. n -> 1 .. Width] /\ Increasing(columns')
  BY DEF SelectColumns
<1>2. Width \in Nat /\ n \in Nat /\ n >= 1
  BY <1>1 DEF ScalingInv, ScalingTypeOK
<1>3. columns' \in Seq(1 .. Width) /\ Len(columns') = n /\ DOMAIN columns' = 1 .. n
  BY <1>1, <1>2
<1>4. \A f, g \in DOMAIN columns' : columns'[f] = columns'[g] => f = g
  <2>1. \A f, g \in 1 .. n : f < g => columns'[f] < columns'[g]
    BY <1>1, <1>3 DEF Increasing
  <2>2. \A f \in 1 .. n : columns'[f] \in 1 .. Width
    BY <1>1
  <2>3. ASSUME NEW f \in 1 .. n, NEW g \in 1 .. n, columns'[f] = columns'[g] PROVE f = g
    <3>1. columns'[f] \in Int /\ ~ f < g /\ ~ g < f
      BY <1>2, <2>1, <2>2, <2>3
    <3>2. QED
      BY <3>1
  <2>4. QED
    BY <1>3, <2>3
<1>5. ScalingTypeOK'
  BY <1>3 DEF ScalingInv, ScalingTypeOK, SelectColumns, Height, Width
<1>6. kind = <<>> /\ names = <<>> /\ feature = 1 /\ output = 1 /\ kind' = kind /\ names' = names
      /\ feature' = feature /\ output' = output /\ scaling' = "naming"
  BY DEF ScalingInv, LoopInv, SelectColumns
<1>7. NamesInv' /\ LoopInv'
  <2>1. Len(kind') = 0 /\ DOMAIN kind' = {} /\ DOMAIN names' = {}
    BY <1>6
  <2>2. NamesInv'
    BY <1>2, <1>3, <1>4, <1>6, <2>1 DEF NamesInv
  <2>3. LoopInv'
    BY <1>2, <1>3, <1>6, <2>1 DEF LoopInv
  <2>4. QED
    BY <2>2, <2>3
<1>8. (\A k \in Kinds : GroupInv(k)') /\ IndicatorInv' /\ CoverInv'
  <2>1. scaling = "unfitted" /\ UNCHANGED <<plans, zeroPlan, output>> /\ Planned' = 0
    BY DEF SelectColumns, Planned
  <2>2. QED
    BY <2>1, NothingPlanned
<1>9. OutInv'
  BY <1>6 DEF OutInv
<1>10. QED
  BY <1>5, <1>7, <1>8, <1>9 DEF ScalingInv

\* What naming a column adds to the names
LEMMA NamesGrow ==
  ASSUME ScalingInv, scaling = "naming", NEW k \in Kinds, kind' = Append(kind, k),
         names' = names \o NamesOf(columns[feature], k), UNCHANGED <<columns, indicators, shape>>
  PROVE  /\ names' \in Seq((1 .. Width) \X Roles)
         /\ Len(names') = Len(names) + (IF Shown(k) THEN 2 ELSE 1)
         /\ \A i \in 1 .. Len(names) : names'[i] = names[i]
         /\ names'[Len(names) + 1] = <<columns[feature], IF Shown(k) THEN "is_nonzero" ELSE "value">>
         /\ Shown(k) => names'[Len(names) + 2] = <<columns[feature], "value">>
<1> DEFINE N == (1 .. Width) \X Roles
           a == <<columns[feature], "is_nonzero">>
           b == <<columns[feature], "value">>
<1>1. columns[feature] \in 1 .. Width
  BY ScalingFacts DEF ScalingInv, LoopInv, ScalingTypeOK
<1>2. a \in N /\ b \in N /\ names \in Seq(N)
  BY <1>1 DEF ScalingInv, ScalingTypeOK, Roles
<1>3. CASE Shown(k)
  <2>1. names' = names \o <<a, b>>
    BY <1>3 DEF NamesOf
  <2> HIDE DEF N, a, b
  <2>2. names' = Append(Append(names, a), b)
    BY <1>2, <2>1, Twice
  <2>3. PICK m \in Seq(N) : m = Append(names, a) /\ Len(names) \in Nat /\ Len(m) = Len(names) + 1
          /\ (\A i \in 1 .. Len(names) : m[i] = names[i]) /\ m[Len(names) + 1] = a
    BY <1>2, Appended
  <2>4. names' \in Seq(N) /\ Len(names') = Len(m) + 1
          /\ (\A i \in 1 .. Len(m) : names'[i] = m[i]) /\ names'[Len(m) + 1] = b
    BY <1>2, <2>2, <2>3, Appended
  <2>5. /\ Len(names') = Len(names) + 2 /\ names'[Len(names) + 2] = b
        /\ (\A i \in 1 .. Len(names) : names'[i] = names[i]) /\ names'[Len(names) + 1] = a
    BY <2>3, <2>4
  <2>6. QED
    BY <1>3, <2>4, <2>5 DEF a, b, N
<1>4. CASE ~ Shown(k)
  <2>1. names' = names \o <<b>>
    BY <1>4 DEF NamesOf
  <2> HIDE DEF N, b
  <2>2. names' = Append(names, b)
    BY <1>2, <2>1, Twice
  <2>3. names' \in Seq(N) /\ Len(names') = Len(names) + 1
          /\ (\A i \in 1 .. Len(names) : names'[i] = names[i]) /\ names'[Len(names) + 1] = b
    BY <1>2, <2>2, Appended
  <2>4. QED
    BY <1>4, <2>3 DEF N, b
<1>5. QED
  BY <1>3, <1>4

\* The places before, and the one or two new ones
LEMMA OneOrTwoMore ==
  ASSUME NEW m \in Nat, NEW n \in Nat, NEW both \in BOOLEAN, n = m + (IF both THEN 2 ELSE 1)
  PROVE  /\ m < n /\ m + 1 \in 1 .. n /\ (both => m + 2 \in 1 .. n /\ n = m + 2) /\ (~ both => n = m + 1)
         /\ 1 .. m \subseteq 1 .. n
         /\ \A i \in 1 .. n : i \in 1 .. m \/ i = m + 1 \/ (both /\ i = m + 2)
OBVIOUS

\* The names of a column follow those of the one before it.
LEMMA NameStep == ScalingInv /\ NameColumn => ScalingInv'
<1> SUFFICES ASSUME ScalingInv, NameColumn PROVE ScalingInv'
  OBVIOUS
<1>1. PICK k \in Kinds : kind' = Append(kind, k) /\ names' = names \o NamesOf(columns[feature], k)
  BY DEF NameColumn, KindOf, Kinds
<1>2. /\ scaling = "naming" /\ UNCHANGED <<shape, extremeAction, indicators, columns, output, plans, zeroPlan,
                                         cells, testMode, out>>
      /\ \/ feature = Len(columns) /\ feature' = 1 /\ scaling' = "planning"
         \/ feature # Len(columns) /\ feature' = feature + 1 /\ scaling' = "naming"
  BY DEF NameColumn, NextFeature
<1>3. /\ Len(columns) \in Nat /\ DOMAIN columns = 1 .. Len(columns)
      /\ Len(kind) \in Nat /\ DOMAIN kind = 1 .. Len(kind)
      /\ Len(names) \in Nat /\ DOMAIN names = 1 .. Len(names)
      /\ feature \in 1 .. Len(columns) /\ Len(kind) = feature - 1 /\ output = 1
  BY <1>2, ScalingFacts DEF ScalingInv, LoopInv
<1>4. columns' = columns /\ indicators' = indicators /\ shape' = shape /\ output' = output
  BY <1>2
<1>5. ASSUME NEW m \in Nat, NEW f \in 1 .. m
      PROVE  /\ f \in Nat /\ f <= m /\ 1 \in 1 .. m /\ f \in 1 .. f /\ (f + 1) - 1 = f
             /\ (f # m => f + 1 \in 1 .. m)
  OBVIOUS
<1>6. /\ feature \in Nat /\ feature <= Len(columns) /\ 1 \in 1 .. Len(columns) /\ feature \in 1 .. feature
      /\ (feature + 1) - 1 = feature
      /\ (feature # Len(columns) => feature + 1 \in 1 .. Len(columns))
  BY <1>3, <1>5
<1>7. Len(kind) + 1 = feature
  BY <1>3
<1>8. /\ kind' \in Seq(Kinds) /\ Len(kind') = feature /\ DOMAIN kind' = 1 .. feature
      /\ \A f \in 1 .. Len(kind) : kind'[f] = kind[f]
      /\ kind'[feature] = k
  <2>1. kind \in Seq(Kinds)
    BY DEF ScalingInv, ScalingTypeOK
  <2>2. /\ kind' \in Seq(Kinds) /\ Len(kind') = Len(kind) + 1 /\ DOMAIN kind' = 1 .. Len(kind) + 1
        /\ (\A f \in 1 .. Len(kind) : kind'[f] = kind[f]) /\ kind'[Len(kind) + 1] = k
    BY <1>1, <2>1, Appended
  <2>3. Len(kind) + 1 = feature
    BY <1>3
  <2>4. QED
    BY <2>2, <2>3
<1>9. /\ names' \in Seq((1 .. Width) \X Roles)
      /\ Len(names') = Len(names) + (IF Shown(k) THEN 2 ELSE 1)
      /\ DOMAIN names' = 1 .. Len(names')
      /\ \A i \in 1 .. Len(names) : names'[i] = names[i]
      /\ names'[Len(names) + 1] = <<columns[feature], IF Shown(k) THEN "is_nonzero" ELSE "value">>
      /\ Shown(k) => names'[Len(names) + 2] = <<columns[feature], "value">>
  <2>1. ASSUME NEW S, NEW s \in Seq(S) PROVE DOMAIN s = 1 .. Len(s)
    OBVIOUS
  <2>2. QED
    BY <1>1, <1>2, <2>1, NamesGrow
<1>10. /\ Len(names') \in Nat /\ Len(names) < Len(names') /\ Len(names) + 1 \in 1 .. Len(names')
      /\ (Shown(k) => Len(names) + 2 \in 1 .. Len(names') /\ Len(names') = Len(names) + 2)
      /\ (~ Shown(k) => Len(names') = Len(names) + 1)
      /\ 1 .. Len(names) \subseteq 1 .. Len(names')
      /\ \A i \in 1 .. Len(names') :
            i \in 1 .. Len(names) \/ i = Len(names) + 1 \/ (Shown(k) /\ i = Len(names) + 2)
  <2>1. Len(names') \in Nat
    BY <1>9, LenProperties
  <2>2. Shown(k) \in BOOLEAN
    BY DEF Shown
  <2>3. Len(names') = Len(names) + (IF Shown(k) THEN 2 ELSE 1)
    BY <1>9
  <2>4. QED
    BY <1>3, <2>1, <2>2, <2>3, OneOrTwoMore
\* The place after the names so far, the column at hand, and its first role,
\* as constants
<1>11. PICK n \in Nat : n = Len(names)
  BY <1>3
<1>12. PICK here \in Nat : here = feature
  BY <1>6
<1>13. PICK first : first = IF Shown(k) THEN "is_nonzero" ELSE "value"
  OBVIOUS
<1>14. \A j : Shown(j)' = Shown(j)
  BY <1>2 DEF Shown
<1>15. /\ \A f \in 1 .. Len(kind) : FirstRole(f)' = FirstRole(f)
      /\ FirstRole(here)' = first
  <2>1. ASSUME NEW f \in 1 .. Len(kind) PROVE FirstRole(f)' = FirstRole(f)
    BY <1>8, <1>14 DEF FirstRole
  <2>2. FirstRole(here)' = first
    BY <1>4, <1>8, <1>12, <1>13 DEF FirstRole, Shown
  <2>3. QED
    BY <2>1, <2>2
\* What stands at a place
<1>16. \A place, f, role : Names(place, f, role) => Names(place, f, role)'
  BY <1>2, <1>3, <1>9, <1>10 DEF Names
<1>17. ASSUME NEW place \in 1 .. Len(names), NEW f \in 1 .. feature, NEW role, Names(place, f, role)'
      PROVE  f \in 1 .. Len(kind) /\ Names(place, f, role)
  <2>1. names[place] = <<columns[f], role>>
    BY <1>2, <1>9, <1>17 DEF Names
  <2>2. PICK g \in 1 .. Len(kind) : names[place][1] = columns[g]
    BY <1>3 DEF ScalingInv, NamesInv
  <2>3. g = f
    BY <1>3, <2>1, <2>2 DEF ScalingInv, NamesInv
  <2>4. QED
    BY <1>3, <2>1, <2>2, <2>3 DEF Names
<1>18. Names(n + 1, here, first)'
  <2>1. n + 1 \in DOMAIN names'
    BY <1>9, <1>10, <1>11
  <2>2. QED
    BY <1>4, <1>9, <1>11, <1>12, <1>13, <2>1 DEF Names
<1>19. Shown(k) => Names(n + 2, here, "value")'
  <2>1. Shown(k) => n + 2 \in DOMAIN names'
    BY <1>9, <1>10, <1>11
  <2>2. QED
    BY <1>4, <1>9, <1>11, <1>12, <2>1 DEF Names
<1>20. ASSUME NEW place \in DOMAIN names', NEW f \in DOMAIN kind'
       PROVE  /\ Names(place, f, "is_nonzero")' => Names(place + 1, f, "value")'
              /\ Names(place, f, "value")' =>
                   IF f = Len(kind') THEN place = Len(names')
                   ELSE Names(place + 1, f + 1, FirstRole(f + 1))'
  <2>1. place \in 1 .. Len(names') /\ f \in 1 .. feature /\ feature = here /\ Len(names) = n
    BY <1>8, <1>9, <1>11, <1>12
  <2>2. CASE place \in 1 .. Len(names)
    <3>1. Names(place, f, "is_nonzero")' => Names(place + 1, f, "value")'
      BY <1>3, <1>16, <1>17, <2>1, <2>2 DEF ScalingInv, NamesInv
    <3>2. ASSUME Names(place, f, "value")'
          PROVE  f # Len(kind') /\ Names(place + 1, f + 1, FirstRole(f + 1))'
      <4>1. f \in 1 .. Len(kind) /\ Names(place, f, "value") /\ f # feature
        BY <1>3, <1>17, <2>1, <2>2, <3>2
      <4>2. CASE f = Len(kind)
        <5>1. place = Len(names) /\ f + 1 = feature
          BY <1>3, <2>2, <4>1, <4>2 DEF ScalingInv, NamesInv
        <5>2. place + 1 = n + 1 /\ f + 1 = here
          BY <2>1, <5>1
        <5>3. QED
          BY <1>8, <1>15, <1>18, <4>1, <5>2
      <4>3. CASE f # Len(kind)
        <5>1. Names(place + 1, f + 1, FirstRole(f + 1)) /\ f + 1 \in 1 .. Len(kind)
          BY <1>3, <2>2, <4>1, <4>3 DEF ScalingInv, NamesInv
        <5>2. QED
          BY <1>8, <1>15, <1>16, <4>1, <5>1
      <4>4. QED
        BY <4>2, <4>3
    <3>3. QED
      BY <3>1, <3>2
  <2>3. CASE place = Len(names) + 1
    <3>1. ASSUME NEW role, Names(place, f, role)'
          PROVE  f = here /\ role = first
      <4>1. names'[place] = <<columns[f], role>>
        BY <1>2, <3>1 DEF Names
      <4>2. columns[f] = columns[feature] /\ role = first
        BY <1>9, <1>13, <2>3, <4>1
      <4>3. QED
        BY <1>3, <2>1, <4>2 DEF ScalingInv, NamesInv
    <3>2. Names(place, f, "is_nonzero")' => Names(place + 1, f, "value")'
      <4>1. place + 1 = n + 2
        BY <2>1, <2>3
      <4>2. ASSUME Names(place, f, "is_nonzero")' PROVE Shown(k) /\ f = here
        BY <1>13, <3>1, <4>2
      <4>3. QED
        BY <1>19, <4>1, <4>2
    <3>3. Names(place, f, "value")' => f = Len(kind') /\ place = Len(names')
      BY <1>8, <1>10, <1>13, <2>1, <2>3, <3>1
    <3>4. QED
      BY <3>2, <3>3
  <2>4. CASE place > Len(names) + 1
    <3>1. Shown(k) /\ place = Len(names) + 2 /\ place = Len(names')
      BY <1>3, <1>10, <2>1, <2>4
    <3>2. ASSUME NEW role, Names(place, f, role)' PROVE f = feature /\ role = "value"
      <4>1. names'[place] = <<columns[f], role>>
        BY <1>2, <3>2 DEF Names
      <4>2. columns[f] = columns[feature] /\ role = "value"
        BY <1>9, <3>1, <4>1
      <4>3. QED
        BY <1>3, <2>1, <4>2 DEF ScalingInv, NamesInv
    <3>3. QED
      BY <1>8, <3>1, <3>2
  <2>5. QED
    BY <1>3, <1>10, <2>1, <2>2, <2>3, <2>4
<1>21. Names(1, 1, FirstRole(1))'
  <2>1. CASE kind = <<>>
    <3>1. names = <<>> /\ Len(names) = 0 /\ feature = 1
      <4>1. Len(kind) = 0 /\ feature = 1
        BY <1>3, <2>1
      <4>2. DOMAIN names = {}
        BY <1>3, <4>1 DEF ScalingInv, NamesInv
      <4>3. Len(names) = 0
        BY <1>3, <4>2
      <4>4. names \in Seq((1 .. Width) \X Roles)
        BY DEF ScalingInv, ScalingTypeOK
      <4>5. QED
        BY <4>1, <4>3, <4>4
    <3>2. n + 1 = 1 /\ here = 1
      BY <1>11, <1>12, <3>1
    <3>3. QED
      BY <1>15, <1>18, <3>2
  <2>2. CASE kind # <<>>
    <3>1. Names(1, 1, FirstRole(1))
      BY <2>2 DEF ScalingInv, NamesInv
    <3>2. 1 \in 1 .. Len(kind)
      <4>1. kind \in Seq(Kinds)
        BY DEF ScalingInv, ScalingTypeOK
      <4>2. Len(kind) # 0
        BY <2>2, <4>1
      <4>3. QED
        BY <1>3, <4>2
    <3>3. QED
      BY <1>15, <1>16, <3>1, <3>2
  <2>3. QED
    BY <2>1, <2>2
<1>22. \A place \in DOMAIN names' : \E f \in DOMAIN kind' : names'[place][1] = columns[f]
  <2>1. ASSUME NEW place \in 1 .. Len(names) PROVE \E f \in 1 .. feature : names'[place][1] = columns[f]
    <3>1. PICK g \in 1 .. Len(kind) : names[place][1] = columns[g]
      BY <1>3 DEF ScalingInv, NamesInv
    <3>2. g \in 1 .. feature
      BY <1>3, <3>1
    <3>3. QED
      BY <1>9, <3>1, <3>2
  <2>2. names'[Len(names) + 1][1] = columns[feature] /\ (Shown(k) => names'[Len(names) + 2][1] = columns[feature])
    BY <1>9
  <2>3. feature \in 1 .. feature /\ \A place \in 1 .. Len(names') :
          place \in 1 .. Len(names) \/ place = Len(names) + 1 \/ (Shown(k) /\ place = Len(names) + 2)
    BY <1>3, <1>10
  <2>4. QED
    BY <1>8, <1>9, <2>1, <2>2, <2>3
<1>23. NamesInv'
  <2>1. \A f, g \in DOMAIN columns' : columns'[f] = columns'[g] => f = g
    BY <1>2 DEF ScalingInv, NamesInv
  <2>2. Len(kind') <= Len(columns')
    BY <1>4, <1>6, <1>8
  <2>3. \A place \in DOMAIN names' : \E f \in DOMAIN kind' : names'[place][1] = columns'[f]
    BY <1>2, <1>22
  <2>4. QED
    BY <1>20, <1>21, <2>1, <2>2, <2>3 DEF NamesInv
<1>24. ScalingTypeOK'
  <2>1. /\ scaling' \in {"unfitted", "naming", "planning", "fitted", "transformed"}
        /\ feature' \in Nat
    BY <1>2, <1>6
  <2>2. QED
    BY <1>2, <1>8, <1>9, <2>1 DEF ScalingInv, ScalingTypeOK, Height, Width
<1>25. LoopInv'
  <2>1. CASE feature = Len(columns) /\ feature' = 1 /\ scaling' = "planning"
    <3>1. 1 \in 1 .. Len(columns)
      BY <1>3
    <3>2. QED
      BY <1>2, <1>3, <1>8, <1>21, <2>1, <3>1 DEF LoopInv
  <2>2. CASE feature # Len(columns) /\ feature' = feature + 1 /\ scaling' = "naming"
    <3>1. feature + 1 \in 1 .. Len(columns) /\ (feature + 1) - 1 = feature
      BY <1>6, <2>2
    <3>2. QED
      BY <1>2, <1>3, <1>8, <2>2, <3>1 DEF LoopInv
  <2>3. QED
    BY <1>2, <2>1, <2>2
<1>26. (\A j \in Kinds : GroupInv(j)') /\ IndicatorInv' /\ CoverInv'
  <2>1. Planned' = 0
    BY <1>2 DEF Planned
  <2>2. QED
    BY <1>2, <2>1, NothingPlanned
<1>27. OutInv'
  BY <1>2 DEF OutInv
<1>28. QED
  BY <1>23, <1>24, <1>25, <1>26, <1>27 DEF ScalingInv


\* grown is the plan, of m entries, with one more.
Grown(plan, grown, m, from, to) ==
  /\ grown \in Plans
  /\ DOMAIN plan.in = 1 .. m
  /\ DOMAIN grown.in = 1 .. m + 1 /\ DOMAIN grown.out = 1 .. m + 1
  /\ m + 1 \in 1 .. m + 1
  /\ \A i \in 1 .. m + 1 : i \in 1 .. m \/ i = m + 1
  /\ \A i \in 1 .. m : i \in 1 .. m + 1 /\ grown.in[i] = plan.in[i] /\ grown.out[i] = plan.out[i]
  /\ grown.in[m + 1] = from /\ grown.out[m + 1] = to

\* What planning a column adds to a plan
LEMMA PlanGrows ==
  ASSUME NEW plan \in Plans, Len(plan.in) = Len(plan.out), NEW from \in Nat, NEW to \in Nat,
         NEW grown, grown = PlanOn(plan, from, to), NEW m \in Nat, m = Len(plan.in)
  PROVE  Grown(plan, grown, m, from, to)
<1>1. plan.in \in Seq(Nat) /\ plan.out \in Seq(Nat)
  BY DEF Plans
<1>2. grown.in = Append(plan.in, from) /\ grown.out = Append(plan.out, to)
  BY DEF PlanOn
<1>3. /\ grown.in \in Seq(Nat) /\ DOMAIN plan.in = 1 .. m
      /\ DOMAIN grown.in = 1 .. m + 1
      /\ \A i \in 1 .. m : grown.in[i] = plan.in[i]
      /\ grown.in[m + 1] = from
  <2>1. /\ Append(plan.in, from) \in Seq(Nat)
        /\ Len(plan.in) \in Nat /\ DOMAIN plan.in = 1 .. Len(plan.in)
        /\ DOMAIN Append(plan.in, from) = 1 .. Len(plan.in) + 1
        /\ \A i \in 1 .. Len(plan.in) : Append(plan.in, from)[i] = plan.in[i]
        /\ Append(plan.in, from)[Len(plan.in) + 1] = from
    BY <1>1, AppendedNumber
  <2>2. Len(plan.in) = m
    OBVIOUS
  <2>3. QED
    BY ONLY <1>2, <2>1, <2>2
<1>4. /\ grown.out \in Seq(Nat)
      /\ DOMAIN grown.out = 1 .. m + 1
      /\ \A i \in 1 .. m : grown.out[i] = plan.out[i]
      /\ grown.out[m + 1] = to
  <2>1. /\ Append(plan.out, to) \in Seq(Nat)
        /\ Len(plan.out) \in Nat /\ DOMAIN plan.out = 1 .. Len(plan.out)
        /\ DOMAIN Append(plan.out, to) = 1 .. Len(plan.out) + 1
        /\ \A i \in 1 .. Len(plan.out) : Append(plan.out, to)[i] = plan.out[i]
        /\ Append(plan.out, to)[Len(plan.out) + 1] = to
    BY <1>1, AppendedNumber
  <2>2. Len(plan.out) = m
    OBVIOUS
  <2>3. QED
    BY ONLY <1>2, <2>1, <2>2
<1>5. grown \in Plans
  BY <1>2, <1>3, <1>4 DEF PlanOn, Plans
<1>6. /\ m + 1 \in 1 .. m + 1
      /\ \A i \in 1 .. m + 1 : i \in 1 .. m \/ i = m + 1
      /\ \A i \in 1 .. m : i \in 1 .. m + 1
  OBVIOUS
<1>7. QED
  BY <1>3, <1>4, <1>5, <1>6 DEF Grown

\* A column is planned for the places that are called by it: those after the
\* places of the column before.
LEMMA PlanStep == ScalingInv /\ PlanColumn => ScalingInv'
<1> SUFFICES ASSUME ScalingInv, PlanColumn PROVE ScalingInv'
  OBVIOUS
<1>1. /\ scaling = "planning"
      /\ UNCHANGED <<shape, extremeAction, indicators, columns, kind, names, cells, testMode, out>>
      /\ \/ feature = Len(columns) /\ feature' = 1 /\ scaling' = "fitted"
         \/ feature # Len(columns) /\ feature' = feature + 1 /\ scaling' = "planning"
  BY DEF PlanColumn, NextFeature
<1>2. /\ columns' = columns /\ kind' = kind /\ names' = names /\ indicators' = indicators
      /\ shape' = shape
  BY <1>1
<1>3. PICK here \in Nat : here = feature /\ here \in 1 .. Len(kind) /\ Len(kind) = Len(columns)
  BY <1>1, ScalingFacts DEF ScalingInv, LoopInv, ScalingTypeOK
<1>4. PICK o \in Nat : o = output
  BY DEF ScalingInv, ScalingTypeOK
<1>5. PICK k \in Kinds : k = kind[here]
  BY <1>3 DEF ScalingInv, ScalingTypeOK
<1>6. PICK both \in BOOLEAN : both = Shown(k)
  BY DEF Shown
<1>7. PICK place \in Nat : place = IF both THEN o + 1 ELSE o
  BY <1>4
<1>8. /\ plans' = [plans EXCEPT ![k] = PlanOn(plans[k], here, place)]
      /\ zeroPlan' = IF both THEN PlanOn(zeroPlan, Len(plans[k].in) + 1, o) ELSE zeroPlan
      /\ output' = place + 1
  BY <1>3, <1>4, <1>5, <1>6, <1>7 DEF PlanColumn
<1>9. /\ Len(columns) \in Nat /\ DOMAIN columns = 1 .. Len(columns) /\ DOMAIN kind = 1 .. Len(kind)
      /\ Len(names) \in Nat /\ DOMAIN names = 1 .. Len(names)
  BY ScalingFacts
<1>10. /\ 1 \in 1 .. Len(columns) /\ here <= Len(columns)
       /\ (here # Len(columns) => here + 1 \in 1 .. Len(columns)) /\ (here + 1) - 1 = here
  <2>1. ASSUME NEW m \in Nat, NEW f \in 1 .. m
        PROVE  1 \in 1 .. m /\ f <= m /\ (f # m => f + 1 \in 1 .. m) /\ (f + 1) - 1 = f
    OBVIOUS
  <2>2. QED
    BY <1>3, <1>9, <2>1
<1>11. \A p, f, role : Names(p, f, role)' <=> Names(p, f, role)
  BY <1>2 DEF Names
<1>12. \A f : FirstRole(f)' = FirstRole(f)
  BY <1>2 DEF FirstRole, Shown
\* What the places planned for are called
<1>13. Names(o, here, FirstRole(here))
  BY <1>1, <1>3, <1>4 DEF ScalingInv, LoopInv
<1>14. (both => Names(o, here, "is_nonzero")) /\ Names(place, here, "value")
  <2>1. CASE both
    <3>1. Names(o, here, "is_nonzero") /\ o \in DOMAIN names
      BY <1>5, <1>6, <1>13, <2>1 DEF FirstRole, Names
    <3>2. Names(o + 1, here, "value")
      BY <1>3, <1>9, <3>1 DEF ScalingInv, NamesInv
    <3>3. QED
      BY <1>7, <2>1, <3>1, <3>2
  <2>2. CASE ~ both
    BY <1>5, <1>6, <1>7, <1>13, <2>2 DEF FirstRole
  <2>3. QED
    BY <2>1, <2>2
<1>15. IF here = Len(kind) THEN place = Len(names)
       ELSE Names(place + 1, here + 1, FirstRole(here + 1))
  <2>1. place \in DOMAIN names
    BY <1>14 DEF Names
  <2>2. QED
    BY <1>3, <1>9, <1>14, <2>1 DEF ScalingInv, NamesInv
<1>16. NamesInv'
  BY <1>2, <1>11, <1>12 DEF ScalingInv, NamesInv
<1>17. LoopInv'
  <2>1. CASE feature = Len(columns) /\ feature' = 1 /\ scaling' = "fitted"
    <3>1. output' = Len(names') + 1
      BY <1>2, <1>3, <1>8, <1>15, <2>1
    <3>2. QED
      BY <1>2, <1>3, <2>1, <3>1 DEF LoopInv
  <2>2. CASE feature # Len(columns) /\ feature' = feature + 1 /\ scaling' = "planning"
    <3>1. Names(place + 1, here + 1, FirstRole(here + 1))
      BY <1>3, <1>15, <2>2
    <3>2. feature' = here + 1 /\ here + 1 \in DOMAIN columns
      BY <1>3, <1>9, <1>10, <2>2
    <3>3. QED
      BY <1>2, <1>3, <1>8, <1>11, <1>12, <2>2, <3>1, <3>2 DEF LoopInv
  <2>3. QED
    BY <1>1, <2>1, <2>2
<1>18. Planned = here - 1 /\ Planned' = here
  <2>1. Planned = here - 1
    BY <1>1, <1>3 DEF Planned
  <2>2. Planned' = here
    BY <1>1, <1>2, <1>3, <1>10 DEF Planned
  <2>3. QED
    BY <2>1, <2>2
<1>19. /\ here \in 1 .. here /\ (\A f \in 1 .. here - 1 : f \in 1 .. here)
       /\ (\A f \in 1 .. here : f \in 1 .. here - 1 \/ f = here)
       /\ o < place + 1 /\ place < place + 1 /\ (\A n \in Nat : n < o => n < place + 1)
       /\ (\A n \in 1 .. (place + 1) - 1 : n \in 1 .. o - 1 \/ n = place \/ (both /\ n = o))
  <2>1. here >= 1
    BY <1>3, <1>9
  <2>2. QED
    BY <1>7, <2>1
\* The plan of the column's kind, and of the others
<1>20. PICK m \in Nat : m = Len(plans[k].in)
  BY ScalingFacts
<1>21. Grown(plans[k], plans'[k], m, here, place)
  <2>1. plans'[k] = PlanOn(plans[k], here, place)
    BY <1>8 DEF ScalingInv, ScalingTypeOK
  <2>2. plans[k] \in Plans /\ Len(plans[k].in) = Len(plans[k].out)
    BY ScalingFacts DEF ScalingInv, ScalingTypeOK
  <2>3. QED
    BY <1>20, <2>1, <2>2, PlanGrows
<1>22. /\ DOMAIN plans[k].in = 1 .. m
       /\ plans'[k] \in Plans
       /\ DOMAIN plans'[k].in = 1 .. m + 1 /\ DOMAIN plans'[k].out = 1 .. m + 1
       /\ m + 1 \in 1 .. m + 1
       /\ \A i \in 1 .. m + 1 : i \in 1 .. m \/ i = m + 1
       /\ \A i \in 1 .. m : /\ i \in 1 .. m + 1
                            /\ plans'[k].in[i] = plans[k].in[i] /\ plans'[k].out[i] = plans[k].out[i]
       /\ plans'[k].in[m + 1] = here /\ plans'[k].out[m + 1] = place
  BY <1>21 DEF Grown
<1>23. \A j \in Kinds \ {k} : plans'[j] = plans[j]
  BY <1>8 DEF ScalingInv, ScalingTypeOK
<1>24. plans' \in [Kinds -> Plans]
  BY <1>8, <1>22 DEF ScalingInv, ScalingTypeOK
\* The plan of the indicators
<1>25. zeroPlan \in Plans /\ Len(zeroPlan.in) = Len(zeroPlan.out)
  BY ScalingFacts DEF ScalingInv, ScalingTypeOK
<1>26. PICK l \in Nat : l = Len(zeroPlan.in)
  BY ScalingFacts
<1>27. both => Grown(zeroPlan, zeroPlan', l, m + 1, o)
  <2>1. CASE both
    <3>1. zeroPlan' = PlanOn(zeroPlan, m + 1, o)
      BY <1>8, <1>20, <2>1
    <3>2. m + 1 \in Nat
      OBVIOUS
    <3>3. QED
      BY <1>25, <1>26, <3>1, <3>2, PlanGrows
  <2>2. QED
    BY <2>1
<1>28. zeroPlan' \in Plans
  BY <1>8, <1>25, <1>27 DEF Grown
<1>29. ScalingTypeOK'
  <2>1. /\ scaling' \in {"unfitted", "naming", "planning", "fitted", "transformed"}
        /\ feature' \in Nat /\ output' \in Nat
    BY <1>1, <1>3, <1>8
  <2>2. QED
    BY <1>2, <1>24, <1>28, <2>1 DEF ScalingInv, ScalingTypeOK, Height, Width
<1>30. ASSUME NEW j \in Kinds PROVE GroupInv(j)'
  <2>1. ASSUME NEW i \in DOMAIN plans[j].in
        PROVE  /\ plans[j].in[i] \in 1 .. Planned' /\ kind'[plans[j].in[i]] = j
               /\ plans[j].out[i] < output' /\ Names(plans[j].out[i], plans[j].in[i], "value")
    <3>1. /\ plans[j].in[i] \in 1 .. here - 1 /\ kind[plans[j].in[i]] = j
          /\ plans[j].out[i] < o /\ Names(plans[j].out[i], plans[j].in[i], "value")
      BY <1>4, <1>18 DEF ScalingInv, GroupInv
    <3>2. plans[j].out[i] \in Nat
      BY <1>9, <3>1 DEF Names
    <3>3. QED
      BY <1>2, <1>8, <1>18, <1>19, <3>1, <3>2
  <2>2. CASE j # k
    <3>1. plans'[j] = plans[j] /\ DOMAIN plans[j].in = DOMAIN plans[j].out
      BY <1>23, <2>2 DEF ScalingInv, GroupInv
    <3>2. QED
      BY <1>11, <2>1, <3>1 DEF GroupInv
  <2>3. CASE j = k
    <3>1. ASSUME NEW i \in 1 .. m + 1
          PROVE  /\ plans'[k].in[i] \in 1 .. Planned' /\ kind'[plans'[k].in[i]] = k
                 /\ plans'[k].out[i] < output' /\ Names(plans'[k].out[i], plans'[k].in[i], "value")
      <4>1. CASE i \in 1 .. m
        BY <1>22, <2>1, <2>3, <4>1
      <4>2. CASE i = m + 1
        BY <1>2, <1>5, <1>8, <1>14, <1>18, <1>19, <1>22, <4>2
      <4>3. QED
        BY <1>22, <4>1, <4>2
    <3>2. QED
      BY <1>11, <1>22, <2>3, <3>1 DEF GroupInv
  <2>4. QED
    BY <2>2, <2>3
<1>31. PICK z \in Kinds : z = "zero_inflated"
  BY DEF Kinds
<1>32. both => k = z
  BY <1>6, <1>31 DEF Shown
\* What was planned of the zero-inflated columns stays so.
<1>33. ASSUME NEW i \in DOMAIN zeroPlan.in
       PROVE  /\ zeroPlan.in[i] \in DOMAIN plans'[z].in
              /\ zeroPlan.out[i] < output'
              /\ Names(zeroPlan.out[i], plans'[z].in[zeroPlan.in[i]], "is_nonzero")
  <2>1. /\ zeroPlan.in[i] \in DOMAIN plans[z].in
        /\ zeroPlan.out[i] < o
        /\ Names(zeroPlan.out[i], plans[z].in[zeroPlan.in[i]], "is_nonzero")
    BY <1>4, <1>31 DEF ScalingInv, IndicatorInv
  <2>2. zeroPlan.out[i] \in Nat
    BY <1>9, <2>1 DEF Names
  <2>3. zeroPlan.in[i] \in DOMAIN plans'[z].in /\ plans'[z].in[zeroPlan.in[i]] = plans[z].in[zeroPlan.in[i]]
    BY <1>22, <1>23, <2>1
  <2>4. QED
    BY <1>8, <1>19, <2>1, <2>2, <2>3
<1>34. IndicatorInv'
  <2>1. CASE both
    <3>1. /\ DOMAIN zeroPlan.in = 1 .. l /\ m + 1 \in DOMAIN plans'[z].in
          /\ plans'[z].in[m + 1] = here
      BY <1>22, <1>32, <1>27, <2>1 DEF Grown
    <3>2. ASSUME NEW i \in 1 .. l + 1
          PROVE  /\ zeroPlan'.in[i] \in DOMAIN plans'[z].in
                 /\ zeroPlan'.out[i] < output'
                 /\ Names(zeroPlan'.out[i], plans'[z].in[zeroPlan'.in[i]], "is_nonzero")
      <4>1. CASE i \in 1 .. l
        BY <1>33, <1>27, <2>1, <3>1, <4>1 DEF Grown
      <4>2. CASE i = l + 1
        <5>1. zeroPlan'.in[i] = m + 1 /\ zeroPlan'.out[i] = o
          BY <1>27, <2>1, <4>2 DEF Grown
        <5>2. o < output' /\ Names(o, here, "is_nonzero")
          BY <1>8, <1>14, <1>19, <2>1
        <5>3. QED
          BY <3>1, <5>1, <5>2
      <4>3. QED
        BY <1>27, <2>1, <4>1, <4>2 DEF Grown
    <3>3. QED
      BY <1>11, <1>31, <1>27, <2>1, <3>2 DEF IndicatorInv, Grown
  <2>2. CASE ~ both
    <3>1. zeroPlan' = zeroPlan /\ DOMAIN zeroPlan.in = DOMAIN zeroPlan.out
      BY <1>8, <2>2 DEF ScalingInv, IndicatorInv
    <3>2. QED
      BY <1>11, <1>31, <1>33, <3>1 DEF IndicatorInv
  <2>3. QED
    BY <2>1, <2>2
\* What was in a plan still is, and so is what is planned now.
<1>35. ASSUME NEW j \in Kinds, NEW i \in DOMAIN plans[j].in
       PROVE  i \in DOMAIN plans'[j].in /\ plans'[j].in[i] = plans[j].in[i] /\ plans'[j].out[i] = plans[j].out[i]
  BY <1>22, <1>23
<1>36. m + 1 \in DOMAIN plans'[k].in /\ plans'[k].in[m + 1] = here /\ plans'[k].out[m + 1] = place
  BY <1>22
<1>37. ASSUME NEW i \in DOMAIN zeroPlan.in
       PROVE  i \in DOMAIN zeroPlan'.in /\ zeroPlan'.out[i] = zeroPlan.out[i]
  <2>1. CASE both
    BY <1>27, <2>1 DEF Grown
  <2>2. CASE ~ both
    BY <1>8, <2>2
  <2>3. QED
    BY <2>1, <2>2
<1>38. both => \E i \in DOMAIN zeroPlan'.in : zeroPlan'.out[i] = o
  BY <1>27 DEF Grown
<1>39. CoverInv'
  <2>1. ASSUME NEW p \in 1 .. output' - 1
        PROVE  \/ \E j \in Kinds : \E i \in DOMAIN plans'[j].in : plans'[j].out[i] = p
               \/ \E i \in DOMAIN zeroPlan'.in : zeroPlan'.out[i] = p
    <3>1. p \in 1 .. o - 1 \/ p = place \/ (both /\ p = o)
      BY <1>8, <1>19
    <3>2. CASE p \in 1 .. o - 1
      <4>1. \/ \E j \in Kinds : \E i \in DOMAIN plans[j].in : plans[j].out[i] = p
            \/ \E i \in DOMAIN zeroPlan.in : zeroPlan.out[i] = p
        BY <1>4, <3>2 DEF ScalingInv, CoverInv
      <4>2. QED
        BY <1>35, <1>37, <4>1
    <3>3. CASE p = place
      BY <1>36, <3>3
    <3>4. CASE both /\ p = o
      BY <1>38, <3>4
    <3>5. QED
      BY <3>1, <3>2, <3>3, <3>4
  <2>2. ASSUME NEW f \in 1 .. Planned'
        PROVE  \E i \in DOMAIN plans'[kind[f]].in : plans'[kind[f]].in[i] = f
    <3>1. f \in 1 .. here - 1 \/ f = here
      BY <1>18, <1>19
    <3>2. CASE f \in 1 .. here - 1
      <4>1. PICK i \in DOMAIN plans[kind[f]].in : plans[kind[f]].in[i] = f
        BY <1>18, <3>2 DEF ScalingInv, CoverInv
      <4>2. f \in DOMAIN kind
        BY <1>3, <1>9, <3>2
      <4>3. kind[f] \in Kinds
        BY <4>2 DEF ScalingInv, ScalingTypeOK
      <4>4. QED
        BY <1>35, <4>1, <4>3
    <3>3. CASE f = here
      BY <1>5, <1>36, <3>3
    <3>4. QED
      BY <3>1, <3>2, <3>3
  <2>3. QED
    BY <1>2, <2>1, <2>2 DEF CoverInv
<1>40. OutInv'
  BY <1>1 DEF OutInv
<1>41. QED
  BY <1>16, <1>17, <1>29, <1>30, <1>34, <1>39, <1>40 DEF ScalingInv

\* What transform returns depends on what was fitted and on nothing else.
LEMMA Unmoved ==
  ASSUME UNCHANGED <<shape, columns, names, plans, zeroPlan>>, NEW x, NEW action
  PROVE  Transformed(x, action)' = Transformed(x, action)
<1>1. shape' = shape /\ columns' = columns /\ names' = names /\ plans' = plans /\ zeroPlan' = zeroPlan
  OBVIOUS
<1>2. Height' = Height
  BY <1>1 DEF Height
<1>3. \A r, f : Selected(x, r, f)' = Selected(x, r, f)
  BY <1>1 DEF Selected
<1>4. \A r, f : Odd(x, r, f)' <=> Odd(x, r, f)
  BY <1>1 DEF Odd
<1>5. \A f : Raw(x, f)' = Raw(x, f)
  BY <1>2, <1>3 DEF Raw
<1>6. \A f : Masked(x, f)' = Masked(x, f)
  BY <1>2, <1>3, <1>4 DEF Masked
<1>7. AnyMasked(x)' <=> AnyMasked(x)
  BY <1>1, <1>2, <1>4 DEF AnyMasked
<1>8. \A column : ForwardFill(column)' = ForwardFill(column)
  BY <1>2 DEF ForwardFill
<1>9. \A column : BackwardFill(column)' = BackwardFill(column)
  BY <1>2 DEF BackwardFill
<1>10. \A f : TreatExtremes(x, action, f)' = TreatExtremes(x, action, f)
  BY <1>5, <1>6, <1>7, <1>8, <1>9 DEF TreatExtremes
<1>11. \A k, f, r : Value(x, action, k, f, r)' = Value(x, action, k, f, r)
  BY <1>3, <1>10 DEF Value
<1>12. \A k, r : GroupCells(x, action, k, r)' = GroupCells(x, action, k, r)
  BY <1>1, <1>11 DEF GroupCells
<1>13. \A f, r : Indicator(x, f, r)' = Indicator(x, f, r)
  BY <1>1, <1>3, <1>4 DEF Indicator
<1>14. \A r : IndicatorCells(x, r)' = IndicatorCells(x, r)
  BY <1>1, <1>13 DEF IndicatorCells
<1>15. \A r : RowCells(x, action, r)' = RowCells(x, action, r)
  BY <1>12, <1>14 DEF RowCells
<1>16. QED
  BY <1>1, <1>2, <1>15 DEF Transformed

\* transform returns what the plans say and changes none of them.
LEMMA TransformStep == ScalingInv /\ Transform => ScalingInv'
<1> SUFFICES ASSUME ScalingInv, Transform PROVE ScalingInv'
  OBVIOUS
<1>1. /\ scaling = "fitted" /\ scaling' = "transformed"
      /\ shape' = shape /\ extremeAction' = extremeAction /\ indicators' = indicators
      /\ columns' = columns /\ feature' = feature /\ output' = output
      /\ kind' = kind /\ names' = names /\ plans' = plans /\ zeroPlan' = zeroPlan
  BY DEF Transform, fitVars
<1>2. ScalingTypeOK'
  BY <1>1 DEF ScalingInv, ScalingTypeOK, Height, Width
<1>3. \A p, f, role : Names(p, f, role)' <=> Names(p, f, role)
  BY <1>1 DEF Names
<1>4. \A f : FirstRole(f)' = FirstRole(f)
  BY <1>1 DEF FirstRole, Shown
<1>5. NamesInv'
  BY <1>1, <1>3, <1>4 DEF ScalingInv, NamesInv
<1>6. LoopInv'
  BY <1>1 DEF ScalingInv, LoopInv
<1>7. Planned' = Planned
  BY <1>1 DEF Planned
<1>8. ASSUME NEW k \in Kinds PROVE GroupInv(k)'
  BY <1>1, <1>3, <1>7 DEF ScalingInv, GroupInv
<1>9. IndicatorInv'
  BY <1>1, <1>3 DEF ScalingInv, IndicatorInv
<1>10. CoverInv'
  BY <1>1, <1>7 DEF ScalingInv, CoverInv
<1>11. OutInv'
  <2>1. PICK x : x = cells'
    OBVIOUS
  <2>2. PICK action : action = ModeAction(testMode')
    OBVIOUS
  <2>3. out' = Transformed(x, action)
    BY <2>1, <2>2 DEF Transform
  <2>4. Transformed(x, action)' = Transformed(x, action)
    BY <1>1, Unmoved
  <2>5. action = ModeAction(testMode)'
    BY <1>1, <2>2 DEF ModeAction
  <2>6. Transformed(cells, ModeAction(testMode))' = Transformed(x, action)'
    BY <2>1, <2>5
  <2>7. cells' \in [1 .. Height' -> [1 .. Width' -> {"plain", "odd", "hole"}]]
    BY <1>1 DEF Transform, Height, Width
  <2>8. QED
    BY <2>3, <2>4, <2>6, <2>7 DEF OutInv
<1>12. QED
  BY <1>2, <1>5, <1>6, <1>8, <1>9, <1>10, <1>11 DEF ScalingInv

\* The greatest of a set of numbers
LEMMA MaxIs ==
  ASSUME NEW S \in SUBSET Nat, NEW m \in S, \A i \in S : i <= m
  PROVE  Max(S) = m
<1>1. \E n \in S : \A i \in S : n >= i
  OBVIOUS
<1>2. Max(S) \in S /\ \A i \in S : Max(S) >= i
  BY <1>1 DEF Max
<1>3. Max(S) \in Nat /\ m \in Nat /\ Max(S) >= m /\ Max(S) <= m
  BY <1>2
<1>4. QED
  BY <1>3

\* The least of a set of numbers
LEMMA MinIs ==
  ASSUME NEW S \in SUBSET Nat, NEW m \in S, \A i \in S : m <= i
  PROVE  Min(S) = m
<1>1. \E n \in S : \A i \in S : n =< i
  OBVIOUS
<1>2. Min(S) \in S /\ \A i \in S : Min(S) =< i
  BY <1>1 DEF Min
<1>3. Min(S) \in Nat /\ m \in Nat /\ Min(S) >= m /\ Min(S) <= m
  BY <1>2
<1>4. QED
  BY <1>3


\* s is the kept row that row r is filled from.
Nearest(K, s, r) ==
  IF \E p \in K : p <= r
  THEN s <= r /\ \A p \in K : p <= r => p <= s
  ELSE \A p \in K : s <= p

\* The last kept row up to r
LEMMA LargestBelow ==
  ASSUME NEW K \in SUBSET Nat, NEW r \in Nat, \E p \in K : p <= r
  PROVE  \E s \in K : s <= r /\ \A p \in K : p <= r => p <= s
<1> DEFINE T == {r - p : p \in {q \in K : q <= r}}
<1>1. T \in SUBSET Nat /\ T # {}
  OBVIOUS
<1>2. PICK d \in T : \A e \in T : d <= e
  <2> HIDE DEF T
  <2>1. QED
    BY <1>1, LeastElement
<1>3. PICK s \in K : s <= r /\ d = r - s
  OBVIOUS
<1>4. ASSUME NEW p \in K, p <= r PROVE p <= s
  <2>1. r - p \in T
    BY <1>4
  <2>2. r - s <= r - p
    BY <1>2, <1>3, <2>1
  <2>3. QED
    BY <1>3, <2>2
<1>5. QED
  BY <1>3, <1>4

\* Where a row is kept, some row is the one to fill from,
LEMMA NearestExists ==
  ASSUME NEW K \in SUBSET Nat, K # {}, NEW r \in Nat
  PROVE  \E s \in K : Nearest(K, s, r)
<1>1. CASE \E p \in K : p <= r
  BY <1>1, LargestBelow DEF Nearest
<1>2. CASE ~ \E p \in K : p <= r
  BY <1>2, LeastElement DEF Nearest
<1>3. QED
  BY <1>1, <1>2

\* and no other is.
LEMMA NearestUnique ==
  ASSUME NEW K \in SUBSET Nat, NEW r \in Nat, NEW s \in K, NEW t \in K, Nearest(K, s, r), Nearest(K, t, r)
  PROVE  s = t
BY DEF Nearest

\* M is column c without the values of the rows outside of K.
WithoutOthers(M, c, K) == \A q \in 1 .. Height : M[q] = IF q \in K THEN <<c, q>> ELSE NaN

\* The two passes of _forward_backward_fill_nan_matrix fill each row from the
\* nearest kept one, earlier before later.
LEMMA FillIsNearest ==
  ASSUME Height \in Nat \ {0}, NEW K \in SUBSET (1 .. Height), NEW c, NEW M,
         WithoutOthers(M, c, K),
         NEW r \in 1 .. Height
  PROVE  /\ K = {} => BackwardFill(ForwardFill(M))[r] = NaN
         /\ \A s \in K : Nearest(K, s, r) => BackwardFill(ForwardFill(M))[r] = <<c, s>>
<1> DEFINE F == ForwardFill(M)
           Back == {q \in r .. Height : F[q] # NaN}
<1>1. \A q : <<c, q>> # NaN
  BY DEF NaN
<1>2. \A q \in 1 .. Height : M[q] = (IF q \in K THEN <<c, q>> ELSE NaN) /\ (M[q] # NaN <=> q \in K)
  BY <1>1 DEF WithoutOthers
\* After the first pass
<1>3. ASSUME NEW q \in 1 .. Height, NEW s \in K, s <= q, \A p \in K : p <= q => p <= s
      PROVE  F[q] = <<c, s>>
  <2> DEFINE S == {1} \cup {p \in 1 .. q : M[p] # NaN}
  <2>1. s \in 1 .. q /\ s \in 1 .. Height /\ M[s] # NaN /\ 1 \in 1 .. q
    <3>1. s \in 1 .. Height
      OBVIOUS
    <3>2. s \in 1 .. q /\ 1 \in 1 .. q
      BY <1>3, <3>1
    <3>3. QED
      BY <1>2, <3>1, <3>2
  <2>2. S \in SUBSET Nat /\ s \in S /\ \A i \in S : i <= s
    <3>1. ASSUME NEW i \in 1 .. q, M[i] # NaN PROVE i <= s
      <4>1. i \in 1 .. Height /\ i <= q
        OBVIOUS
      <4>2. i \in K
        BY <1>2, <3>1, <4>1
      <4>3. QED
        BY <1>3, <4>1, <4>2
    <3>2. QED
      BY <2>1, <3>1
  <2>3. Max(S) = s
    <3> HIDE DEF S
    <3>1. QED
      BY <2>2, MaxIs
  <2>4. F[q] = M[Max(S)]
    BY DEF ForwardFill
  <2>5. QED
    BY <1>2, <2>3, <2>4
<1>4. ASSUME NEW q \in 1 .. Height, \A p \in K : ~ p <= q
      PROVE  F[q] = NaN
  <2> DEFINE S == {1} \cup {p \in 1 .. q : M[p] # NaN}
  <2>1. S = {1}
    <3>1. ASSUME NEW i \in 1 .. q PROVE M[i] = NaN
      <4>1. i \in 1 .. Height /\ i <= q
        OBVIOUS
      <4>2. i \notin K
        BY <1>4, <4>1
      <4>3. QED
        BY <1>2, <4>1, <4>2
    <3>2. QED
      BY <3>1
  <2>2. Max(S) = 1
    <3> HIDE DEF S
    <3>1. S \in SUBSET Nat /\ 1 \in S /\ \A i \in S : i <= 1
      BY <2>1
    <3>2. QED
      BY <3>1, MaxIs
  <2>3. F[q] = M[Max(S)]
    BY DEF ForwardFill
  <2>4. 1 \in 1 .. Height /\ 1 \notin K
    BY <1>4
  <2>5. QED
    BY <1>2, <2>2, <2>3, <2>4
<1>5. BackwardFill(F)[r] = F[Min({Height} \cup Back)]
  BY DEF BackwardFill
<1>6. {Height} \cup Back \in SUBSET Nat
  OBVIOUS
<1> HIDE DEF F, Back
<1>7. ASSUME NEW m \in {Height} \cup Back, \A i \in Back : m <= i, m <= Height
      PROVE  BackwardFill(F)[r] = F[m]
  BY <1>5, <1>6, <1>7, MinIs
<1>8. ASSUME K = {} PROVE BackwardFill(F)[r] = NaN
  <2>1. \A q \in 1 .. Height : F[q] = NaN
    BY <1>4, <1>8
  <2>2. Back = {} /\ Height \in 1 .. Height
    BY <2>1 DEF Back
  <2>3. BackwardFill(F)[r] = F[Height]
    BY <1>7, <2>2
  <2>4. QED
    BY <2>1, <2>2, <2>3
<1>9. ASSUME NEW s \in K, Nearest(K, s, r) PROVE BackwardFill(F)[r] = <<c, s>>
  <2>1. CASE \E p \in K : p <= r
    <3>1. F[r] = <<c, s>>
      BY <1>3, <1>9, <2>1 DEF Nearest
    <3>2. r \in Back /\ (\A i \in Back : r <= i) /\ r <= Height
      BY <1>1, <3>1 DEF Back
    <3>3. QED
      BY <1>7, <3>1, <3>2
  <2>2. CASE ~ \E p \in K : p <= r
    <3>1. s \in 1 .. Height /\ (\A p \in K : s <= p) /\ r < s
      BY <1>9, <2>2 DEF Nearest
    <3>2. F[s] = <<c, s>>
      BY <1>3, <3>1
    <3>3. s \in Back
      BY <1>1, <3>1, <3>2 DEF Back
    <3>4. ASSUME NEW i \in Back PROVE s <= i
      <4>1. SUFFICES ASSUME i < s PROVE FALSE
        BY <3>1 DEF Back
      <4>2. i \in 1 .. Height /\ \A p \in K : p \in Nat
        <5>1. i \in r .. Height
          BY DEF Back
        <5>2. \A p \in K : p \in 1 .. Height
          OBVIOUS
        <5>3. QED
          BY <5>1, <5>2
      <4>3. \A p \in K : ~ p <= i
        BY <3>1, <4>1, <4>2
      <4>4. QED
        BY <1>4, <4>2, <4>3 DEF Back
    <3>5. QED
      BY <1>7, <3>1, <3>2, <3>3, <3>4
  <2>3. QED
    BY <2>1, <2>2
<1>10. QED
  BY <1>8, <1>9 DEF F


\* Any cell that is put at a place is the one its name asks for.
LEMMA CellsAreRight ==
  ASSUME ScalingInv, scaling = "transformed", NEW r \in 1 .. Height, NEW place \in DOMAIN names,
         NEW e \in RowCells(cells, ModeAction(testMode), r), e[1] = place
  PROVE  e[2] = IF names[place][2] = "is_nonzero"
                THEN <<"nonzero", names[place][1], cells[r][names[place][1]] = "plain">>
                ELSE <<IF KindOfColumn(names[place][1]) = "almost_constant" THEN "centered" ELSE "scaled",
                       TreatedCell(r, names[place][1])>>
<1> DEFINE action == ModeAction(testMode)
<1>1. /\ DOMAIN kind = DOMAIN columns /\ Planned = Len(columns)
      /\ DOMAIN columns = 1 .. Len(columns) /\ Height \in Nat \ {0}
      /\ \A f, g \in DOMAIN columns : columns[f] = columns[g] => f = g
  BY ScalingFacts DEF ScalingInv, LoopInv, Planned, ScalingTypeOK, NamesInv
<1>2. \A f \in DOMAIN columns : columns[f] \in 1 .. Width /\ kind[f] \in Kinds
  BY <1>1 DEF ScalingInv, ScalingTypeOK
<1>3. \A f \in DOMAIN columns : cells[r][columns[f]] \in {"plain", "odd", "hole"}
  BY <1>2 DEF ScalingInv, OutInv
<1>4. ASSUME NEW f \in DOMAIN columns PROVE KindOfColumn(columns[f]) = kind[f]
  <2>1. (CHOOSE g \in DOMAIN columns : columns[g] = columns[f]) = f
    BY <1>1
  <2>2. QED
    BY <2>1 DEF KindOfColumn
<1>5. \A q, f : <<columns[f], q>> # NaN
  BY DEF NaN
<1>6. \A f, q : Selected(cells, q, f) = OwnCell(q, columns[f])
  BY DEF Selected, OwnCell
\* The cells of the indicators
<1>7. CASE e \in IndicatorCells(cells, r)
  <2>1. PICK i \in DOMAIN zeroPlan.in :
          e = <<zeroPlan.out[i], Indicator(cells, plans["zero_inflated"].in[zeroPlan.in[i]], r)>>
    BY <1>7 DEF IndicatorCells
  <2>2. PICK f : f = plans["zero_inflated"].in[zeroPlan.in[i]]
    OBVIOUS
  <2>3. Names(place, f, "is_nonzero") /\ zeroPlan.in[i] \in DOMAIN plans["zero_inflated"].in
    BY <2>1, <2>2 DEF ScalingInv, IndicatorInv
  <2>4. f \in DOMAIN columns
    BY <1>1, <2>2, <2>3 DEF ScalingInv, GroupInv, Kinds
  <2>5. names[place][1] = columns[f] /\ names[place][2] = "is_nonzero"
    BY <2>3 DEF Names
  <2>6. (Selected(cells, r, f) # NaN /\ ~ Odd(cells, r, f)) = (cells[r][columns[f]] = "plain")
    BY <1>3, <1>5, <2>4 DEF Selected, Odd
  <2>7. Indicator(cells, f, r) = <<"nonzero", columns[f], cells[r][columns[f]] = "plain">>
    BY <2>6 DEF Indicator
  <2>8. QED
    BY <2>1, <2>2, <2>5, <2>7
\* The cells of a group
<1>8. ASSUME NEW k \in Kinds, e \in GroupCells(cells, action, k, r)
      PROVE  \E f \in DOMAIN columns :
               /\ kind[f] = k /\ names[place] = <<columns[f], "value">>
               /\ (\E i \in DOMAIN plans[k].in : plans[k].in[i] = f)
               /\ e[2] = <<Done(k), Value(cells, action, k, f, r)>>
  <2>1. PICK i \in DOMAIN plans[k].in : 
          e = <<plans[k].out[i], <<Done(k), Value(cells, action, k, plans[k].in[i], r)>>>>
    BY <1>8 DEF GroupCells
  <2>2. PICK f : f = plans[k].in[i]
    OBVIOUS
  <2>3. Names(place, f, "value") /\ f \in DOMAIN columns /\ kind[f] = k
    BY <1>1, <2>1, <2>2 DEF ScalingInv, GroupInv
  <2>4. QED
    BY <2>1, <2>2, <2>3 DEF Names
<1>9. (action = "none") <=> (testMode \/ extremeAction = "none")
  BY DEF ModeAction
<1>10. \A q, f : f \in DOMAIN columns =>
         (IsExtreme(q, columns[f]) <=> kind[f] = "extreme_vals" /\ Odd(cells, q, f))
  BY <1>4 DEF IsExtreme, Odd
<1>11. AnyMasked(cells) <=> \E q \in 1 .. Height, d \in ToSet(columns) : IsExtreme(q, d)
  <2>1. ASSUME AnyMasked(cells) PROVE \E q \in 1 .. Height, d \in ToSet(columns) : IsExtreme(q, d)
    <3>1. PICK q \in 1 .. Height, i \in DOMAIN plans["extreme_vals"].in :
            Odd(cells, q, plans["extreme_vals"].in[i])
      BY <2>1 DEF AnyMasked
    <3>2. PICK f : f = plans["extreme_vals"].in[i]
      OBVIOUS
    <3>3. f \in DOMAIN columns /\ kind[f] = "extreme_vals"
      BY <1>1, <3>2 DEF ScalingInv, GroupInv, Kinds
    <3>4. QED
      BY <1>10, <3>1, <3>2, <3>3 DEF ToSet
  <2>2. ASSUME NEW q \in 1 .. Height, NEW d \in ToSet(columns), IsExtreme(q, d) PROVE AnyMasked(cells)
    <3>1. PICK f \in DOMAIN columns : columns[f] = d
      BY DEF ToSet
    <3>2. kind[f] = "extreme_vals" /\ Odd(cells, q, f)
      BY <1>10, <2>2, <3>1
    <3>3. \E i \in DOMAIN plans[kind[f]].in : plans[kind[f]].in[i] = f
      BY <1>1 DEF ScalingInv, CoverInv
    <3>4. QED
      BY <3>2, <3>3 DEF AnyMasked
  <2>3. QED
    BY <2>1, <2>2
<1>12. ASSUME NEW f \in DOMAIN columns, kind[f] = "extreme_vals"
       PROVE  TreatExtremes(cells, action, f)[r] = TreatedCell(r, columns[f])
  <2>1. KindOfColumn(columns[f]) = "extreme_vals"
    BY <1>4, <1>12
  <2>2. CASE action = "none" \/ ~ AnyMasked(cells)
    <3>1. TreatExtremes(cells, action, f)[r] = Selected(cells, r, f)
      BY <2>2 DEF TreatExtremes, Raw
    <3>2. TreatedCell(r, columns[f]) = OwnCell(r, columns[f])
      BY <1>9, <1>11, <2>2 DEF TreatedCell
    <3>3. QED
      BY <1>6, <3>1, <3>2
  <2>3. CASE action # "none" /\ AnyMasked(cells) /\ action = "nan"
    <3>1. TreatExtremes(cells, action, f)[r] = IF Odd(cells, r, f) THEN NaN ELSE Selected(cells, r, f)
      BY <2>3 DEF TreatExtremes, Masked
    <3>2. extremeAction = "nan"
      BY <2>3 DEF ModeAction
    <3>3. TreatedCell(r, columns[f]) = IF IsExtreme(r, columns[f]) THEN NaN ELSE OwnCell(r, columns[f])
      BY <1>9, <1>11, <2>1, <2>3, <3>2 DEF TreatedCell
    <3>4. QED
      BY <1>6, <1>10, <1>12, <3>1, <3>3
  <2>4. CASE action # "none" /\ AnyMasked(cells) /\ action # "nan"
    <3>1. TreatExtremes(cells, action, f) = BackwardFill(ForwardFill(Masked(cells, f)))
      BY <2>4 DEF TreatExtremes
    <3>2. extremeAction # "nan"
      BY <1>9, <2>4 DEF ModeAction
    <3>3. TreatedCell(r, columns[f]) = FilledCell(r, columns[f])
      BY <1>9, <1>11, <2>1, <2>4, <3>2 DEF TreatedCell
    <3>4. PICK c : c = columns[f]
      OBVIOUS
    <3>5. PICK K \in SUBSET (1 .. Height) : K = Kept(c)
      BY DEF Kept
    <3>6. PICK M : M = Masked(cells, f)
      OBVIOUS
    <3>7. WithoutOthers(M, c, K)
      <4>1. ASSUME NEW q \in 1 .. Height
            PROVE  (IF Odd(cells, q, f) THEN NaN ELSE Selected(cells, q, f)) =
                   (IF q \in K THEN <<c, q>> ELSE NaN)
        BY <1>10, <1>12, <3>4, <3>5 DEF Kept, Selected
      <4>2. QED
        BY <3>6, <4>1 DEF Masked, WithoutOthers
    <3>8. /\ K = {} => BackwardFill(ForwardFill(M))[r] = NaN
          /\ \A s \in K : Nearest(K, s, r) => BackwardFill(ForwardFill(M))[r] = <<c, s>>
      <4>1. Height \in Nat \ {0}
        BY <1>1
      <4>2. K \in SUBSET (1 .. Height) /\ r \in 1 .. Height
        OBVIOUS
      <4>3. QED
        BY <3>7, <4>1, <4>2, FillIsNearest
    <3>9. CASE K = {}
      BY <3>1, <3>3, <3>4, <3>5, <3>6, <3>9, <3>8 DEF FilledCell
    <3>10. CASE K # {}
      <4>1. PICK s \in K : Nearest(K, s, r)
        <5>1. K \in SUBSET Nat /\ r \in Nat
          BY <1>1
        <5>2. QED
          BY <3>10, <5>1, NearestExists
      <4>2. SourceRow(r, c) = s
        <5>1. SourceRow(r, c) = CHOOSE q \in K : Nearest(K, q, r)
          BY <3>5 DEF SourceRow, Nearest
        <5>2. SourceRow(r, c) \in K /\ Nearest(K, SourceRow(r, c), r)
          BY <4>1, <5>1
        <5>3. K \in SUBSET Nat /\ r \in Nat
          BY <1>1
        <5>4. QED
          BY <4>1, <5>2, <5>3, NearestUnique
      <4>3. BackwardFill(ForwardFill(M))[r] = <<c, s>>
        BY <3>8, <4>1
      <4>4. QED
        BY <3>1, <3>3, <3>4, <3>5, <3>6, <3>10, <4>2, <4>3 DEF FilledCell
    <3>11. QED
      BY <3>9, <3>10
  <2>5. QED
    BY <2>2, <2>3, <2>4
<1>13. ASSUME NEW f \in DOMAIN columns
       PROVE  Value(cells, action, kind[f], f, r) = TreatedCell(r, columns[f])
  <2>1. CASE kind[f] = "extreme_vals"
    BY <1>12, <2>1 DEF Value
  <2>2. CASE kind[f] # "extreme_vals"
    BY <1>4, <1>6, <2>2 DEF Value, TreatedCell
  <2>3. QED
    BY <2>1, <2>2
<1>14. CASE \E k \in Kinds : e \in GroupCells(cells, action, k, r)
  <2>1. PICK k \in Kinds : e \in GroupCells(cells, action, k, r)
    BY <1>14
  <2>2. PICK f \in DOMAIN columns :
          /\ kind[f] = k /\ names[place] = <<columns[f], "value">>
          /\ e[2] = <<Done(k), Value(cells, action, k, f, r)>>
    BY <1>8, <2>1
  <2>3. names[place][1] = columns[f] /\ names[place][2] = "value" /\ KindOfColumn(columns[f]) = k
    BY <1>4, <2>2
  <2>4. e[2] = <<Done(k), TreatedCell(r, columns[f])>>
    BY <1>13, <2>2
  <2>5. QED
    BY <2>3, <2>4 DEF Done
<1>15. QED
  BY <1>7, <1>14 DEF RowCells

\* Every place is in a plan, so a cell is put there, and it is the right one.
LEMMA ScalingInvScales == ScalingInv => ScaledByName
<1> SUFFICES ASSUME ScalingInv, scaling = "transformed", NEW r \in 1 .. Height, NEW place \in DOMAIN names
             PROVE  out[r][place] =
                      IF names[place][2] = "is_nonzero"
                      THEN <<"nonzero", names[place][1], cells[r][names[place][1]] = "plain">>
                      ELSE <<IF KindOfColumn(names[place][1]) = "almost_constant" THEN "centered" ELSE "scaled",
                             TreatedCell(r, names[place][1])>>
  BY DEF ScaledByName
<1> DEFINE action == ModeAction(testMode)
           row == RowCells(cells, action, r)
<1>1. out[r][place] = Placed(row, place)
  BY DEF ScalingInv, OutInv, Transformed
<1>2. place \in 1 .. output - 1
  BY ScalingFacts DEF ScalingInv, LoopInv
<1>3. \E e \in row : e[1] = place
  <2>1. CASE \E k \in Kinds : \E i \in DOMAIN plans[k].in : plans[k].out[i] = place
    <3>1. PICK k \in Kinds : \E i \in DOMAIN plans[k].in : plans[k].out[i] = place
      BY <2>1
    <3>2. PICK i \in DOMAIN plans[k].in : plans[k].out[i] = place
      BY <3>1
    <3>3. PICK e : e = <<plans[k].out[i], <<Done(k), Value(cells, action, k, plans[k].in[i], r)>>>>
      OBVIOUS
    <3>4. e \in GroupCells(cells, action, k, r)
      BY <3>3 DEF GroupCells
    <3>5. QED
      BY <3>2, <3>3, <3>4 DEF RowCells
  <2>2. CASE \E i \in DOMAIN zeroPlan.in : zeroPlan.out[i] = place
    <3>1. PICK i \in DOMAIN zeroPlan.in : zeroPlan.out[i] = place
      BY <2>2
    <3>2. PICK e : e = <<zeroPlan.out[i], Indicator(cells, plans["zero_inflated"].in[zeroPlan.in[i]], r)>>
      OBVIOUS
    <3>3. e \in IndicatorCells(cells, r)
      BY <3>2 DEF IndicatorCells
    <3>4. QED
      BY <3>1, <3>2, <3>3 DEF RowCells
  <2>3. QED
    BY <1>2, <2>1, <2>2 DEF ScalingInv, CoverInv
<1>4. PICK e \in row : e[1] = place /\ Placed(row, place) = e[2]
  <2> HIDE DEF row
  <2>1. QED
    BY <1>3 DEF Placed
<1>5. QED
  BY <1>1, <1>4, CellsAreRight

\* Every column that is put out holds what its name says (fit,
\* _build_transform_plans and _transform_selected_array of data_transform.py), for
\* any number of rows and columns, whatever is dropped, of whatever kind the
\* columns are, and whatever is extreme or missing in them.
THEOREM ColumnsAreWhatTheySay == ScalingSpec => []ScaledByName
<1>1. ScalingInv /\ [ScalingNext]_scalingVars => ScalingInv'
  <2> SUFFICES ASSUME ScalingInv, [ScalingNext]_scalingVars PROVE ScalingInv'
    OBVIOUS
  <2>1. CASE ScalingNext
    BY <2>1, SelectStep, NameStep, PlanStep, TransformStep DEF ScalingNext
  <2>2. CASE UNCHANGED scalingVars
    <3>1. /\ scaling' = scaling /\ shape' = shape /\ extremeAction' = extremeAction
          /\ indicators' = indicators /\ columns' = columns /\ feature' = feature /\ output' = output
          /\ kind' = kind /\ names' = names /\ plans' = plans /\ zeroPlan' = zeroPlan
          /\ cells' = cells /\ testMode' = testMode /\ out' = out
      BY <2>2 DEF scalingVars, fitVars
    <3>2. ScalingTypeOK'
      BY <3>1 DEF ScalingInv, ScalingTypeOK, Height, Width
    <3>3. /\ \A p, f, role : Names(p, f, role)' <=> Names(p, f, role)
          /\ \A f : FirstRole(f)' = FirstRole(f)
          /\ Planned' = Planned
      BY <3>1 DEF Names, FirstRole, Shown, Planned
    <3>4. NamesInv' /\ LoopInv'
      BY <3>1, <3>3 DEF ScalingInv, NamesInv, LoopInv
    <3>5. IndicatorInv' /\ CoverInv' /\ \A k \in Kinds : GroupInv(k)'
      BY <3>1, <3>3 DEF ScalingInv, IndicatorInv, CoverInv, GroupInv
    <3>6. OutInv'
      <4>1. PICK x : x = cells
        OBVIOUS
      <4>2. PICK action : action = ModeAction(testMode)
        OBVIOUS
      <4>3. Transformed(x, action)' = Transformed(x, action)
        BY <3>1, Unmoved
      <4>4. cells' = x /\ ModeAction(testMode)' = action
        BY <3>1, <4>1, <4>2 DEF ModeAction
      <4>5. Transformed(cells, ModeAction(testMode))' = Transformed(cells, ModeAction(testMode))
        BY <4>1, <4>2, <4>3, <4>4
      <4>6. QED
        BY <3>1, <4>5 DEF ScalingInv, OutInv, Height, Width
    <3>7. QED
      BY <3>2, <3>4, <3>5, <3>6 DEF ScalingInv
  <2>3. QED
    BY <2>1, <2>2
<1>2. QED
  BY <1>1, ScalingInitInv, ScalingInvScales, PTL DEF ScalingSpec
=============================================================================
