# NoBoom Benchmark: TLA+ models and proofs

NoBoom Benchmark evaluates anomaly detection models on chemical-process
datasets. A *pair* is one dataset with one model; a controller submits a job
per pair to a Ray cluster, each job runs a Ray Tune study whose trials share
the GPUs of the cluster, and all of them share prepared datasets, an S3
bucket and a SeaweedFS store. This directory models the parts of that system
whose correctness depends on the order in which things happen, and those of its
algorithms that can be compared with a definition of what they compute. TLC
checks the models on small instances; TLAPS proves what matters most for all of
them.

Paths below are relative to `src/src/noboom_benchmark/noboom_lib/core/`
unless they begin with another directory.

## 1. The system's parts

### GPU allowlist actor (`tune/runtime_allowlist.py`, modelled)

A named Ray actor. State: the view of the cluster's GPUs, the operator's
allowlist, one lease per trial (reserved or active, with node, GPU, fraction
and owner job), a revision, and a JSON checkpoint of all that. Operations:
`initialize`, `acquire_lease`, `activate_lease`, `release_lease`,
`prune_dead_leases`, `apply_allowlist`. Callers: the trial schedulers, the
processes of the trials, the operator's `update_allowed.py`. Hard: callers
interleave, replies get lost, owners die, Ray restarts the actor. Correct
when leases never exceed a GPU, nobody has two, a removed GPU only drains,
and a restart forgets nothing.

### Lease-aware trial scheduler (`tune/runtime_allowlist.py`, `model_objectives.py`, partly modelled)

Wraps a Ray Tune scheduler. State: per trial its GPU fraction and base
resources, per job the owner id. It asks for a lease before a trial is
placed and returns it when the trial ends; `run_tune_trainable` activates
the lease and sets `CUDA_VISIBLE_DEVICES`. Hard: the operator, other jobs'
deaths and actor crashes between reservation and activation. Correct when a
process that pinned itself holds the lease of that GPU as long as it runs, unless
a listing of the live jobs that was cut short left its own job out.
`build_lease_aware_tune_scheduler` and `initialize_runtime_gpu_allowlist`
are called by tests only at this commit; activation and the operator's
update are on the live path.

### Maintenance lock (`tune/maintenance_actor.py`, modelled)

An async Ray actor, `SeaweedRWLock`: workers share it, maintenance of the
store takes it alone and has priority. State: the count of holders, of
pending maintenances, and whether one runs. Hard: coroutines woken together,
timeouts, a worker that dies inside, the actor lost and recreated. Correct
when maintenance is exclusive, nobody sleeps through the notification meant
for it, and everybody who waits gets through.

### Pair job controllers (`tune/job_submission.py`, modelled) and RAM guard (`tune/node_ram_guard.py`, partly)

`PairJobController.submit_jobs` keeps a window of Ray jobs in flight, polls
their states, hands what has ended to a one-thread executor that runs the
output callback, and lets the RAM guard stop jobs on overloaded nodes.
`LocalPairJobController` runs the pairs one after the other. State: the
iterator, the pending jobs, the executor's queue, the callbacks' errors, the
guard's cooldowns. Hard: two threads, calls on the cluster that raise, jobs
that end while others are handled. Correct when the window is kept and kept
full, every pair is reported once, and success means that all were.

### Prepared bundles (`data_prep/runtime.py`, `manifest.py`, `pipeline.py`, partly modelled)

`ensure_prepared_dataset_manifest` returns a bundle for a recipe's
fingerprint: from disk, from S3, or by building it, under a file lock per
storage root and a lock object in the bucket. Hard: nodes race, S3 calls
fail, answers get lost, processes are killed while they build or upload.
Correct when what is returned is whole, what is published is complete, locks
are not left behind, work is not done twice, and everybody ends.

### Study workflow and output callback (`tuning_runner.py`, `model_objectives.py`, `tune/pruning.py`, `tune/callbacks.py`, `tune/report_generation.py`, partly modelled)

The job of a pair searches hyperparameters (trials under Ray Tune or a local
loop), evaluates the best configuration over all seeds, or only does the
latter. Each time it knows something better it writes a snapshot to the pair's
`result.json`, to its study run in MLflow, and to a workbook that all pairs
share. When the job ends, `MlflowSeafilePairOutputCallback` in the controller
reads the result back and reports it. State: the trials, the best value, the
seeds done; the three copies. Hard: trials fail, are retried, stopped early;
the job may be stopped between any two writes or inside one; the evaluation
opens a second study run. Correct when the copies agree, nothing better than
the published result exists, and the report is the final result, or the last
one there was.

### Raw dataset assets (`data_prep/pipeline.py`, `webdav_utils.py`, partly modelled)

Before a bundle is looked for, `ensure_dataset_assets` brings the raw files of a
dataset to the node: the download, its conversion to Parquet, for some datasets
an extension directory, a directory of generated data, and a link that puts
that beside the rest. Then the sources are listed for the fingerprint, and read
once more for the bundle. State: these files and directories, and one lock
file. Hard: the lock is given up before the files are read; other calls force a
download, make the link anew or prepare the extension without it; half-written
files stay. Correct when what is recorded is what the bundle was built from,
unless another call or a fault got at the files, and when a copy that lacks
files is repaired.

### Seed training (`model_objectives.py`, `benchmark_utils/benchmark_model.py`, partly modelled)

`train_func` trains one seed of a trial: with generated data in two stages, a
synthetic one and a real one that begins with its weights. Each stage keeps a
`last.ckpt` on its node, from which a retried trial goes on; after its last epoch
it fits a detector on the network, and both score the test data. State: the
network and the detector in the process, the checkpoints on the nodes, the
results of the stages. Hard: kills and errors anywhere, a stage that had ended is
trained further, the two stages resume from attempts of their own. Correct when
the scores are those of a detector fitted on the network that is scored, and the
two stages belong together.

### Controller run and notices (`tune/orchestration.py`, `tune/notification_callbacks.py`, `notifications/`, `src/noboom_telegram_relay/relay.py`, partly modelled)

`run_tune` opens a controller run in MLflow, hands the pairs to a controller, closes
the run and returns 0 or 1. On the way it announces itself, each pair and its own
end; a dispatcher gives every notice to e-mail and to the Telegram relay, a
server that keeps in a table which chat follows the link of which benchmark and
forwards the text. State: the run in MLflow, the two threads that send, the
relay's requests, one thread each, and its table. Hard: a call on MLflow that
raises may have been done; a caller gives up while the relay still works on its
notice; the relay restarts. Correct when exit code, MLflow and the last notice
agree, and a reader is told things in the order in which they happened.

### Upload and cleanup (`tune/callbacks.py`, `tune/storage.py`, modelled)

After the report of a pair that succeeded, the callback uploads the best
configuration, the score table and an archive of all runs to Seafile, and deletes
the checkpoints of the pair. Hard: every call may fail; one that fails
in rclone is only logged. Correct when checkpoints go only after the archive that
holds them was sent.

### Prepared dataset files and scaling (`data_prep/pipeline.py`, `benchmark_utils/arrow_runtime.py`, `benchmark_utils/data_transform.py`, partly modelled)

What a build puts into a bundle. `MixedRobustPreprocessor` gives every column a
kind, handles the columns of a kind together and puts them back by lists of
places; `_export_mode_manifest` writes the scaled sequences of a mode as record
batches of bounded size; `ArrowSequenceDataset` maps the files and finds each
sequence by its length and the number of features alone. Hard: dropped columns,
indicators, batches that end anywhere, sequences without a step. Correct when
every output column holds what its name says and every sequence reads back as
it was written.

### Styled predict cache (`benchmark_utils/benchmark_dataset.py`, `model_objectives.py`, partly modelled)

Trials on a node that predict on style-transferred test windows share one file
of them. State: the file, one temporary file per process, a file lock. Hard:
trials meet, are killed in between, and find files that cannot be read. Correct
when the windows are styled once and nobody sees half a file.

### Evaluation algorithms (`metric_utils/`, partly modelled)

Functions on scores and labels: the alarm score; `select_threshold`, which sweeps
all thresholds and keeps the score up to date point by point with disjoint sets
and a Fenwick tree; the postprocessing that smooths scores causally and turns
them into alarms with hysteresis; the coordinate search over its parameters.
Hard: each keeps incremental state that is a second version of a simple
definition. Correct when the two agree.

### Prediction stream (`benchmark_utils/prediction_stream.py`, modelled)

Windows arrive in batches of any size; four policies keep as few rows as they
can and call a detector that was written for a whole series. Correct when the
scores are those of one call on the whole series.

### Row alignment of the benchmark models (`benchmark_utils/benchmark_model.py`, `benchmark_helpers.py`, partly modelled)

Scores of several sequences arrive in one piece; windows and horizons leave rows
without one. Before the evaluation they are padded (or the labels cut) and
separators put between sequences. Correct when each score stands beside the
label of its row.

### Cluster lifecycle and validation (`src/noboom_cluster/noboom_cli_lib/`: `ray_lifecycle.py`, `ray_utils/job_lifecycle.py`, `cluster_validation.py`, partly modelled)

`run_cluster_job` probes the job server, starts or updates the Ray cluster,
waits until every node of the inventory is in it, stops other campaigns if
asked, submits the campaign, and after a failure tries once more with private
addresses. State: the cluster's nodes and Ray's table of them, the campaigns,
the configuration in force. Hard: nodes come and go, probes time out, answers
get lost, the second attempt meets what the first left. Correct when a campaign
only starts on a whole cluster, and alone if that was asked.

### Native bootstrap (`src/scripts/bootstrap_native_remote.py`, partly modelled)

Prepares one root directory on a node without containers: install, reinstall
over a recorded state, rotation of the database password, uninstall. State: the
paths below the root, a JSON file that lists those the script made, the managed
PostgreSQL, the passwords in the env files. Hard: any stage may raise, any call
be killed, and paths of the user lie between those of the script. Correct when
what the script made is listed, what is removed was the script's, and a rotation
leaves one password everywhere.

### Not modelled

| Part | Why |
|---|---|
| Notices of the trials | each pair job sends its own, with the same dispatcher |
| Shared cache (`tune/dataset_helper_actors.py`, `shared_cache.py`, `cache_service.py`) | nothing in the repository but tests starts the services or calls `get_dataset_data`: how its parts are used, which a model would have to follow, is nowhere written |
| Stages of the dataset pipeline other than those above | functions from tables to tables |
| `metric_utils/threshold.py`, the sampler, models, transforms | floating-point computation: quantiles, distances, gradients |
| MLflow logging and reports | calls on a service and tables of its answers |
| Node scripts (`stop_by_pgrep_regex.py`, `setup_env.py`, ...) | set-up of one machine; what can go wrong lies in the process table, not in the steps |
| Front end of the bootstrap, rendering of cluster files, figures, images | text in, text out |

## 2. The modules and the code

Two modules are abstract specifications, twenty-three are read off the code, eight
hold proofs, and `Concatenation` has two operators that others share. An `MC` module
fixes constants for TLC and, where it says so, composes.

| Module | Stands for | Uses |
|---|---|---|
| `RuntimeGpuAllowlist` | the lease actor | |
| `TuneTrials` | jobs, their schedulers and their trials' processes around the actor | extends `RuntimeGpuAllowlist` |
| `SharedExclusiveLock` | the promise of the maintenance lock | |
| `SeaweedRWLock` | the lock actor with its coroutines | implements `SharedExclusiveLock` |
| `PairCampaign` | the promise of `submit_jobs` | |
| `PairJobs` | the Ray controller, its callback thread, the RAM guard | implements `PairCampaign` |
| `LocalPairJobs` | the local controller | implements `PairCampaign` |
| `PairStudy` | the job of a pair and its output callback, for the pairs of one model | |
| `PreparedBundle` | `ensure_prepared_dataset_manifest` on several nodes | |
| `PairUpload` | `_sync_pair_outputs`, `_cleanup_pair_artifacts` after the report of one pair | |
| `DatasetAssets` | calls of `ensure_dataset_assets` and of what reads the files after it, on one node | |
| `SeedTraining` | `train_func` for one seed of a trial, over all its attempts | |
| `TelegramRelay` | the relay's threads and table, and the threads that post | |
| `ControllerRun` | `run_tune` with the notices of a controller run | extends `TelegramRelay`; knows its controller as `PairCampaign` |
| `FeatureScaling` | `MixedRobustPreprocessor`, `fit` and `transform` | |
| `ArrowBundle` | the sequences of a mode from the source through the files and back | `Concatenation` |
| `Concatenation` | sums from place to place, sequences put one behind another | |
| `StyledPredictCache` | the trials of a node around the cache of styled windows | |
| `AlarmScore` | `alarm_score`, as a definition over sets | |
| `SweepIndex` | the disjoint sets and the Fenwick tree of `select_threshold` | extends `AlarmScore` for the points |
| `AlarmSweep` | `select_threshold` | extends `SweepIndex`; `AlarmScore` is its reference |
| `PredictionStream` | the four streaming policies | |
| `RowAlignment` | `on_predict_epoch_end`, `pad_each_subsequence` | `Concatenation` |
| `EventPostprocessing` | smoothing, hysteresis, merging of alarms | `Concatenation` |
| `PostprocessingSearch` | the coordinate search | |
| `ClusterBringUp` | `run_cluster_job` with start, validation, submission, fallback | |
| `NativeBootstrap` | the bootstrap script on one root | |
| `TuneActors_proof` | theorems on the lease actor, the trials around it and the maintenance lock | extends `TuneTrials`, `SeaweedRWLock` |
| `PairStudy_proof` | theorems on a study and its callback | extends `PairStudy` |
| `PreparedBundle_proof` | theorems on the installation of bundles and on what is read from them | extends `PreparedBundle`, `ArrowBundle`, `Concatenation_proof` |
| `Evaluation_proof` | theorems on streams, events and alignment | extends `PredictionStream`, `EventPostprocessing`, `RowAlignment`, `Concatenation_proof` |
| `Concatenation_proof` | lemmas on numbers, sequences, sums and concatenations | extends `Concatenation` |
| `PairJobs_proof` | theorems on both controllers | extends `MCPairJobs` |
| `PairPrograms_proof` | theorems on the programs that run for a pair | extends `SeedTraining`, `StyledPredictCache`, `PairUpload`, `PostprocessingSearch`, `ControllerRun`, `FeatureScaling` |
| `HostPrograms_proof` | theorems on the programs that prepare machines | extends `ClusterBringUp`, `NativeBootstrap`, `DatasetAssets` |
| `MCActors` | the two named actors, each under its callers | extends `RuntimeGpuAllowlist`, `SeaweedRWLock` |
| `MCPairJobs` | both controllers one after the other, on the same pairs | extends `PairJobs`, `LocalPairJobs` |
| `MCProcesses` | the programs beside the campaigns and around them, `PairUpload` to `NativeBootstrap` | extends them |

**What a step is.** A Ray actor runs one method at a time, so a method of the
lease actor is one action, its final `_save_state` included; a crash falls
between methods (`Crash`) or into the write of the checkpoint (`CrashInSave`).
The lock actor is asynchronous: there a step is what a coroutine does between
two awaits, and `notify_all` only makes waiting coroutines *ready*; each looks
at its predicate when the loop resumes it, in any order. The pair controller
yields to the cluster and to its callback thread at every call on the job
client and at every executor operation, so each of those is a step, and so is
each S3 call and each file a bundle build writes.

**`RuntimeGpuAllowlist`.** `clusterNodes`, `allowed`, `leases`, `revision` are
`_cluster_nodes`, `_allowed`, `_active_leases`, `_revision`; `checkpoint` is
`runtime_gpu_allowlist.json`; `actor` is the process (up, down until Ray
restarts it, dead when it can no longer start). GPU fractions are counted in
units, `Full` to a GPU, so the tolerance of 1e-6 in
`_choose_lease_candidate` never decides. Device lists are sets;
`ApplyAllowlist` is told whether the order of a list changed, because the code
compares lists. Ties between equally loaded GPUs are broken by node order in
the code and by any choice in the model. `AcquireLease` is the whole method:
prune what dead jobs left (unless the listing of jobs failed), answer with an
existing lease, drop a revoked reservation, pick a GPU, record, save.

**`TuneTrials`.** `phase` is where the Tune controller has a trial; `device`
is what `CUDA_VISIBLE_DEVICES` of its process names. `ChooseTrial` is
`choose_trial_to_run`, `StartTrial` the head of `run_tune_trainable`, `EndTrial`
and `RetryTrial` the scheduler's callbacks with a release that may fail.
`LoseChoice` and `LoseActivation` are calls the actor executed and whose reply
never arrived; the caller repeats them. Both take the listing of the jobs as
`_list_live_job_ids` does: it may fail, and one that answers may be any set of jobs,
since Ray truncates it at a default limit and `raise_on_missing_output=False`
accepts a partial one. `overlooked` remembers the processes whose live owner such a
listing left out. What Ray Tune may do with a trial
(place, pause, retry, end) is external. A paused trial keeps its lease, because
no callback of the scheduler returns it.

**`SeaweedRWLock`.** `worker` and `upkeep` are the program counters of the
coroutines; `holders`, `active`, `pending` the three fields of the actor.
`AcquireTimesOut` and `MaintenanceTimesOut` are `asyncio.wait_for` giving up.
`LoseActor` is the loss of the actor and its recreation by
`get_or_create_maintenance_actor`: the counters are zero again, callers inside
its coroutines get an exception, and workers it had admitted are *stale*.

**`PairJobs`.** `main` is the place in `submit_jobs`, `next`, `pending` and
`finished` its locals, `queue` the executor's work, `outcome` the recorded
callback errors, `job` the cluster's view, `targets` and `asked` the guard's
batch and its cooldowns. Every call on the job client may raise; a submission
that raised may still have started its job. `LocalPairJobs` is the loop of
`LocalPairJobController`.

**`PairStudy`.** `stage` says where the job of a pair is, `trial`, `best` and
`tally` are what its process knows (`EndJob` forgets them), `studies` the study
runs in MLflow, `file` and `workbook` the other copies; `report` is what the
callback returned. `Persist` is `_persist_pair_snapshot`, `written` numbers its
calls, so that properties can speak of the latest. A job does nothing that
others see but start studies and write snapshots; so a result of a trial and the
snapshot it leads to are one step, and a stop inside it is another:
`PersistUpTo` ends the job after any prefix of the three writes, with a torn
file or workbook where the write is in place. `Results` and `AfterResult` are
what Ray or the local loop may hear next: Ray of each seed, with an early
stop after any, the local loop of the whole trial. `TrialFails` is Ray's retry
(`FailureConfig(max_failures=3)`). `mode`, `finalEval` and `outages` are
chosen once: the kind of campaign, whether the search uses fewer seeds than an
evaluation that follows it, and whether MLflow may fail to answer. The callback
is `JobTerminal`, or `JobTerminalRaises`. `BaseName` is the dataset's name
without `_tsst`, under which the study runs are tagged.

**`PreparedBundle`.** One fingerprint. `pc` is the place of each call in
`ensure_prepared_dataset_manifest`, `held` the file locks, `files` and
`manifest` what lies under each storage root, `remote`, `published`, `lock`
the bucket. `listed` remembers that a download's listing contained the lock
object: it lies under the same prefix, and its holder deletes it. A build may raise in any of its
steps, in the writing of the manifest too, which then stays torn. `Faults` says
what may go wrong in a run, and `seen` is a history variable of what did, so
that each property can say until which fault it promises something.

**`DatasetAssets`.** `at` is the place of each call in `build_preparation_recipe` and
below it; the places in `Locked` are those under `dataset_download.lock`. `csv`,
`parquet`, `support`, `generated` are the directories of the cache, each absent,
half or whole, and `linked` is the link to the generated data. A copy or a
conversion is begun in one step and finished in another, and in between the call
may raise or be killed. An extension directory without its styled file is removed
and made anew, though it was only half there because another call was copying it. `marred` are the places that such an end left half
written, `disturbed` the calls under whose eyes somebody removed a file;
`found` is what the fingerprint recorded as whole, `taken` what the bundle read
as whole.

**`SeedTraining`.** `seedAt` and `onStage` are the place in `train_func`; `network`
names weights by a number that is new after each epoch, `origin` the weights that a
stage began with, `detector` the network and the stage a detector was fitted on. `last`
are the `last.ckpt` of the nodes. `TrainEpoch`, `ValidateNetwork` and
`EndTraining` are what Lightning calls; how often it validates and when it stops
early is any choice. `LeaveTraining` is the `finally` that removes the runtime
checkpoints where none are kept. `Retry` starts the next attempt, on any node.
`reopened` remembers the nodes on which a synthetic stage that had stopped early was
trained further.

**`PairUpload`.** `upload` is the place in `on_job_terminal`, `tries` counts the
three attempts; `downloaded` are the runs downloaded so far and `fetched` those whose
files are still in the temporary directory: `gather_runs` names a directory by its
run (`named`), and `rclone sync` removes what another run of that name left there.
`allRuns` is what the archive
in Seafile holds, `checkpoints` what the runs still have. `unheard` is set by an
rclone call that failed and was only logged.

**`ControllerRun`, `TelegramRelay`.** `runAt` is the place in `run_tune`; `lineage`,
`inProcess` and `sinks` are settings. The controllers are not repeated: `Launch`,
`JobOver`, `CalledBack` and `Judge` take the steps of `PairCampaign` (which
`PairJobs` and `LocalPairJobs` implement), together with what their threads wait
for: the main thread for its own notices and for the executor's last callback, and
under the local controller for everything. `outbox` is what a thread has yet to
dispatch, in order, and `mailed` says that its first notice has been through the
e-mail sink and goes to Telegram next. `Track` is a call on MLflow, done or not
when it raises. In the relay, `requests` holds the chat a handler has found,
`awaiting` the notice whose answer a thread waits for; `TimeOut` is the caller's,
of which the handler does not learn. `lost` and `givenUp` remember what went wrong
for which notice.

**`FeatureScaling`.** `columns`, `names` are `feature_names_in_` and
`feature_names_out_`; `plans` and `zeroPlan` are the lists of input and output
places that `fit` prepares and `transform` uses. The two loops, of `fit`
(`NameColumn`) and of `_build_transform_plans` (`PlanColumn`), take a step per column;
`feature` and `output` are where they are, in the columns and in the places. What the statistics say of a
column (its kind) and of a cell (plain, extreme, missing) is left open; the
properties need where a value comes from and what was done to it, and so a cell
that comes out is named by its row, its column and its treatment. `testMode` is
the export of the test, which passes `extreme_action="none"`.

**`ArrowBundle`.** A value is named by sequence, step and column. `Trim` is the cut
of synthetic data to `gen_to_org_factor` times the real length, `Split` the
batching by `ARROW_EXPORT_TARGET_BATCH_BYTES`, `Export` the writing of a batch with
what it raises, `Open` the reader's checks and its table of places; `Pickle` is
the second reader a data loader's worker makes.

**`StyledPredictCache`.** `trial` is the place in
`enable_styled_predict_cache`; `load` is its argument, false before the training
and true before the prediction; `override` what the trial then predicts on. The
lock is the kernel's and dies with its holder (`KillTrial`). Damage of the cache
file is external (`Damage`).

**`AlarmSweep`.** A step is a batch of equal scores (`NextBatch`), then each point
of it (`VisitPoint`), then the score of the threshold (`ScoreBatch`). The
disjoint sets and the tree are the arrays of the code, and `SweepIndex` has its
operations on them: `Find`, which moves each point up to its grandparent, `Union` by size, the descent of
`FindByOrder`. The end and the first hit of a segment, and the points a hit
suppresses, are read from these arrays and from nothing else. All counters of the
code are variables. `AlarmScore` computes the same number
from nothing, over sets of points.

**`PredictionStream`.** `Add` is `update`, `Finalize` `finish`, the `Emit` actions
the calls on the detector. Under the atomic policy the batches wait in `pending`, and
`TakeBatch` takes one of them, or what is missing of it, towards the next chunk. A score is what the detector saw, so that two scores
are equal when it saw the same rows. A row outside the buffer would be seen as
such.

**`RowAlignment`, `EventPostprocessing`, `PostprocessingSearch`.** Rows, scores and
settings are named by their places. The first two compute step by step what the
loops compute; the averages are exact in units of `1 / Scale`, where `Scale` is a power of the
span plus one (`Parts`). The queue
of the rolling maximum loses those not above a new score at its end (`Pushed`), then those
out of the window at its front (`Queue`). A candidate of the search
is named by its place among those of its parameter, the value there is before by
place 0 (`Candidates`, `With`), and the queue is the set of places not tried yet.
How a setting ranks is any function of the settings.

**`ClusterBringUp`.** `bringUp` is the place in `run_cluster_job`; `cluster` the
plan of addresses the cluster was started with; `members`, `short`, `table` the
nodes in it, those that lack GPUs, and Ray's table, which keeps the rows of nodes
that left. Any call may raise. `Submit` may lose its answer after the head took
the campaign.

**`NativeBootstrap`.** `paths` says who made each path; `made`, `doomed` are what the
script has listed and what it has yet to remove, as sets, since the script lists
and removes in one of two fixed orders (`Listed`, `Recorded`, `IsNext`);
`stateFile` is none, torn or whole, with the two lists it records. A removal of a path, the making of one, each write of
a file and each order to the database is a step, and `Kill` falls between any
two, or inside the write of the state file. `pg_ctl stop` may fail without anybody
looking (`StopServices`, `unstopped`), and the directory is then removed under the server.

**`MCProcesses`.** Fourteen programs that share no state. `atWork` names the one that
works while the others rest in one of their states; since no property
speaks of two of them, every behaviour of each is among those of the whole.
`MCActors` is composed in the same way, and
`MCPairJobs` lets the local controller run the pairs after the Ray
controller is over.

## 3. What the runs check

All numbers are distinct states; a violating run stops at its first one.

| Run | Instance | Shows |
|---|---|---|
| `actors` (45,891) | lease actor: 2 nodes, one of which comes and goes, 2 GPUs, 2 trials, fractions 1/2 and 1, 5 operator requests, 3 revisions; lock: 3 workers, one mortal, one with a time limit, 2 maintenances, one with a time limit, 1 loss of the actor | capacity and one lease per trial, no revoked reservation, checkpoint never behind, removed GPUs only drain; the lock's refinement, and every call gets through |
| `tune_trials` (105,032) | 1 GPU, 3 trials of 2 jobs, one asking for a whole GPU, any set of jobs as a listing, 3 revisions | a pinned process holds its lease; the pinned load fits the GPU, both but for overlooked jobs; nothing starts on a GPU taken away before; leases of dead jobs are reclaimed |
| `seaweed_lock_stale` | the lock as above, both maintenances timed | violation: maintenance beside workers the lost actor let in |
| `pair_jobs` (53,662) | 4 pairs, window of 2, one thrashing job, calls that raise; then the same pairs locally | window kept full, both refinements, the end |
| `pair_study` (49,802) | 1 pair, 2 trials, 2 seeds each, 2 full seeds, 1 retry, 2 scores; Ray, local and single train; a workbook others may tear | the copies agree, no better trial goes unpublished, the report is at most one snapshot behind, a success is final, every started pair is reported |
| `pair_study_variant` | a dataset and its synthetic variant, 1 trial of 1 seed | violation: the callback of one reports the result of the other |
| `bundle` (209,508) | 2 calls on one root, 1 on another, 2 data files, all faults | complete publications, whole bundles, one builder at a time, no lock left behind, every call ends |
| `bundle_torn` | as above, with kills only | violation: a torn manifest is returned |
| `processes` (1,941,309) | see the next table | each of the fourteen programs does what its definition says |
| `evaluation_alignment` | as `RowAlignment` below | violation: scores away from their labels |
| `sweep_exceeded` | as `AlarmSweep` below, 3 points | violation: the points above the threshold have another score |
| `cluster_fallback` | as `ClusterBringUp` below | violation: the fallback changes nothing |

Within `processes`:

| Program | Instance | Shows |
|---|---|---|
| `FeatureScaling` | 3x1, 2x2 and 1x3 cells, all kinds, all cells, all options | `ScaledByName`: each output column is what it is called; extreme values are filled as written down column by column |
| `ArrowBundle` | 3 sequences of up to 2 steps, 1 or 2 features before and after, batches of 7 values | `BundleHoldsSource`: every sequence reads back, or the reader refuses the mode |
| `StyledPredictCache` | 3 trials, 2 losses | `BuiltOnce`: one builder, nothing built twice, nothing half-written seen |
| `DatasetAssets` | 2 calls, 1 dataset, 3 requests, 1 fault | `UndisturbedGetsItsFiles` |
| `SeedTraining` | 1 node, 4 and 3 epochs, a validation every 2, 4 attempts | `ScoredByItsDetector`, `RealFromScoredSynthetic` |
| `PairUpload` | 3 runs with 3 names, which they may share, 3 tries, every call failing or not | `DeletedIsArchived` |
| `ControllerRun` | 2 pairs, both in flight or one after the other; on Ray with MLflow and Telegram, locally without MLflow but with both sinks; one chat; one error or timeout | `ToldAsItWent` |
| `AlarmSweep` | 5 points, all labels, all orders of their scores with up to three different ones | `SweepIsExact` |
| `PredictionStream` | 32 policies, 9 rows, batches of up to 4 | `StreamEqualsWhole` |
| `RowAlignment` | 3 sequences of up to 5 rows, horizon up to 2 | `OnlyFirstScoresStray`: what is right about the alignment, and the one thing that is not |
| `EventPostprocessing` | 5 points, 2 finite scores and gaps, 7 settings with spans 1, 2, 3 and the default 25, any threshold | `AlarmsAreEvents`: scores are causal, alarms are whole events |
| `PostprocessingSearch` | 2 parameters, 4 ranks, 2 rounds, 3 starts | `SearchIsLocallyBest` |
| `ClusterBringUp` | 2 workers beside the head, forced and exclusive calls, an earlier campaign | `SubmitsToWholeCluster`, `RunsAloneIfAsked` |
| `NativeBootstrap` | 2 paths of the user, 1 kill, any stage raising, any stop of the database failing | `RootIsOwned`, `UserPathsKept` |

**Why the bounds are enough.** *Leases*: an overbooking takes two leases on one
GPU, a revocation two allowlists that differ, a drain followed by a new
grant three; two trials with fractions 1/2 and 1 give every comparison with the
capacity its two outcomes, and the second node makes allowlist entries unknown
and known again. `TuneTrials` needs a job that survives and one that dies, two
trials of one job that compete, and one of the other. *Lock*: the races are
between one who leaves, one who enters and one who waits; the third worker and
the second maintenance make sure that a wake-up meant for one can reach
another. *Pairs*: with four pairs and a window of two, both slots are refilled,
one poll can find both jobs ended, and the campaign's tail runs with a
part-empty window. *Bundles*: two calls race for a file lock, two roots race for
the lock object, and two files distinguish a partial upload from none and from
all. *Study*: two trials can overtake each other, two seeds let the same trial
get better, worse, or be stopped between them, and one retry makes the last
result of a trial older than its run. One pair is enough for what happens within
it; what others do to it is the workbook they may tear, and the name they may
share, which has a run of its own. A fourth call on a third root was run once (3.7 million states, same
verdict) and is not kept, for its time.

*Sweep*: five points hold two anomalies with a gap, an alarm that crosses the
border of one, ties within and across them, sets joined by a point between them,
so that some points have a grandparent, and a tree of a length that is no power
of two. *Stream*: windows of up to 4 and
chunks of up to 3 end inside, at and beyond batches of up to 4, and 9 rows let
the buffer be cut more than once. *Alignment*: a first, a middle and a last
sequence, some as short as their window. *Postprocessing*: five points are two
runs with a gap, or one in which an alarm starts, ends and starts again.
*Search*: with two parameters a round can undo what the first parameter gained; a
start may lie outside the candidates of either.
*Scaling*: one shape each for filling down a column, for two columns of one kind, and
for columns of several kinds whose places are interleaved. *Files*: 7 values is a
batch that neither one nor two features divide. *Cache*: one builds, one waits
for the lock, one arrives later. *Assets*: one call reads while the other holds the lock; the three
requests are the dataset with its generated data, with its extension, and a name
nobody knows, which is what forces a download; one fault is what the calls after it meet. *Seed*: the last epoch of
the first stage is validated, that of the second is not; four attempts are as many
as the code allows. *Upload*: a partial
download differs from none and from all. *Cluster*: with two workers one can leave while the
other is checked. *Bootstrap*: an auxiliary directory that contains another, and a
path that is core only on heads, either of which somebody else may have made. *Controller run*: two
pairs give callbacks that queue, and a second notice that can overtake the
first; the chat may follow the link in the middle.

`MaxRevision`, `MaxCrashes`, `MaxKills`, `MaxLosses` and `MaxUpsets` cap counters that nothing
compares except for equality or order with their own past. Symmetry is used nowhere.

**Deadlock** is not checked, because every modelled system may stop: an actor
whose checkpoint is torn is dead for good, `submit_jobs` returns, calls end,
algorithms finish, and clients of the lock are free not to call. Who may *not*
stop is said by the liveness properties instead.

**Mutants.** Next to the definitions, operators marked `Mutant:` are variants
with a plausible bug (no priority for maintenance, a slot not refilled, a
manifest opened too early, a column's place counted twice, a cache built without
the lock). Each property of a passing run fails under at least one of them;
none is part of a specification.

## 4. Fairness, and what justifies it

* `TuneTrials`: the Tune controller's event loop keeps calling
  `choose_trial_to_run`, the job listing answers again and again although it may
  fail in between (strong fairness of a choice with a listing), and Ray restarts
  the actor (`max_restarts=-1`). Nothing obliges trials to end or jobs to die.
* `SeaweedRWLock`: the event loop resumes what is ready, `worker_lock` leaves in
  `__exit__`, timers fire, and the maintenance shell returns because it has a
  timeout. Nobody is obliged to call, and a mortal worker may never leave: the
  liveness properties except the one situation that cannot end, an untimed
  maintenance waiting for a dead worker (`Stuck`).
* `PairJobs`: the loop and the callback thread go on, jobs end unless they
  thrash, cooldowns expire. Of a thrashing job it is assumed that the guard
  finds its node hot again and again, and that of infinitely many stop requests
  one takes effect (strong fairness): that is the guard's purpose, and without
  it the code does not promise an end.
* `LocalPairJobs`: runners and callbacks return or raise.
* `PairStudy`: a job goes on with its work, however its trials end, and the
  controller runs the callback of each job that ended (`PairJobs` shows that it
  does). Nothing makes jobs be stopped or the workbook be torn.
* `PreparedBundle`: a call goes on with its next step, and a file lock that is
  free is taken. No fairness favours success over failure.
* `AlarmSweep` states that its loop goes on; the properties of `processes` are all
  about safety, and the other programs there state no fairness.

## 5. What is proved

The theorems hold for all values of the constants that satisfy the assumptions
declared in the modules: finitely many trials, fractions and capacity as
positive integers, any jobs and operators; finitely many workers and
maintenances; finitely many clients and files, any assignment of calls to roots,
any set of faults; any trials around a cache, any inventory of a cluster, any numbers of epochs,
attempts and nodes for a seed; any number of pairs, any positive `max_in_flight`, any
jobs that thrash, calls that raise or not; any pairs, names, trials, seeds and scores of a
study; any order, candidates and ranking of the parameters of a search; any paths of a
user and any number of kills; any requests and calls on the raw assets; any policies of a
stream, with batches of any size; any length, scores, settings and thresholds of the
postprocessing; any sequences, windows and horizons of an alignment; any sequences, widths
and batch size of a bundle. Three
assumptions are about names only: `MarkAssumption` keeps the marks for nothing and
for a torn workbook apart from results, `ControllerAssumption` the controller's
notices from those of the pairs, and it says that there are the two threads that send;
`BootstrapAssumption` says that a user's paths are among those the script knows.

**Lease actor.** The inductive invariant `IInv` is `TypeOK` and `Sound` of the
lease table, *and of the table a restart would load*: finite, keyed by trial,
within capacity, reservations on allowed GPUs. Capacity alone is not
inductive, since a restart replaces the table by the file's, and it would not
stay within capacity without knowing that the recorded tables are sound and that
file and memory agree. `Sound` survives each of the ways a table changes, one
lemma each: leases dropped (`SoundSubset`), allowlist replaced and reservations
dropped with it (`SoundRevoked`), a grant where a candidate was found
(`SoundGrant`, by counting units, `UsageAdd`), an activation (`SoundActivate`).
`AcquireIInv` shows that the reservation that `acquire_lease` drops without
saving never exists: it would be revoked, and reservations never are. From `IInv` follow
`TypeCorrect`, `CapacityRespected`, `ReservationsStayAllowed` and
`RestartLosesNothing`. `LeasesStep` sorts every step into the three kinds,
from which the action properties `RemovedGpusDrain` and `UpdatesSpareActive` follow;
the latter is proved and not run.

**Trials around the actor.** `TrialsIInv` adds to `IInv` that a lease belongs to
the job of its trial or to nobody (`KinInv`) and that a pinned process has its
active lease, unless its live owner was overlooked (`HeldInv`). Both speak of the table the checkpoint holds: while the
actor is down there is no other, and it is the one that comes back. `TableStep(S)`
says what a step may do to that table, namely end leases of the trials in `S`, of
dead and of overlooked jobs, and reservations; one lemma per kind of step shows it (`AcquireTable`,
`OwnTable`, `OperatorTable`), with `MethodTable` for everything a live actor does.
`HeldAfter` concludes for the processes that go on, `HeldAtStart` for the one that
begins, which `StartEffect` shows to hold an active lease on an allowed GPU. From it
follow `ProcessHoldsItsLease` and `StartsWhereAllowed`. `LoadWithinCapacity` maps the
units that the pinned processes ask for one to one to units of the leases
(`LoadFits`); it has to be a part of the invariant, since after a torn checkpoint
there are processes and no table.

**Lock.** `LockImplemented` is the refinement: each step of the coroutines is one
of `SharedExclusiveLock` or none. It needs that the actor's counters count the
clients that are where the counters say, among those who are not stale: a worker
that enters while no maintenance pends must find that nobody maintains.

**Pair controller.** `CampaignImplemented` is the refinement of `PairCampaign` by
`PairJobs`, `SlotsStayFull` says that a slot is refilled at once. The invariant counts
and places. `SlotInv` gives the number of pairs waited for at each place of the loop:
exactly the limit wherever a pair is left to submit. `PairInv` says where a pair
drawn is: waited for, in the queue of the callbacks, or reported, and nowhere twice,
which needs `NoneTwice` for the queue; and that the jobs that run are among those
waited for, until a submission raises. So `Reap` has room on the cluster for the pair it
submits (`Launches`), and `Drain`, which comes with nothing pending or queued, finds a
result for every pair. One lemma per action maps it to a step of the
campaign; what the guard asks to stop is running before and after (`QuietImplements`).
`LocalCampaignImplemented` is the same refinement by `LocalPairJobs`: `LocalInv` counts
the statuses returned, one for each pair before the one at work, so that
exactly that pair is at a stage between launch and report (`AtItsPair`), and a loop
that ends has reported all.

**Study and callback.** `CopiesHoldOneResult`, `BestIsPublished` and `ReportIsLatest`
share one invariant, which speaks of one pair at a time. While the job works,
`CopiesInv` has the latest snapshot in the file, in MLflow and in the workbook; the one
time MLflow lags is between the start of the evaluation's study run and its first
seed. `BestInv` puts the score of that snapshot above what any trial has
reported last, `ReturnedInv` makes it final. A stop inside the three writes
leaves file and MLflow at most one snapshot apart (`EndedInv`), and that is all
the callback gets to see; `ReportInv` follows from it for names no other pair
bears. MLflow is a sequence of study runs over all pairs, of which the last one of a pair counts;
two lemmas say what a new run and a new summary do to the last run of every pair, and
with them each action needs to be looked at for its own pair only (`Undisturbed`).
`TypeCorrect` holds the type of every variable.

**Styled cache.** `StyledOnce` rests on the file lock having one owner, who alone is
between the look at the cache and its publication.

**Seed training.** `ScoresAreOfOneFit` and `StagesBelongTogether` hold for any number of
epochs, nodes and attempts. The invariant speaks of what is in the process and of every
checkpoint alike. `FittedInv` says that a training that has ended has a detector
fitted on its network in its stage, in the process and in the checkpoints marked as
ended; a checkpoint of an earlier epoch claims no such thing and is not scored before
the training it resumes has ended. `DescentInv` follows the weights from the
scored synthetic network to the real stage's, over the real stage's checkpoints on
every node where no ended synthetic stage was reopened.

**Upload.** `NothingIsLost`: `UploadInv` says what lies on Seafile at each place of the
callback, as long as no upload failed unheard; a retry starts over and takes nothing
away. Every run downloaded is in the temporary directory or has been replaced by another
of its name (`Covers`), and that is what the archive holds.

**Stream.** `StreamIsWhole` has one invariant per policy, over the rows given so far.
`AtomicInv`: what is scored, taken and waiting are the rows given, in their order.
`CausalInv` and `PatchInv`: each score made so far is already the one that a detector
gives its row in the series so far, and what has been dropped from the buffer is out of
reach. That rests on the detectors being local: a causal one looks back by its window
(`CausalLocal`), and a patch over a row lies in the region handed to the detector if and
only if it is one of the whole series (`PooledLocal`), which takes the arithmetic of
aligned starts (`AlignedStart`, `Region`). `Continued` then says that scores a longer
series leaves alone may be kept. `CatchInv` has the rows from which the tail is made in the
buffer; `TailFacts` is the division by which the flattened windows are cut to the length
of the series.

**Events.** `EventsAreAlarms` follows the pass of the postprocessing. While it smooths,
`DecisionsAt` says that the queue holds what can still be the largest score of a window
(`Window`), with the largest in front, and that the average kept is the weighted one
of the run so far; a step leaves `KeptParts` of the `Parts` of every share and adds its own
(`ShareKept`, `SumNext`), for any span. While it raises, `AlarmAt` explains the counters by the points seen: `Highs` and
`Lows` are runs of high and low points, `WatchedAt` says that an alarm entered earlier
lasts, and `RaisedBy` is the set of alarms as a definition over all points. After the merge the
gaps are filled and no filled point is the end of an event (`Mended`), after the drop the
short ones are gone and whole events stay (`Settled`). Runs of points are found around any
point (`RunAround`) and left only through their ends (`RunReaches`).

**Alignment.** `ScoresKeepTheirRows`: `Matched` says that no score is lost and each stands
beside its label, or is a first one that landed before it. `ConcatIs` says
where the rows of a sequence are in the whole; `BucketIs` counts the boundaries before a
position, so that `LandsAt` finds each score at its row, and the first of a later sequence
before it; the separators move all that follows by one place for each sequence, scores and
labels alike (`InsertAligned`).

**Files.** `BundleIsRead`: after the cut the mode is long enough and no longer than it must
be (`ModeInv`); the batches are the mode, cut into pieces none of which is empty
(`BatchesAre`); the files hold what the first of them hold, under one width (`ExportInv`). The
reader knows neither the batches nor their borders. `Reach` says what it makes of them: a
batch takes its own sequences and those without a step behind it, which the next one then
lacks (`TakenReaches`, `CursorIs`). So every batch is full, each sequence is looked for
where it lies (`PlacedWhereItIs`), and only an empty mode is refused.

**Numbers and lists.** The library's induction theorems take an operator as a parameter and
cannot be instantiated here. `LeastNatural`, a least element of a set of numbers, takes
their place: a sum or a concatenation exists up to every length, since there is no
least one without (`SumsExist`, `ChainExists`), and a fact about all lengths
has no least counterexample.

**Search.** `StopsAtLocalBest` rests on two facts kept from step to step: what the search
holds ranks best of all settings tried (`RanksInv`), and all candidates that have left
the queue, of this parameter and in a round without an improvement of those before
it, were tried around the setting the round began with (`RoundInv`).
That setting can only change with an improvement, so at the end of a round
without one all its neighbours have been tried and none ranks better.

**Scaling.** `ColumnsAreWhatTheySay` is for batches of any shape. The names say which
column stands where, and `NamesInv` has them follow the columns: after the value of a column
comes the first name of the next one. So the second loop, which counts places on its
own, is always at the place called by its column (`LoopInv`), what it plans goes where
the name says (`GroupInv`, `IndicatorInv`), and at its end no place is left out
(`CoverInv`). Of the cells that `transform` puts at a place, none is a wrong one
(`CellsAreRight`). The two passes that fill a column are compared with the nearest kept row
(`FillIsNearest`), which exists because every set of numbers has a least one
(`LeastElement`, from the well-foundedness of finite sets).
TLC checked the invariant on 691,572 states first.

**Controller run.** `RunIsToldAsItWent` is about two threads that hand notices to a relay
whose answers may come after they gave up. `HandedInv` and `SaidInv` tie the notices
dispatched to how far each pair has come; `PlaceInv` has every one of them in one
place: with its thread, at the relay, heard, or lost to a fault; `ThreadInv`
says which thread may hold which. `OrderInv` carries the order: a thread
that still holds a notice, one it has not given up, also holds every dispatched one that
has to come after it. `ClosingInv` holds the verdicts together. All parts were
checked by TLC with two pairs on 520,098 states before they were proved; the crux
is that a new notice never has to precede one that has left its thread (`New`).

**Cluster.** `WholeClusterOnly` and `OwnCampaignOnly` are invariants of one call to
`run_cluster_job`: once the validation has passed the table of nodes stays
complete, and what was asked to stop stays so, for nobody but the call submits.

**Bootstrap.** `ScriptOwnsItsPaths`: as long as no call has broken off, what the script
has made is listed somewhere, and where depends on the place: in the state file while
nothing is removed or made, in the list still to be removed (`doomed`) after
that, in `made` during an install (`OwnedInv`). The state file goes before the last path and
comes back after all of them. A server that runs although its directory has been given up was
not stopped (`unstopped`), which only a failure of `pg_ctl` explains. `RotationInv` follows the password from the database
to both env files. `UserPathsSurvive` needs the other half, which holds after any kill as well:
what is removed was listed, and a list holds a path of the user only if it is core
or of a call that has broken off (`ListsInv`).

**Raw assets.** `FilesAreThere`: whatever is not whole is either being written by the
one call under the lock, or was left so by one that broke off and is in `marred`
(`LockInv`, `TornInv`). `LockedInv` says what a call has made sure of at each place under
the lock; after it has given the lock up, `PastInv` says that it still finds
this as long as nobody has disturbed it, which `Proceeds` and `Frame` show
for the steps of all others.

**Prepared bundles.** Types come in parts (`PcOK`, `HeldOK`, `OwnerOK`, ...)
with one lemma each; `OwnerOK` is the mutual exclusion of the file lock.
`BucketInv` says that what a call has sent is in the bucket, and gives
`PublicationIsComplete` whatever fails. `StepKinds` sorts steps by what they do
to a root (`Quiet`, `Builds`, `Restores`, `Opens`, `Closes`); with it `DiskInv`
(a manifest has its files beside it) and `TornInv` (a torn manifest has a
writer, until a process is killed or a write raises) are inductive and give
`ReturnedBundlesAreWhole`. `LockInv` ties the lock object to the call that will
delete it: `LockIsReleased`. `FirstInv` says of a builder before the publication
that it holds the lock object, from which `BuildsDoNotOverlap` follows.

The type invariants of the lease actor, the bundles and the study are theorems
(`TypeCorrect`) and part of the inductive invariants, as those of the other modules are; the
runs leave them out and check what follows from them.

**Model-checked only.**

* Liveness: `DeadLeaseReclaimed`, `EverybodyGetsThrough`, `CampaignEnds`,
  `PairsAreReported`, `EveryCallEnds`. They rest on fairness, and so on `ENABLED`,
  which these provers do not reach.
* `SweepIsExact`: the sweep over thresholds. `SweepIndex` and `AlarmSweep` need recursive
  operators (the walk that shortens its path, the sums and the descent in the tree, the
  points a hit suppresses), in whose modules nothing can be proved.

## 6. What the models found

* **A torn manifest is returned** (`bundle_torn`). `PreparedDatasetManifest.write`
  writes in place (`data_prep/manifest.py:85`), and
  `ensure_prepared_dataset_manifest` takes a `manifest.json` that exists for a
  bundle. After a process was killed in the write, or the write raised, every later
  call under that root returns the torn file.
* **Maintenance beside workers** (`seaweed_lock_stale`). The class comment
  promises that maintenance runs exclusively (`tune/maintenance_actor.py:56`).
  The actor is neither restarted nor restored; its successor under the same name
  starts with no holders and lets maintenance in beside those that the lost
  actor had admitted.

* **One pair reports the result of another** (`pair_study_variant`). The look-up
  of the result takes a "Dataset name used to filter runs"
  (`tune/mlflow_utils.py:264`); the study runs of `ome_tsst` are tagged
  `dataset=ome`, since `run_tune_or_train` strips the suffix before
  (`tuning_runner.py:1465`). With both in a campaign, the callback of `ome` takes
  whichever study started last, and that of `ome_tsst` finds none and falls back
  to `result.json`. `ReportedIsLatest` therefore speaks of pairs whose name no
  other study carries.

* **Scores beside the wrong labels** (`evaluation_alignment`).
  `pad_each_subsequence` looks a position up with `bucketize(..., right=False)`
  (`benchmark_utils/benchmark_helpers.py:134`), which counts the first position
  of a sequence to the sequence before. Its score lands among that one's padding
  and its own row keeps -inf. `OnlyFirstScoresStray` shows that nothing else is
  misplaced.
* **The threshold is not exceeded** (`sweep_exceeded`). The sweep returns the threshold
  with the score of the points at or above it
  (`metric_utils/alarm_threshold_search.py:756`), and the tests' helper reads it so
  (`src/tests/test_alarm_score.py:11`). Its docstring has "indices whose score exceeds
  the current threshold" (lines 385-386), another test scores `scores > t`
  (`test_alarm_score.py:129`), and the callers that do not postprocess alarm on
  `> threshold` (`benchmark_utils/benchmark_model.py:1164`,
  `metric_utils/evaluation_postprocessing.py:192`, `benchmark_utils/threshold.py:100`,
  `tune/mlflow_models.py:542`): the points at the threshold are left out. The hysteresis
  compares with `>=`. `SweepIsExact` is about the sweep's own reading.
* **The fallback has no effect** (`cluster_fallback`). After a failure with the
  configured addresses `bootstrap` announces the fallback
  (`src/noboom_cluster/noboom_cli_lib/ray_lifecycle.py:170`), renders a new
  configuration and calls `start_script`, which finds the first attempt's job
  server alive and skips the start (`ray_utils/job_lifecycle.py:424`). What is
  validated again is the cluster of the first attempt.

Seen on the way, without a line of the repository that says otherwise:

* `_save_state` truncates the checkpoint before it writes, and a torn file makes
  every later `__init__` raise: the actor is then `"dead"`.
* Leases without owner (the job id could not be resolved) are never reclaimed
  when their job dies; `DeadLeaseReclaimed` speaks of owned ones.
* Live jobs that a listing leaves out, since it is truncated or partial
  (`tune/runtime_allowlist.py:79-93`), lose their leases, and their GPUs are granted
  again beside them; a process that had pinned itself computes on.
  `PinnedProcessHoldsLease` and `PinnedLoadWithinCapacity` speak of the others.
* A workbook torn by one stopped job makes the next snapshot of every pair of the
  campaign raise: those jobs fail, and so do the callbacks that write a row.
* A bundle may be built again after it was published: the manifest is looked for
  before the lock object is put, and not after. `OneNodeBuilds` therefore speaks
  of the time before the publication.
* A build that raises releases the lock object, but those who wait look only for
  the manifest, and wait out their hour; so do those whose own put succeeded
  with a lost answer, and those behind a killed builder.
* `submit_jobs` leaves running jobs without a controller when `list_jobs` or
  `submit_job` raises; `max_in_flight=0` returns an empty list at once.
* The one exception: `extreme_action="ffill"` is documented as "forward-fill then back-fill (no NaNs
  left)" (`benchmark_utils/data_transform.py:64`); values that were missing stay so
  in a batch whose columns have no extreme value, and a column without any usable
  value stays empty. Whether a missing value is filled thus depends on the other
  columns and sequences of its batch.
* An export of sequences without a step through a scaler that changes the number of
  features raises "mixes feature widths"; the files of an empty mode have no record
  batches, and the reader refuses them.
* Where neighbouring points of an anomaly have equal scores, the sweep may score a
  threshold lower than `alarm_score` does, since it visits them one by one.
* An unreadable styled cache is found and rebuilt by `load_dataset=True` only; a
  killed trial leaves its temporary file.
* A stage of a seed that stopped early is trained further when its trial is retried,
  since its checkpoint lies before the last epoch; a real stage resumed then goes on
  from its own checkpoint, which descends from the earlier synthetic network.
  `RealFromScoredSynthetic` excludes the nodes where that happened.
* A Parquet file, an extension or a directory of generated data that a kill left half
  written is taken as whole by every later call.
* `upload_to_seafile` logs a failed rclone and returns, so that the retries around
  it never start and the checkpoints are deleted although nothing arrived;
  `DeletedIsArchived` speaks of uploads that were heard. Of two runs of one name, as a
  retried trial leaves them, the one downloaded last is archived, and the checkpoints
  of both are deleted. The score table is sent with
  `rclone sync --include *.json` into the directory of the best configuration,
  whose JSON file it deletes; the exclusion `'**/*.ckpt'`, quoted once too often,
  matches nothing; a pair without a study run skips the upload and cleans up.
* `run_tune` returns 0 and announces SUCCEEDED when every pair was reported, with
  whatever status. Its run stays RUNNING in MLflow when something between its start
  and the `try` raises (`tune/orchestration.py:265-300`), and may when the
  handler's own `set_terminated` raises.
* `_is_ram_breach_message` looks for "oom" anywhere in a message
  (`tune/notification_callbacks.py:50`), and so finds it in "noboom": a failure
  whose message names a path of the program is announced as a RAM breach.
* A notice whose caller gave up may arrive after later ones, the end of a run before
  the end of its last pair among them.
* `pg_ctl stop` runs with `check=False`, and the clean-up goes on to remove the
  directory of the database although its server may still run.
* The bootstrap records all core paths as made by itself, those it skipped too;
  a later reinstall or uninstall removes what the user had there. An uninstall
  that breaks off has removed its record first and cannot be resumed, and a
  state file torn by a kill blocks its root.

## 7. Assumptions and limits

* Lease actor: the models do not contain node ids, the wording of errors, or the
  float arithmetic of fractions. `initialize` with another view on an
  initialized actor is modelled as it is written.
* Pair controllers: the cluster's job list is complete. A job that vanished from
  it (the head lost its state) stays pending for ever in the code; the models
  exclude it. Submission ids are unique (no pair is given twice). Which node
  hosts which job is left out: the guard may stop any set of pending jobs.
* Bundles: two builds of a fingerprint write the same files, with the same
  content; without a configured bucket the code skips the S3 steps, which is not
  modelled. Answers of S3 are current (it is strongly consistent).
  `manifest_path_for_stage_from_args` reads without the lock and is not modelled.
* Study: MLflow artifacts appear whole and current, and only the reads of the
  callback may fail. Scores are abstract; a score that is NaN, folds and thresholds
  are left out. `get_best_result` may take any of several equally
  good trials. The two sources of an evaluation stand for the two names each has.
* Lock: `run_maintenance`'s shell command is a single step with any outcome.
* Scaling and files: columns are told apart by name; infinities are not modelled;
  a cut of synthetic data asks for at least one step; all sequences of a source have
  one width. Which sequences `make_dataset_split` puts on which side is external.
  The bundle models begin after `ensure_dataset_assets`.
* Assets: what a file contains is absent, half or whole; times of modification, which
  the fingerprint records too, are left out. One dataset and one node in the run.
* Seed training: networks that Lightning does not train are one step; the run has
  one node (the theorems any number). Weights are never equal by accident.
* Controller run: a notice says what it is about and no more. The link is that of one
  token; secrets fit. Interrupts from the keyboard are not modelled. What raises between
  the start of the run and its `try` is one step.
* Upload: one pair; the removal of what Ray left in `tune_path` is left out.
* Styled cache: the search for a batch size that fits the memory is part of the
  building step.
* Sweep and postprocessing: arithmetic is exact in the units the modules name, the
  rounding of the code's floats is not modelled. `threshold.py` may return any
  threshold.
* Stream: a stride is at most the window (the code does not check it; PaAno's is 1,
  and its patches are as long as its window). Detectors depend on nothing but the
  rows they see.
* Alignment: with `use_full_seq_prediction` off the labels are cut, without separators
  for what was cut.
* Cluster: the rows of `ray.nodes()` of nodes that left may make the validation refuse a
  complete cluster, which the models allow and no property excludes. What files on
  the head contain is not modelled.
* Bootstrap: symbolic links lie in `.venv` and vanish with it; a stage makes its path
  or raises.

## 8. Plan

What is left, in order of what can go wrong in it:

1. *Batch-size search* of the styled cache, with its retries after memory ran out.
2. *Model hyperparameters* (`validate_model_hparams`), as a function against its
   tables of allowed values.

Proofs: of the safety properties only the sweep's is left. It would need its disjoint sets
and its tree without recursive operators, as functions of numbers that decrease along
each walk; what the tree's partial sums count could then be shown with the lemmas of
`Concatenation_proof`.

The bulk of what no module covers will stay so: the networks and their layers, the
rendering of figures and cluster files, the calls on MLflow and the command lines
are computations on floating-point numbers, or text, in which no order of steps
matters.
