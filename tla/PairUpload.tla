----------------------------- MODULE PairUpload -----------------------------
(***************************************************************************)
(* What the output callback does with the files of a pair whose job has    *)
(* ended (_sync_pair_outputs and _cleanup_pair_artifacts of                *)
(* core/tune/callbacks.py, tune/storage.py): uploads by rclone to Seafile, *)
(* then, for a job that succeeded, the removal of the checkpoints of its   *)
(* runs from the bucket.  Both are tried three times.  A command that      *)
(* fails inside of an upload is only logged; the download of a run's files *)
(* raises, as does MLflow or the bucket if they do not answer.             *)
(***************************************************************************)
EXTENDS Naturals, FiniteSets

CONSTANTS StudyRuns,   \* the runs below the study run: trials and their seeds
          RunNames     \* their names, with those of the runs above them

VARIABLES upload,      \* where the callback is
          succeeded,   \* the job's status
          withBest,    \* seafile_upload_checkpoints
          hasStudy,    \* study_run_id, None if MLflow has no result of the pair
          named,       \* run_name; a trial that is tried again makes a second
                       \* run of the name of its seed
          tries,       \* calls of the current method
          downloaded,  \* runs that the current call has downloaded
          fetched,     \* runs in the temporary directory, one for each name
          bestRun,     \* Seafile: the BEST_ directory
          scoreTable,  \* Seafile: the score table
          allRuns,     \* Seafile: the runs in the archive of the pair
          checkpoints, \* bucket: runs with their checkpoints
          unheard      \* an upload failed and nobody was told

options == <<succeeded, withBest, hasStudy, named>>
tempDir == <<downloaded, fetched>>
seafile == <<bestRun, scoreTable, allRuns>>
uploadVars == <<upload, options, tries, tempDir, seafile, checkpoints, unheard>>

Retries == 3

\* The files of a study run
BestFiles == {"weights", "json"}

UploadInit ==
  /\ upload = "best"
  /\ succeeded \in BOOLEAN /\ withBest \in BOOLEAN /\ hasStudy \in BOOLEAN
  /\ named \in [StudyRuns -> RunNames]
  /\ tries = 1
  /\ downloaded = {} /\ fetched = {} /\ bestRun = {} /\ scoreTable = FALSE /\ allRuns = {}
  /\ checkpoints = StudyRuns
  /\ unheard = FALSE

----------------------------------------------------------------------------
\* upload_to_seafile: done, or it failed and only says so in the log.
Upload(done, undone) ==
  \/ done /\ UNCHANGED unheard
  \/ undone /\ unheard' = TRUE

\* Something else raises: the method starts over, or the callback fails.
RaiseUpload(first) ==
  IF tries < Retries
  THEN upload' = first /\ tries' = tries + 1
  ELSE upload' = "failed" /\ UNCHANGED tries

\* Lookups in MLflow and the bucket, or a program that is missing
Unavailable ==
  /\ upload \in {"best", "table", "runs", "archive", "cleaning"}
  /\ RaiseUpload(IF upload = "cleaning" THEN "cleaning" ELSE "best")
  /\ downloaded' = {} /\ fetched' = {}
  /\ UNCHANGED <<options, seafile, checkpoints, unheard>>

\* The checkpoints of the best trial, if they are asked for
UploadBest ==
  /\ upload = "best"
  /\ IF hasStudy /\ succeeded /\ withBest
     THEN Upload(bestRun' = BestFiles, bestRun' \in SUBSET BestFiles /\ bestRun \subseteq bestRun')
     ELSE UNCHANGED <<bestRun, unheard>>
  /\ upload' = "table"
  /\ UNCHANGED <<options, tries, tempDir, scoreTable, allRuns, checkpoints>>

\* The tables of the experiment, under the lock of the Excel file.  The sync
\* spares what its patterns exclude; a JSON file that the experiment directory
\* does not have goes, wherever it lies.
UploadTable ==
  /\ upload = "table"
  /\ Upload(scoreTable' = TRUE /\ bestRun' = bestRun \ {"json"}, UNCHANGED <<scoreTable, bestRun>>)
  /\ upload' = IF succeeded /\ hasStudy THEN "runs" ELSE "synced"
  /\ UNCHANGED <<options, tries, tempDir, allRuns, checkpoints>>

Namesakes(r) == {q \in StudyRuns : named[q] = named[r]}

\* rclone sync of one run, check=True, into the directory that gather_runs
\* makes of its name: the files of another run of this name go.
DownloadRun(r) ==
  /\ upload = "runs" /\ r \notin downloaded
  /\ downloaded' = downloaded \cup {r}
  /\ fetched' = (fetched \ Namesakes(r)) \cup {r}
  /\ upload' = "runs"
  /\ UNCHANGED <<options, tries, seafile, checkpoints, unheard>>

\* The archive of all runs.  The pattern that is to leave the checkpoints out
\* holds its quotes and matches nothing: they are in the archive.
PackArchive ==
  /\ Upload(allRuns' = fetched, UNCHANGED allRuns)
  /\ downloaded' = {} /\ fetched' = {}
  /\ upload' = "synced"
  /\ UNCHANGED <<options, tries, bestRun, scoreTable, checkpoints>>

\* Mutant: a download that fails goes unnoticed.
UploadArchiveAnyway == upload = "runs" /\ PackArchive

UploadArchive == upload = "runs" /\ downloaded = StudyRuns /\ PackArchive

\* seafile_synced is set.
Synced ==
  /\ upload = "synced"
  /\ upload' = IF succeeded THEN "cleaning" ELSE "reported"
  /\ tries' = 1
  /\ UNCHANGED <<options, tempDir, seafile, checkpoints, unheard>>

\* delete_by_extension of the checkpoints, run by run.  Without a study run
\* there are no runs to look at.
DeleteRun(r) ==
  /\ upload = "cleaning" /\ hasStudy
  /\ r \in checkpoints
  /\ checkpoints' = checkpoints \ {r}
  /\ UNCHANGED <<upload, options, tries, tempDir, seafile, unheard>>

CleanedUp ==
  /\ upload = "cleaning"
  /\ hasStudy => checkpoints = {}
  /\ upload' = "reported"
  /\ UNCHANGED <<options, tries, tempDir, seafile, checkpoints, unheard>>

UploadNext ==
  \/ Unavailable \/ UploadBest \/ UploadTable
  \/ \E r \in StudyRuns : DownloadRun(r) \/ DeleteRun(r)
  \/ UploadArchive \/ Synced \/ CleanedUp

UploadSpec == UploadInit /\ [][UploadNext]_uploadVars

----------------------------------------------------------------------------
\* Unless the log alone knows of a failed upload: of each run whose checkpoint
\* is deleted, and of all the other runs of its pair, the archive holds the one
\* or another run of the same name, whatever was tried again in between, so
\* that a run with a name of its own is lost never; and when the callback has
\* reported, the table was uploaded, and the weights of the best trial if they
\* were asked for.  Of two namesakes only one is in the archive.
DeletedIsArchived ==
  ~ unheard =>
    /\ checkpoints # StudyRuns => \A r \in StudyRuns : Namesakes(r) \cap allRuns # {}
    /\ upload = "reported" =>
         /\ scoreTable
         /\ succeeded /\ hasStudy /\ withBest => "weights" \in bestRun
=============================================================================
