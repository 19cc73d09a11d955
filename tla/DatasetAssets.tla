---------------------------- MODULE DatasetAssets ----------------------------
(***************************************************************************)
(* The raw files behind a prepared bundle (build_preparation_recipe and    *)
(* load_sequence_modes of core/data_prep/pipeline.py, download_from_webdav *)
(* of core/webdav_utils.py).  The processes of a node share one download   *)
(* cache.  Under its file lock a call brings the files it needs: the       *)
(* Kaggle dataset, a Parquet file beside each source file, the generated   *)
(* data and a link to them, the support files of an extension.  Then it    *)
(* gives up the lock, records what files it found, which becomes the       *)
(* fingerprint of the bundle, and reads them if it has to build one.       *)
(*                                                                         *)
(* A kill and a writer that raises leave what they have written so far.    *)
(***************************************************************************)
EXTENDS Naturals, FiniteSets

CONSTANTS Calls,       \* the processes of a node
          Bases,       \* the datasets of the Kaggle dataset
          Requests,    \* what may be asked for
          MaxMishaps   \* bound: how often something raises or is killed

\* An extension belongs to one of the datasets; any name may be asked for.
ASSUME AssetAssumption ==
  /\ MaxMishaps \in Nat
  /\ \A r \in Requests : r.synthetic \in BOOLEAN /\ r.extension \in BOOLEAN
  /\ \A r \in Requests : r.extension => r.base \in Bases

VARIABLES csv,       \* the source files of each dataset: "none", "lacking", "whole"
          parquet,   \* their Parquet files: "none", "torn", "whole"
          support,   \* the files of the extension: "none", "part", "whole"
          generated, \* the generated data: "none", "part", "whole"
          linked,    \* the datasets with a link to their generated data
          at,        \* where each call is
          want,      \* what it was asked for
          forced,    \* force_download
          found,     \* the sources it recorded as they should be
          taken,     \* and those it built the bundle from
          disturbed, \* calls whose files were removed after they gave up the lock
          excused,   \* calls in which something raised
          marred,    \* what somebody wrote to and did not finish under the lock
          mishaps

kaggle == <<csv, parquet>>
outcome == <<found, taken>>
assetHistory == <<disturbed, excused, marred, mishaps>>
assetVars == <<kaggle, support, generated, linked, at, want, forced, outcome, assetHistory>>

Locked == {"downloading", "fetching", "converting", "tearing", "checking", "extending",
           "copying", "unpacking", "extracting", "unlinking", "linking"}
Past == {"resolving", "copying late", "base", "generated", "extension",
         "resolving again", "copying again", "reading"}

NoRequest == [base |-> "none", synthetic |-> FALSE, extension |-> FALSE]

\* A fresh node, one in use, or one whose copy lacks the files of a dataset
\* (tests/test_dataset_asset_recovery.py)
AssetInit ==
  /\ csv \in {[b \in Bases |-> "none"], [b \in Bases |-> "whole"]} \cup
             {[b \in Bases |-> IF b = lacking THEN "lacking" ELSE "whole"] : lacking \in Bases}
  /\ parquet = [b \in Bases |-> "none"]
  /\ support = "none" /\ generated = "none" /\ linked = {}
  /\ at = [c \in Calls |-> "out"]
  /\ want = [c \in Calls |-> NoRequest]
  /\ forced = [c \in Calls |-> FALSE]
  /\ found = [c \in Calls |-> {}] /\ taken = [c \in Calls |-> {}]
  /\ disturbed = {} /\ excused = {} /\ marred = {} /\ mishaps = 0

----------------------------------------------------------------------------
Base(c) == want[c].base
Sources == {"base", "generated", "extension"}

\* The sources of a bundle
Needs(c) ==
  {"base"} \cup (IF want[c].synthetic THEN {"generated"} ELSE {})
           \cup (IF want[c].extension THEN {"extension"} ELSE {})

IsWhole(c, source) ==
  CASE source = "base" -> csv[Base(c)] = "whole" /\ parquet[Base(c)] = "whole"
    [] source = "generated" -> generated = "whole" /\ Base(c) \in linked
    [] source = "extension" -> support = "whole"

IsThere(c, source) ==
  CASE source = "base" -> csv[Base(c)] # "none"
    [] source = "generated" -> generated # "none" /\ Base(c) \in linked
    [] source = "extension" -> support # "none"

\* What a source of the call is stored in
Store(c, source) ==
  CASE source = "base" -> Base(c)
    [] source = "generated" -> "archive"
    [] source = "extension" -> "support"

Go(c, place) == at' = [at EXCEPT ![c] = place]

\* Something out of the call's hands raises: the network, the disk.
Raises(c) ==
  /\ mishaps < MaxMishaps
  /\ mishaps' = mishaps + 1
  /\ excused' = excused \cup {c}
  /\ Go(c, "failed")

\* Those that may still look at what a call is about to remove
Readers(c) == {d \in Calls \ {c} : at[d] \in Past}

----------------------------------------------------------------------------
\* Mutant: without the lock.
EnterUnlocked(c, request) ==
  /\ at[c] \in {"out", "done", "failed"}
  /\ Go(c, "downloading")
  /\ want' = [want EXCEPT ![c] = request]
  /\ forced' = [forced EXCEPT ![c] = FALSE]
  /\ found' = [found EXCEPT ![c] = {}] /\ taken' = [taken EXCEPT ![c] = {}]
  /\ disturbed' = disturbed \ {c} /\ excused' = excused \ {c}
  /\ UNCHANGED <<kaggle, support, generated, linked, marred, mishaps>>

\* ensure_dataset_assets waits for dataset_download.lock.
Enter(c, request) ==
  /\ at[c] \in {"out", "done", "failed"}
  /\ \A d \in Calls : at[d] \notin Locked
  /\ Go(c, "downloading")
  /\ want' = [want EXCEPT ![c] = request]
  /\ forced' = [forced EXCEPT ![c] = FALSE]
  /\ found' = [found EXCEPT ![c] = {}] /\ taken' = [taken EXCEPT ![c] = {}]
  /\ disturbed' = disturbed \ {c} /\ excused' = excused \ {c}
  /\ UNCHANGED <<kaggle, support, generated, linked, marred, mishaps>>

\* _download_noboom_dataset: a copy in the cache is reused, else downloaded.
\* A forced download removes it first, with all that was put beside it.
Download(c) ==
  /\ at[c] = "downloading"
  /\ \/ /\ ~ forced[c] /\ \A b \in Bases : csv[b] # "none"
        /\ Go(c, "converting")
        /\ UNCHANGED <<kaggle, support, linked, disturbed>>
     \/ /\ forced[c] \/ \E b \in Bases : csv[b] = "none"
        /\ Go(c, "fetching")
        /\ csv' = [b \in Bases |-> "none"] /\ parquet' = [b \in Bases |-> "none"]
        /\ support' = "none" /\ linked' = {}
        /\ disturbed' = disturbed \cup Readers(c)
  /\ UNCHANGED <<generated, want, forced, outcome, excused, marred, mishaps>>

Fetch(c) ==
  /\ at[c] = "fetching"
  /\ \/ /\ csv' = [b \in Bases |-> "whole"]
        /\ Go(c, "converting")
        /\ UNCHANGED <<excused, mishaps>>
     \/ Raises(c) /\ UNCHANGED csv
  /\ UNCHANGED <<parquet, support, generated, linked, want, forced, outcome, disturbed, marred>>

\* preprocess_noboom_dataset: a Parquet file is written in place, unless one of
\* its name exists.
Convert(c) ==
  /\ at[c] = "converting"
  /\ IF Base(c) \in Bases /\ parquet[Base(c)] = "none"
     THEN parquet' = [parquet EXCEPT ![Base(c)] = "torn"] /\ Go(c, "tearing")
     ELSE Go(c, "checking") /\ UNCHANGED parquet
  /\ UNCHANGED <<csv, support, generated, linked, want, forced, outcome, assetHistory>>

FinishParquet(c) ==
  /\ at[c] = "tearing"
  /\ \/ /\ parquet' = [parquet EXCEPT ![Base(c)] = "whole"]
        /\ Go(c, "checking")
        /\ UNCHANGED <<excused, marred, mishaps>>
     \/ /\ Raises(c)
        /\ marred' = marred \cup {Base(c)}
        /\ UNCHANGED parquet
  /\ UNCHANGED <<csv, support, generated, linked, want, forced, outcome, disturbed>>

\* resolve_dataset_variant looks at files for an extension only.
Unlocked(c) == IF want[c].extension THEN "resolving" ELSE "base"

\* Where a call goes on once its dataset is validated
Validated(c) == IF want[c].synthetic THEN "unpacking" ELSE Unlocked(c)

HasTraining(c) == Base(c) \in Bases /\ csv[Base(c)] = "whole"

\* Mutant: missing training files raise at once.
CheckOnce(c) ==
  /\ at[c] = "checking"
  /\ Go(c, CASE ~ HasTraining(c) -> "failed"
             [] HasTraining(c) /\ want[c].extension -> "extending"
             [] OTHER -> Validated(c))
  /\ UNCHANGED <<kaggle, support, generated, linked, want, forced, outcome, assetHistory>>

\* _validate_requested_dataset_assets: missing training files cause one forced
\* download.
Check(c) ==
  /\ at[c] = "checking"
  /\ Go(c, CASE ~ HasTraining(c) /\ forced[c] -> "failed"
             [] ~ HasTraining(c) /\ ~ forced[c] -> "downloading"
             [] HasTraining(c) /\ want[c].extension -> "extending"
             [] OTHER -> Validated(c))
  /\ forced' = [forced EXCEPT ![c] = @ \/ ~ HasTraining(c)]
  /\ UNCHANGED <<kaggle, support, generated, linked, want, outcome, assetHistory>>

----------------------------------------------------------------------------
\* prepare_ome_extension_support, called at three places: a directory with at
\* least one file is taken as it is, one without is removed.  What was
\* downloaded and extracted in a temporary directory is copied into it.  A
\* caller reads the headers of all files, which need not agree if some are cut
\* short.
PrepareSupport(c, here, copying, next) ==
  /\ at[c] = here
  /\ \/ support # "none" /\ Go(c, next) /\ UNCHANGED <<support, marred, excused, mishaps>>
     \/ support = "part" /\ Go(c, "failed") /\ UNCHANGED <<support, marred, excused, mishaps>>
     \/ /\ support = "part" /\ support' = "none"
        /\ marred' = marred \cup {"support"}
        /\ UNCHANGED <<at, excused, mishaps>>
     \/ /\ support = "none"
        /\ support' = "part" /\ Go(c, copying)
        /\ marred' = IF here = "extending" THEN marred ELSE marred \cup {"support"}
        /\ UNCHANGED <<excused, mishaps>>
     \/ support = "none" /\ Raises(c) /\ UNCHANGED <<support, marred>>
  /\ UNCHANGED <<kaggle, generated, linked, want, forced, outcome, disturbed>>

\* Somebody may have removed the directory meanwhile.  Of two who copy at once
\* the first to finish may leave files that the other has cut short.
CopySupport(c, here, next) ==
  /\ at[c] = here
  /\ \/ /\ support # "none" /\ Go(c, next)
        /\ \/ support' = "whole"
           \/ /\ \E d \in Calls \ {c} : at[d] \in {"copying", "copying late", "copying again"}
              /\ UNCHANGED support
        /\ UNCHANGED <<marred, excused, mishaps>>
     \/ support = "none" /\ Go(c, "failed") /\ UNCHANGED <<support, marred, excused, mishaps>>
     \/ /\ Raises(c)
        /\ marred' = marred \cup {"support"}
        /\ UNCHANGED support
  /\ UNCHANGED <<kaggle, generated, linked, want, forced, outcome, disturbed>>

\* download_from_webdav lists the remote folder, and takes a directory with
\* any contents as it is.
Unpack(c) ==
  /\ at[c] = "unpacking"
  /\ \/ generated # "none" /\ Go(c, "unlinking") /\ UNCHANGED <<generated, excused, mishaps>>
     \/ generated = "none" /\ generated' = "part" /\ Go(c, "extracting") /\ UNCHANGED <<excused, mishaps>>
     \/ Raises(c) /\ UNCHANGED generated
  /\ UNCHANGED <<kaggle, support, linked, want, forced, outcome, disturbed, marred>>

Extract(c) ==
  /\ at[c] = "extracting"
  /\ \/ generated' = "whole" /\ Go(c, "unlinking") /\ UNCHANGED <<marred, excused, mishaps>>
     \/ /\ Raises(c)
        /\ marred' = marred \cup {"archive"}
        /\ UNCHANGED generated
  /\ UNCHANGED <<kaggle, support, linked, want, forced, outcome, disturbed>>

\* The link is made anew by every call.
Unlink(c) ==
  /\ at[c] = "unlinking"
  /\ linked' = linked \ {Base(c)}
  /\ disturbed' = disturbed \cup
       {d \in Readers(c) : "generated" \in Needs(d) /\ Base(d) = Base(c) /\ Base(c) \in linked}
  /\ Go(c, "linking")
  /\ UNCHANGED <<kaggle, support, generated, want, forced, outcome, excused, marred, mishaps>>

\* The last step under the lock
Link(c) ==
  /\ at[c] = "linking"
  /\ linked' = linked \cup {Base(c)}
  /\ Go(c, Unlocked(c))
  /\ UNCHANGED <<kaggle, support, generated, want, forced, outcome, assetHistory>>

----------------------------------------------------------------------------
\* resolve_dataset_variant of an extension, without the lock
Resolve(c, here, copying, next) ==
  /\ at[c] = here /\ csv[Base(c)] # "none"
  /\ PrepareSupport(c, here, copying, next)

\* The dataset is being downloaded anew.
FailToResolve(c) ==
  /\ at[c] \in {"resolving", "resolving again"}
  /\ csv[Base(c)] = "none"
  /\ Go(c, "failed")
  /\ UNCHANGED <<kaggle, support, generated, linked, want, forced, outcome, assetHistory>>

\* The sources are listed one after the other, then the bundle is looked up.
Lookup(c) == IF want[c].extension THEN "resolving again" ELSE "reading"

After(c, source) ==
  CASE source = "base" /\ want[c].synthetic -> "generated"
    [] source # "extension" /\ want[c].extension /\ (source = "base" => ~ want[c].synthetic) -> "extension"
    [] OTHER -> Lookup(c)

\* collect_raw_provenance, one source after the other: one that is not there is
\* left out, a file that goes while it is listed raises.
Collect(c, source) ==
  /\ at[c] = source
  /\ \/ Go(c, After(c, source))
     \/ ~ IsWhole(c, source) /\ Go(c, "failed")
  /\ found' = [found EXCEPT ![c] = IF IsWhole(c, source) THEN @ \cup {source} ELSE @]
  /\ UNCHANGED <<kaggle, support, generated, linked, want, forced, taken, assetHistory>>

\* The bundle exists already, or the sources are read to build it.
HasBundle(c) ==
  /\ at[c] = Lookup(c)
  /\ Go(c, "done")
  /\ taken' = [taken EXCEPT ![c] = found[c]]
  /\ UNCHANGED <<kaggle, support, generated, linked, want, forced, found, assetHistory>>

\* load_sequence_modes: what is not there or torn cannot be read, what is cut
\* short may be.
Read(c) ==
  /\ at[c] = "reading"
  /\ taken' = [taken EXCEPT ![c] = {s \in Needs(c) : IsWhole(c, s)}]
  /\ \/ /\ \A s \in Needs(c) : IsThere(c, s)
        /\ parquet[Base(c)] = "whole"
        /\ Go(c, "done")
     \/ /\ \E s \in Needs(c) : ~ IsWhole(c, s)
        /\ Go(c, "failed")
  /\ UNCHANGED <<kaggle, support, generated, linked, want, forced, found, assetHistory>>

\* A process is killed: the kernel releases its lock, what it was writing stays.
\* Another one takes its place.
KillCall(c) ==
  /\ at[c] \in Locked \cup Past
  /\ mishaps < MaxMishaps
  /\ mishaps' = mishaps + 1
  /\ marred' = marred \cup CASE at[c] = "tearing" -> {Base(c)}
                             [] at[c] = "extracting" -> {"archive"}
                             [] at[c] \in {"copying", "copying late", "copying again"} -> {"support"}
                             [] OTHER -> {}
  /\ Go(c, "out")
  /\ want' = [want EXCEPT ![c] = NoRequest]
  /\ forced' = [forced EXCEPT ![c] = FALSE]
  /\ found' = [found EXCEPT ![c] = {}] /\ taken' = [taken EXCEPT ![c] = {}]
  /\ disturbed' = disturbed \ {c} /\ excused' = excused \ {c}
  /\ UNCHANGED <<kaggle, support, generated, linked>>

AssetNext ==
  \E c \in Calls :
    \/ \E r \in Requests : Enter(c, r)
    \/ Download(c) \/ Fetch(c) \/ Convert(c) \/ FinishParquet(c) \/ Check(c)
    \/ PrepareSupport(c, "extending", "copying", Validated(c))
    \/ CopySupport(c, "copying", Validated(c))
    \/ Unpack(c) \/ Extract(c) \/ Unlink(c) \/ Link(c)
    \/ Resolve(c, "resolving", "copying late", "base")
    \/ CopySupport(c, "copying late", "base")
    \/ \E s \in Sources : Collect(c, s)
    \/ FailToResolve(c) \/ HasBundle(c)
    \/ Resolve(c, "resolving again", "copying again", "reading")
    \/ CopySupport(c, "copying again", "reading")
    \/ Read(c) \/ KillCall(c)

AssetSpec == AssetInit /\ [][AssetNext]_assetVars

----------------------------------------------------------------------------
\* No fault outside of the call got at its files: none was removed after it
\* gave up the lock, none was left half written by somebody else.
Undisturbed(c) ==
  /\ c \notin disturbed
  /\ {Store(c, s) : s \in Needs(c)} \cap marred = {}

\* A call that ends well recorded all of its sources, each of them whole, and
\* built its bundle from the same, although it held the lock for neither: only
\* a forced download for another name, a link made anew, a writer that was
\* killed or raised, or one that prepares the extension without the lock can
\* make the fingerprint speak of other files than the bundle was built from.
\* A call in which nothing raises fails only for a dataset that does not exist
\* or if it was so disturbed: a cached copy that lacks its files is repaired.
UndisturbedGetsItsFiles ==
  \A c \in Calls :
    Undisturbed(c) =>
      /\ at[c] = "done" => found[c] = Needs(c) /\ taken[c] = Needs(c)
      /\ at[c] = "failed" => c \in excused \/ Base(c) \notin Bases
=============================================================================
