------------------------- MODULE StyledPredictCache -------------------------
(***************************************************************************)
(* The cache of style-transferred test windows (enable_styled_predict_     *)
(* cache of core/benchmark_utils/benchmark_dataset.py).  The trials on a   *)
(* node that share a manifest and a style share one file beside the        *)
(* manifest.  Before the synthetic training a trial prepares it, before    *)
(* the prediction it loads it (core/model_objectives.py).  A lock on a     *)
(* second file keeps them apart; the kernel releases it when its holder    *)
(* dies.                                                                   *)
(***************************************************************************)
EXTENDS Naturals, FiniteSets

CONSTANTS Trials,
          MaxLosses   \* bound: how often a trial is killed or the file damaged

ASSUME CacheAssumption == MaxLosses \in Nat

VARIABLES cacheFile, \* "none", "whole", "damaged"
          temporary, \* of each trial: its temporary file, "none", "torn" or "whole"
          flocked,   \* the trials that hold the lock
          trial,     \* of each trial: where its call is
          load,      \* load_dataset of the call
          override,  \* _predict_data_override: what the trial predicts on
          losses

cacheVars == <<cacheFile, temporary, flocked, trial, load, override, losses>>

\* A fresh node, or one with a cache of an earlier experiment
CacheInit ==
  /\ cacheFile \in {"none", "whole"}
  /\ temporary = [t \in Trials |-> "none"]
  /\ flocked = {}
  /\ trial = [t \in Trials |-> "out"]
  /\ load = [t \in Trials |-> FALSE]
  /\ override = [t \in Trials |-> "test"]
  /\ losses = 0

----------------------------------------------------------------------------
\* A trial that predicts on the cache already returns at once.
Enable(t, loading) ==
  /\ trial[t] = "out" /\ override[t] = "test"
  /\ trial' = [trial EXCEPT ![t] = "waiting"]
  /\ load' = [load EXCEPT ![t] = loading]
  /\ UNCHANGED <<cacheFile, temporary, flocked, override, losses>>

\* Mutant: the lock is a shared one.
LockShared(t) ==
  /\ trial[t] = "waiting"
  /\ flocked' = flocked \cup {t}
  /\ trial' = [trial EXCEPT ![t] = "locked"]
  /\ UNCHANGED <<cacheFile, temporary, load, override, losses>>

Lock(t) ==
  /\ trial[t] = "waiting" /\ flocked = {}
  /\ flocked' = {t}
  /\ trial' = [trial EXCEPT ![t] = "locked"]
  /\ UNCHANGED <<cacheFile, temporary, load, override, losses>>

\* What the call does is done: the lock file is closed.
Release(t) ==
  /\ flocked' = flocked \ {t}
  /\ trial' = [trial EXCEPT ![t] = "out"]

\* An existing file is used as it is, or loaded; one that does not load is
\* removed and built anew.
Decide(t) ==
  /\ trial[t] = "locked"
  /\ \/ /\ cacheFile = "none"
        /\ trial' = [trial EXCEPT ![t] = "building"]
        /\ UNCHANGED <<cacheFile, flocked, override>>
     \/ /\ cacheFile # "none" /\ ~ load[t]
        /\ Release(t)
        /\ UNCHANGED <<cacheFile, override>>
     \/ /\ cacheFile = "whole" /\ load[t]
        /\ override' = [override EXCEPT ![t] = "whole"]
        /\ Release(t)
        /\ UNCHANGED cacheFile
     \/ /\ cacheFile = "damaged" /\ load[t]
        /\ cacheFile' = "none"
        /\ trial' = [trial EXCEPT ![t] = "building"]
        /\ UNCHANGED <<flocked, override>>
  /\ UNCHANGED <<temporary, load, losses>>

\* The windows are styled and a temporary file is created beside the cache, or
\* that raises, for instance since there are no windows.
Build(t) ==
  /\ trial[t] = "building"
  /\ \/ /\ temporary' = [temporary EXCEPT ![t] = "torn"]
        /\ trial' = [trial EXCEPT ![t] = "saving"]
        /\ UNCHANGED flocked
     \/ Release(t) /\ UNCHANGED temporary
  /\ UNCHANGED <<cacheFile, load, override, losses>>

\* torch.save writes all of the file, or raises and the file is removed.
Save(t) ==
  /\ trial[t] = "saving"
  /\ \/ /\ temporary' = [temporary EXCEPT ![t] = "whole"]
        /\ trial' = [trial EXCEPT ![t] = "saved"]
        /\ UNCHANGED flocked
     \/ /\ temporary' = [temporary EXCEPT ![t] = "none"]
        /\ Release(t)
  /\ UNCHANGED <<cacheFile, load, override, losses>>

\* os.replace, then the load of what was built if it was asked for
Publish(t) ==
  /\ trial[t] = "saved"
  /\ cacheFile' = temporary[t]
  /\ temporary' = [temporary EXCEPT ![t] = "none"]
  /\ IF load[t]
     THEN trial' = [trial EXCEPT ![t] = "built"] /\ UNCHANGED flocked
     ELSE Release(t)
  /\ UNCHANGED <<load, override, losses>>

\* A cache that cannot be loaded right after it was built raises.
LoadBuilt(t) ==
  /\ trial[t] = "built"
  /\ override' = [override EXCEPT ![t] = IF cacheFile = "whole" THEN "whole" ELSE @]
  /\ Release(t)
  /\ UNCHANGED <<cacheFile, temporary, load, losses>>

\* The next seed of a trial has a datamodule of its own.
NextSeed(t) ==
  /\ trial[t] = "out" /\ override[t] # "test"
  /\ override' = [override EXCEPT ![t] = "test"]
  /\ UNCHANGED <<cacheFile, temporary, flocked, trial, load, losses>>

\* A trial is killed, wherever it is; its successor starts afresh.  A temporary
\* file stays behind, under a name that is never used again.
KillTrial(t) ==
  /\ losses < MaxLosses
  /\ losses' = losses + 1
  /\ flocked' = flocked \ {t}
  /\ trial' = [trial EXCEPT ![t] = "out"]
  /\ override' = [override EXCEPT ![t] = "test"]
  /\ temporary' = [temporary EXCEPT ![t] = "none"]
  /\ UNCHANGED <<cacheFile, load>>

\* The disk of the node loses what was written to the cache.
Damage ==
  /\ losses < MaxLosses /\ cacheFile = "whole"
  /\ losses' = losses + 1
  /\ cacheFile' = "damaged"
  /\ UNCHANGED <<temporary, flocked, trial, load, override>>

CacheNext ==
  \/ Damage
  \/ \E t \in Trials :
       \/ \E loading \in BOOLEAN : Enable(t, loading)
       \/ Lock(t) \/ Decide(t) \/ Build(t) \/ Save(t) \/ Publish(t) \/ LoadBuilt(t)
       \/ NextSeed(t) \/ KillTrial(t)

CacheSpec == CacheInit /\ [][CacheNext]_cacheVars

----------------------------------------------------------------------------
Builds(t) == trial[t] \in {"building", "saving", "saved"}

\* Only one trial at a time styles the windows, and only while there is no
\* cache: none is built twice, whatever raises or is killed on the way.  What
\* the others find under the name of the cache was never half written, and
\* no call that ends by itself leaves a temporary file behind.
BuiltOnce ==
  /\ \A t, u \in Trials : Builds(t) /\ Builds(u) => t = u
  /\ \A t \in Trials : Builds(t) => cacheFile = "none"
  /\ cacheFile # "torn"
  /\ \A t \in Trials : temporary[t] # "none" => trial[t] \in {"saving", "saved"}
=============================================================================
