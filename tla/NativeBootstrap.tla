-------------------------- MODULE NativeBootstrap --------------------------
(***************************************************************************)
(* scripts/bootstrap_native_remote.py on one root directory: install,      *)
(* reinstall over what a state file records, password rotation and         *)
(* uninstall, each of which may raise or be killed (the ssh session that   *)
(* feeds the script ends).                                                 *)
(*                                                                         *)
(* Of a path below the root it matters who made it.  Removing a path and   *)
(* making one are steps of their own.  The symbolic links are in .venv and *)
(* vanish with it.  The state file is written in place.                    *)
(***************************************************************************)
EXTENDS Naturals, Sequences

CONSTANTS UserPaths,   \* bound: the paths somebody may have made before
          MaxKills     \* bound: how often a call is killed

VARIABLES script,    \* where the call is
          headMode,  \* head_mode
          paths,     \* who made each path
          stateFile, \* the recorded state
          loaded,    \* loaded_state
          made,      \* created_auxiliary_paths and created_core_paths
          doomed,    \* what is still to be removed
          stage,     \* the stage of the install
          database,  \* the managed PostgreSQL: whether it runs, its password,
                     \* and as history whether pg_ctl has failed to stop it
                     \* (unstopped) and whether one that nothing had tried to
                     \* stop was left without its directory (abandoned)
          envFiles,  \* the passwords in the env files
          wasRunning, \* whether the database ran when the rotation began
          password,  \* the one in the environment of the caller
          kills,     \* how many calls were killed
          broken     \* calls that ended half-way through a removal or by a kill

rootVars == <<paths, stateFile, database, envFiles>>
scriptVars == <<headMode, loaded, made, doomed, stage, wasRunning, password>>
bootstrapVars == <<script, rootVars, scriptVars, kills, broken>>

Metadata == ".noboom-native-bootstrap"
CommonCore == {".venv", "treeple", "cluster"}
HeadCore == {"postgres", "seaweedfs"}
Auxiliary == {".numba", "tmp", "tmp/ray", "experiment_data"}

Paths == CommonCore \cup HeadCore \cup Auxiliary
CorePaths(isHead) == IF isHead THEN CommonCore \cup HeadCore ELSE CommonCore

ASSUME BootstrapAssumption == MaxKills \in Nat /\ UserPaths \subseteq Paths

\* The order in which paths are listed as they are made, and in which a failed
\* install removes them
Listed == <<".numba", "tmp", "tmp/ray", "experiment_data",
            Metadata, ".venv", "treeple", "cluster", "postgres", "seaweedfs">>

\* The order of remove_managed_auxiliary_paths_from_state: tmp comes last.
Recorded == <<".numba", "tmp/ray", "experiment_data", "tmp",
              Metadata, ".venv", "treeple", "cluster", "postgres", "seaweedfs">>

State(kind, isHead, aux, core) == [kind |-> kind, isHead |-> isHead, aux |-> aux, core |-> core]
NoState == State("none", FALSE, {}, {})
TornState == State("torn", FALSE, {}, {})
NothingMade == [aux |-> {}, core |-> {}]

Rests == script = "idle"

Exists(p) == paths[p] # "nobody"

NoDatabase == [runs |-> FALSE, password |-> 0, unstopped |-> FALSE, abandoned |-> FALSE]

\* A call that ends takes its variables with it.
Return ==
  /\ script' = "idle"
  /\ headMode' = FALSE /\ loaded' = NoState /\ made' = NothingMade
  /\ doomed' = {} /\ stage' = 0
  /\ wasRunning' = FALSE /\ password' = 1

BootstrapInit ==
  /\ script = "idle"
  /\ headMode = FALSE /\ loaded = NoState /\ made = NothingMade
  /\ doomed = {} /\ stage = 0
  /\ wasRunning = FALSE /\ password = 1
  /\ \E P \in SUBSET UserPaths : /\ "tmp/ray" \in P => "tmp" \in P
                                 /\ paths = [p \in Paths |-> IF p \in P THEN "user" ELSE "nobody"]
  /\ stateFile = NoState
  /\ database = NoDatabase
  /\ envFiles = <<1, 1>>
  /\ kills = 0 /\ broken = FALSE

----------------------------------------------------------------------------
(* Removing paths                                                          *)

\* safe_remove_path: a tmp that is not empty stays, any other path goes with
\* all that is in it.
SafeRemove(p) ==
  paths' = IF p = "tmp" /\ Exists("tmp/ray") THEN paths ELSE [paths EXCEPT ![p] = "nobody"]

\* stop_managed_services, which does not look whether pg_ctl has stopped the
\* server; one whose directory is gone it does not find.
StopServices ==
  \/ database' = [database EXCEPT !.runs = FALSE, !.unstopped = FALSE]
  \/ database.runs /\ database' = [database EXCEPT !.unstopped = TRUE]

\* The directory of the database goes, and a server that runs does not.
LoseDirectory ==
  database' = [NoDatabase EXCEPT
                 !.abandoned = database.abandoned \/ (database.runs /\ ~ database.unstopped)]

\* The next one that is to be removed
IsNext(p, order) ==
  \E i \in DOMAIN order : order[i] = p /\ \A j \in 1 .. i - 1 : order[j] \notin doomed

\* One path, and with postgres its database; a removal may raise.
RemoveNext(where) ==
  /\ script = where
  /\ \E p \in doomed :
       /\ IsNext(p, IF where = "cleaning" THEN Listed ELSE Recorded)
       /\ \/ /\ IF p = Metadata THEN stateFile' = NoState /\ UNCHANGED paths
                ELSE SafeRemove(p) /\ UNCHANGED stateFile
             /\ IF p = "postgres" THEN LoseDirectory ELSE UNCHANGED database
             /\ doomed' = doomed \ {p}
             /\ UNCHANGED <<script, headMode, loaded, made, stage, wasRunning, password, envFiles, broken>>
          \/ Return /\ broken' = TRUE /\ UNCHANGED rootVars
  /\ UNCHANGED kills

----------------------------------------------------------------------------
(* Install                                                                 *)

\* Mutant: the paths of a head are looked for on every node.
ConflictsOfHead(isHead) == {p \in CommonCore \cup HeadCore : Exists(p)}

\* discover_preexisting_managed_paths
Conflicts(isHead) == {p \in CorePaths(isHead) : Exists(p)}

\* run_install up to its first change: a state file makes it a reinstall, and
\* one that cannot be read ends it.
Install(asHead) ==
  /\ Rests
  /\ IF stateFile.kind = "whole"
     THEN /\ loaded' = stateFile
          /\ headMode' = (asHead \/ stateFile.isHead)
          /\ doomed' = stateFile.aux \cup (stateFile.core \ {Metadata})
          /\ script' = "clearing"
     ELSE /\ stateFile.kind = "none"
          /\ loaded' = NoState
          /\ headMode' = asHead
          /\ doomed' = Conflicts(asHead)
          /\ script' = "sweeping"
  /\ IF doomed' = {} THEN UNCHANGED database ELSE StopServices
  /\ password' \in 1 .. 2
  /\ UNCHANGED <<paths, stateFile, envFiles, made, stage, wasRunning, kills, broken>>

\* clear_existing_bootstrap_for_reinstall, at its end
ForgetState ==
  /\ script = "clearing" /\ doomed = {}
  /\ stateFile' = NoState
  /\ loaded' = NoState
  /\ script' = "sweeping"
  /\ UNCHANGED <<paths, database, envFiles, headMode, made, doomed, stage, wasRunning, password, kills, broken>>

\* first_install_preflight and mark_first_install_core_paths: the managed
\* paths that are there after all go, and which auxiliary paths are there is
\* noted before they are made.  Mutant: after they were made.
PreflightLate ==
  /\ script = "sweeping" /\ doomed = {}
  /\ IF Conflicts(headMode) # {}
     THEN doomed' = Conflicts(headMode) /\ StopServices /\ UNCHANGED <<script, paths, made>>
     ELSE /\ made' = [aux |-> {}, core |-> {Metadata} \cup CorePaths(headMode)]
          /\ paths' = [p \in Paths |-> IF p \in Auxiliary /\ ~ Exists(p) THEN "script" ELSE paths[p]]
          /\ script' = "installing"
          /\ UNCHANGED <<doomed, database>>
  /\ UNCHANGED <<stateFile, envFiles, headMode, loaded, stage, wasRunning, password, kills, broken>>

Preflight ==
  /\ script = "sweeping" /\ doomed = {}
  /\ IF Conflicts(headMode) # {}
     THEN doomed' = Conflicts(headMode) /\ StopServices /\ UNCHANGED <<script, paths, made>>
     ELSE /\ made' = [aux |-> {p \in Auxiliary : ~ Exists(p)},
                      core |-> {Metadata} \cup CorePaths(headMode)]
          /\ paths' = [p \in Paths |-> IF p \in Auxiliary /\ ~ Exists(p) THEN "script" ELSE paths[p]]
          /\ script' = "installing"
          /\ UNCHANGED <<doomed, database>>
  /\ UNCHANGED <<stateFile, envFiles, headMode, loaded, stage, wasRunning, password, kills, broken>>

----------------------------------------------------------------------------
(* The stages: each may be skipped by request or raise half-way.           *)

Raise == script' = "failed" /\ UNCHANGED stage
Proceed == stage' = stage + 1 /\ UNCHANGED script

Stage(n, onHead, p) ==
  /\ script = "installing" /\ stage = n
  /\ \/ Proceed /\ UNCHANGED <<paths, database>>
     \/ /\ onHead => headMode
        /\ paths' = [paths EXCEPT ![p] = "script"]
        /\ Proceed \/ Raise
        /\ UNCHANGED database
     \/ (onHead => headMode) /\ Raise /\ UNCHANGED <<paths, database>>
  /\ UNCHANGED <<stateFile, headMode, loaded, made, doomed, envFiles, wasRunning, password, kills, broken>>

EnsureMainVenv == Stage(0, FALSE, ".venv")
BuildTreeple == Stage(1, FALSE, "treeple")
BuildTorchCluster == Stage(2, FALSE, "cluster")
EnsureSeaweedBinary == Stage(4, TRUE, "seaweedfs")
EnsureSymlinkedBinaries == Stage(5, TRUE, ".venv")

StartDatabase == database' = [database EXCEPT !.runs = TRUE, !.password = password]

\* The data directory is initialised with the given password, and the
\* database runs from then on.
EnsurePostgresReady ==
  /\ script = "installing" /\ stage = 3
  /\ \/ Proceed /\ UNCHANGED <<paths, database>>
     \/ /\ headMode
        /\ paths' = [paths EXCEPT !["postgres"] = "script"]
        /\ \/ StartDatabase /\ (Proceed \/ Raise)
           \/ Raise /\ UNCHANGED database
     \/ headMode /\ Raise /\ UNCHANGED <<paths, database>>
  /\ UNCHANGED <<stateFile, headMode, loaded, made, doomed, envFiles, wasRunning, password, kills, broken>>

\* write_state; if it raises half-way, a state file is there, and nothing is
\* cleaned up.
WriteState ==
  /\ script = "installing" /\ stage = 6
  /\ \/ stateFile' \in {State("whole", headMode, made.aux, made.core), TornState} /\ Return
     \/ script' = "failed" /\ UNCHANGED <<stateFile, scriptVars>>
  /\ UNCHANGED <<paths, database, envFiles, kills, broken>>

\* cleanup_failed_first_install
CleanUp ==
  /\ script = "failed"
  /\ StopServices
  /\ doomed' = made.aux \cup made.core
  /\ script' = "cleaning"
  /\ UNCHANGED <<paths, stateFile, envFiles, headMode, loaded, made, stage, wasRunning, password, kills, broken>>

----------------------------------------------------------------------------
(* Uninstall and rotation                                                  *)

\* run_uninstall: it needs the state file, which goes with the first of the
\* core paths.
Uninstall ==
  /\ Rests
  /\ stateFile.kind = "whole"
  /\ StopServices
  /\ loaded' = stateFile
  /\ doomed' = stateFile.aux \cup stateFile.core
  /\ script' = "removing"
  /\ UNCHANGED <<paths, stateFile, envFiles, headMode, made, stage, wasRunning, password, kills, broken>>

\* The removals are over, or the rotation is.
Finish ==
  /\ \/ script \in {"removing", "cleaning"} /\ doomed = {}
     \/ script = "rotated"
  /\ Return
  /\ UNCHANGED <<rootVars, kills, broken>>

\* run_rotate_postgres_password, up to where it stops the database; a stop
\* that pg_ctl reports to have failed ends it there.
Rotate ==
  /\ Rests
  /\ stateFile.kind = "whole" /\ stateFile.isHead
  /\ database.password # 0
  /\ database' = [database EXCEPT !.runs = FALSE, !.unstopped = FALSE]
  /\ \/ password' \in 1 .. 2 /\ wasRunning' = database.runs /\ script' = "rotating"
     \/ database.runs /\ UNCHANGED <<password, wasRunning, script>>
  /\ UNCHANGED <<paths, stateFile, envFiles, headMode, loaded, made, doomed, stage, kills, broken>>

\* The password is changed in single-user mode; then the database is started
\* to try it.  Either may raise.
ApplyPassword ==
  /\ script = "rotating"
  /\ \/ /\ StartDatabase
        /\ \/ script' = "trying" /\ UNCHANGED scriptVars
           \/ Return
     \/ database' \in {database, [database EXCEPT !.password = password]} /\ Return
  /\ UNCHANGED <<paths, stateFile, envFiles, kills, broken>>

\* It is stopped again if it was found so, which may raise.
StopIfFoundSo ==
  /\ script = "trying"
  /\ \/ /\ script' = "syncing"
        /\ database' = [database EXCEPT !.runs = wasRunning]
        /\ UNCHANGED scriptVars
     \/ ~ wasRunning /\ Return /\ UNCHANGED database
  /\ UNCHANGED <<paths, stateFile, envFiles, kills, broken>>

\* sync_postgres_password_to_env_files: one file after the other
SyncEnvFiles ==
  /\ script = "syncing"
  /\ envFiles' = IF envFiles[1] # password THEN <<password, envFiles[2]>> ELSE <<password, password>>
  /\ script' = IF envFiles' = <<password, password>> THEN "rotated" ELSE script
  /\ UNCHANGED <<paths, stateFile, database, scriptVars, kills, broken>>

----------------------------------------------------------------------------
\* The call is killed; a state file that was being written is torn.
Kill ==
  /\ ~ Rests
  /\ kills < MaxKills
  /\ kills' = kills + 1
  /\ broken' = TRUE
  /\ stateFile' \in IF script = "installing" /\ stage = 6 THEN {stateFile, TornState} ELSE {stateFile}
  /\ Return
  /\ UNCHANGED <<paths, database, envFiles>>

\* Somebody makes a path of his own.
UserMakes(p) ==
  /\ Rests
  /\ ~ Exists(p)
  /\ p = "tmp/ray" => Exists("tmp")
  /\ paths' = [paths EXCEPT ![p] = "user"]
  /\ UNCHANGED <<script, stateFile, database, envFiles, scriptVars, kills, broken>>

Removals ==
  \/ RemoveNext("clearing")
  \/ RemoveNext("sweeping")
  \/ RemoveNext("cleaning")
  \/ RemoveNext("removing")

BootstrapNext ==
  \/ \E asHead \in BOOLEAN : Install(asHead)
  \/ Removals \/ ForgetState \/ Preflight
  \/ EnsureMainVenv \/ BuildTreeple \/ BuildTorchCluster
  \/ EnsurePostgresReady \/ EnsureSeaweedBinary \/ EnsureSymlinkedBinaries
  \/ WriteState \/ CleanUp
  \/ Uninstall \/ Finish
  \/ Rotate \/ ApplyPassword \/ StopIfFoundSo \/ SyncEnvFiles
  \/ Kill
  \/ \E p \in UserPaths : UserMakes(p)

BootstrapSpec == BootstrapInit /\ [][BootstrapNext]_bootstrapVars

----------------------------------------------------------------------------
OfScript == {p \in Paths : paths[p] = "script"}

\* Unless a call was killed or could not remove something, the state file
\* lists all that the script has made, and without one there is nothing left
\* of it, and a database runs only if pg_ctl did not stop it.  The exception is
\* tmp, which the clean-up of a failed install leaves behind: it comes to it
\* before it comes to tmp/ray.  Of a state file that cannot be read, since
\* write_state raised or was killed in the middle, nothing is said; no later
\* call gets past it.  After a rotation everybody has the new password, and
\* the database runs if it did before.  And whatever was killed, a server
\* goes on without its directory only if pg_ctl failed to stop it.
RootIsOwned ==
  /\ ~ broken =>
       /\ Rests /\ stateFile.kind = "whole" =>
            /\ OfScript \ {"tmp"} \subseteq stateFile.aux \cup stateFile.core
            /\ \A p \in stateFile.aux : Exists(p)
       /\ Rests /\ stateFile.kind = "none" =>
            OfScript \subseteq {"tmp"} /\ (database.runs => database.unstopped)
       /\ script = "rotated" => /\ envFiles = <<database.password, database.password>>
                                /\ database.runs = wasRunning
  /\ ~ database.abandoned

\* What somebody else made survives every call, whichever ended badly before,
\* unless it bears the name of a core path of this kind of node or, once a
\* removal has broken off, of a path still listed as the script's.
UserPathsKept ==
  [][\A p \in Paths : paths[p] = "user" /\ paths'[p] # "user" =>
       \/ p \in CorePaths(IF script = "sweeping" THEN headMode ELSE loaded.isHead)
       \/ broken /\ p \in loaded.aux]_bootstrapVars
=============================================================================
