------------------------- MODULE HostPrograms_proof -------------------------
(***************************************************************************)
(* The programs that prepare the machines: the bring-up of a cluster, the  *)
(* preparation of a node, and the raw files of its datasets.  They share no *)
(* state; each part below is about one of them.                            *)
(***************************************************************************)
EXTENDS ClusterBringUp, NativeBootstrap, DatasetAssets, TLAPS

----------------------------------------------------------------------------
(***************************************************************************)
(* That a campaign starts on a whole cluster only, and alone if that was   *)
(* asked for: for any inventory, any routes between its nodes, and whatever *)
(* raises, times out or is lost.                                           *)
(***************************************************************************)

ClusterTypeOK ==
  /\ bringUp \in {"probing", "preparing", "starting", "up", "validating", "stopping",
                  "submitting", "submitted", "raised", "failed"}
  /\ force \in BOOLEAN /\ exclusive \in BOOLEAN /\ answered \in BOOLEAN /\ placeable \in BOOLEAN
  /\ plan \in Plans
  /\ routes \in [Plans -> SUBSET Workers]
  /\ cluster \in Plans \cup {"down"}
  /\ campaign \in [Campaigns -> {"none", "active", "stopping", "ended", "lost"}]

\* Ray's table has a row of each node that is a member, and of nodes of the
\* inventory only.
TableInv == members \subseteq table /\ table \subseteq Nodes

\* A validation that has passed is not undone by nodes that leave: Ray keeps
\* their rows until ray down, which comes before the validation.
WholeInv == bringUp \in {"stopping", "submitting"} => table = Nodes /\ placeable

NoneActive == \A c \in Campaigns : campaign[c] # "active"

\* A forced call never skips ray down, which is the end of all campaigns; an
\* exclusive one has asked all to stop when it submits.
AloneInv ==
  /\ force /\ bringUp \in {"up", "validating", "stopping", "submitting"} => NoneActive
  /\ exclusive /\ bringUp = "submitting" => NoneActive
  /\ RunsAloneIfAsked

ClusterInv == ClusterTypeOK /\ TableInv /\ WholeInv /\ AloneInv

\* The invariant holds of the cluster a call finds.
LEMMA ClusterInitInv == ClusterInit => ClusterInv
<1> SUFFICES ASSUME ClusterInit PROVE ClusterInv
  OBVIOUS
<1>1. members \in SUBSET Nodes
  <2>1. CASE Down
    BY <2>1 DEF ClusterInit
  <2>2. CASE ~ Down
    <3>1. cluster \in Plans /\ routes[cluster] \in SUBSET Workers
      BY <2>2 DEF ClusterInit, Down
    <3>2. members \in {{HeadNode} \cup W : W \in SUBSET routes[cluster]}
      BY <2>2 DEF ClusterInit
    <3>3. QED
      BY <3>1, <3>2 DEF Nodes
  <2>3. QED
    BY <2>1, <2>2
<1>2. ClusterTypeOK
  BY DEF ClusterInit, ClusterTypeOK, Plans, Campaigns
<1>3. TableInv
  BY <1>1 DEF ClusterInit, TableInv
<1>4. WholeInv /\ AloneInv
  BY DEF ClusterInit, WholeInv, AloneInv, RunsAloneIfAsked
<1>5. QED
  BY <1>2, <1>3, <1>4 DEF ClusterInv

\* The types survive each step.
LEMMA StepTypes == ClusterTypeOK /\ ClusterNext => ClusterTypeOK'
<1> SUFFICES ASSUME ClusterTypeOK, ClusterNext PROVE ClusterTypeOK'
  OBVIOUS
<1> USE DEF ClusterTypeOK, nodeVars, callVars, Plans
<1>1. CASE Probe
  BY <1>1 DEF Probe, Answers
<1>2. CASE Prepare
  BY <1>2 DEF Prepare
<1>3. CASE Start
  BY <1>3 DEF Start, TearDown, Answers
<1>4. CASE Up
  BY <1>4 DEF Up
<1>5. CASE Validate
  BY <1>5 DEF Validate
<1>6. CASE StopOthers
  BY <1>6 DEF StopOthers
<1>7. CASE Submit
  BY <1>7 DEF Submit
<1>8. CASE FallBack
  BY <1>8 DEF FallBack
<1>9. CASE \E w \in Workers : Join(w) \/ Leave(w)
  BY <1>9 DEF Join, Leave
<1>10. CASE \E c \in Campaigns : CampaignEnd(c)
  BY <1>10 DEF CampaignEnd
<1>11. QED
  BY <1>1, <1>2, <1>3, <1>4, <1>5, <1>6, <1>7, <1>8, <1>9, <1>10 DEF ClusterNext

\* The table loses rows in ray down only, and a node that is not in the
\* inventory has no route to join by.
LEMMA StepTable == ClusterTypeOK /\ TableInv /\ WholeInv /\ ClusterNext => TableInv' /\ WholeInv'
<1> SUFFICES ASSUME ClusterTypeOK, TableInv, WholeInv, ClusterNext PROVE TableInv' /\ WholeInv'
  OBVIOUS
<1> USE DEF TableInv, WholeInv, nodeVars, callVars
<1>1. CASE Probe \/ Prepare \/ StopOthers \/ Submit \/ FallBack
  BY <1>1 DEF Probe, Prepare, StopOthers, Submit, FallBack
<1>2. CASE Start
  BY <1>2 DEF Start, TearDown
<1>3. CASE Up
  BY <1>3 DEF Up, Nodes
<1>4. CASE Validate
  BY <1>4 DEF Validate, Passes
<1>5. ASSUME NEW w \in Workers, Join(w) PROVE TableInv' /\ WholeInv'
  BY <1>5 DEF Join, Nodes
<1>6. ASSUME NEW w \in Workers, Leave(w) PROVE TableInv' /\ WholeInv'
  BY <1>6 DEF Leave
<1>7. CASE \E c \in Campaigns : CampaignEnd(c)
  BY <1>7 DEF CampaignEnd
<1>8. QED
  BY <1>1, <1>2, <1>3, <1>4, <1>5, <1>6, <1>7 DEF ClusterNext

\* No step makes a campaign active beside one that was to be alone.
LEMMA StepAlone == ClusterTypeOK /\ AloneInv /\ ClusterNext => AloneInv'
<1> SUFFICES ASSUME ClusterTypeOK, AloneInv, ClusterNext PROVE AloneInv'
  OBVIOUS
<1> USE DEF ClusterTypeOK, AloneInv, NoneActive, RunsAloneIfAsked, nodeVars, callVars
<1>1. CASE Probe \/ Prepare \/ Validate \/ FallBack
  <2>1. /\ UNCHANGED <<force, exclusive, campaign>>
        /\ bringUp' \in {"preparing", "failed", "starting", "stopping", "raised"}
        /\ bringUp' = "stopping" => bringUp = "validating"
    BY <1>1 DEF Probe, Prepare, Validate, FallBack
  <2>2. QED
    BY <2>1
<1>2. CASE Start
  <2>1. force' = force /\ exclusive' = exclusive /\ bringUp' \in {"validating", "up", "raised"}
    BY <1>2 DEF Start
  <2>2. CASE TearDown
    <3>1. \A c \in Campaigns : campaign'[c] # "active"
      BY <2>2 DEF TearDown
    <3>2. QED
      BY <2>1, <3>1
  <2>3. CASE bringUp' = "validating" /\ answered'
    <3>1. ~ force
      BY <1>2, <2>3 DEF Start
    <3>2. QED
      BY <2>1, <2>3, <3>1
  <2>4. CASE bringUp' = "raised"
    BY <2>1, <2>4
  <2>5. QED
    BY <1>2, <2>2, <2>3, <2>4 DEF Start
<1>3. CASE Up
  BY <1>3 DEF Up
<1>4. CASE StopOthers
  BY <1>4 DEF StopOthers
<1>5. CASE Submit
  BY <1>5 DEF Submit, Plans
<1>6. CASE \E w \in Workers : Join(w) \/ Leave(w)
  BY <1>6 DEF Join, Leave
<1>7. CASE \E c \in Campaigns : CampaignEnd(c)
  BY <1>7 DEF CampaignEnd
<1>8. QED
  BY <1>1, <1>2, <1>3, <1>4, <1>5, <1>6, <1>7 DEF ClusterNext

\* Every step preserves the invariant, part by part.
LEMMA ClusterStepInv == ClusterInv /\ [ClusterNext]_clusterVars => ClusterInv'
<1>1. ClusterInv /\ ClusterNext => ClusterInv'
  BY StepTypes, StepTable, StepAlone DEF ClusterInv
<1>2. ClusterInv /\ UNCHANGED clusterVars => ClusterInv'
  BY DEF ClusterInv, ClusterTypeOK, TableInv, WholeInv, AloneInv, NoneActive, RunsAloneIfAsked,
     clusterVars, callVars, nodeVars
<1>3. QED
  BY <1>1, <1>2

\* It therefore holds throughout.
LEMMA ClusterInvHolds == ClusterSpec => []ClusterInv
  BY ClusterInitInv, ClusterStepInv, PTL DEF ClusterSpec

\* For any inventory: a forced call leaves its own campaign alone on the
\* cluster, an exclusive one none beside it that was not asked to stop.
THEOREM OwnCampaignOnly == ClusterSpec => []RunsAloneIfAsked
<1>1. ClusterInv => RunsAloneIfAsked
  BY DEF ClusterInv, AloneInv
<1>2. QED
  BY ClusterInvHolds, <1>1, PTL

\* For any inventory: a campaign is submitted only when every node has been in
\* the cluster since it was started, and the pairs can be placed.
THEOREM WholeClusterOnly == ClusterSpec => SubmitsToWholeCluster
<1>1. ASSUME ClusterInv, ClusterNext, NEW c \in Campaigns, Submitted(c)
      PROVE  table = Nodes /\ placeable
  <2> USE DEF Submitted
  <2>1. ~ (Probe \/ Prepare \/ Up \/ Validate \/ FallBack)
    BY <1>1 DEF Probe, Prepare, Up, Validate, FallBack
  <2>2. ~ Start /\ ~ StopOthers
    BY <1>1 DEF Start, TearDown, StopOthers
  <2>3. ~ \E w \in Workers : Join(w) \/ Leave(w)
    BY <1>1 DEF Join, Leave
  <2>4. ~ \E d \in Campaigns : CampaignEnd(d)
    BY <1>1 DEF CampaignEnd, ClusterInv, ClusterTypeOK
  <2>5. Submit
    BY <1>1, <2>1, <2>2, <2>3, <2>4 DEF ClusterNext
  <2>6. QED
    BY <1>1, <2>5 DEF Submit, ClusterInv, WholeInv
<1>2. ClusterInv /\ [ClusterNext]_clusterVars =>
        [(\E c \in Campaigns : Submitted(c)) => table = Nodes /\ placeable]_clusterVars
  BY <1>1
<1>3. QED
  BY <1>2, ClusterInvHolds, PTL DEF ClusterSpec, SubmitsToWholeCluster

----------------------------------------------------------------------------
(***************************************************************************)
(* That the script removes what it has made and nothing of anybody else,   *)
(* wherever it is killed: for any paths of a user and any number of kills. *)
(* While no call has broken off, what the script owns is what its state file *)
(* lists; from the moment it deletes or makes, the list it works from      *)
(* (doomed, made) stands for it, and the state file is gone before the last *)
(* path is, and back only after all are there.                             *)
(***************************************************************************)

Owners == {"user", "script", "nobody"}
Listable == Paths \cup {Metadata}
States == [kind : {"none", "torn", "whole"}, isHead : BOOLEAN,
           aux : SUBSET Auxiliary, core : SUBSET Listable]

Databases == [runs : BOOLEAN, password : 0 .. 2, unstopped : BOOLEAN, abandoned : BOOLEAN]

RootTypeOK ==
  /\ headMode \in BOOLEAN
  /\ paths \in [Paths -> Owners]
  /\ stateFile \in States /\ loaded \in States
  /\ made \in [aux : SUBSET Auxiliary, core : SUBSET Listable]
  /\ doomed \subseteq Listable
  /\ database \in Databases
  /\ password \in 1 .. 2
  /\ wasRunning \in BOOLEAN

Rotates == {"rotating", "trying", "syncing", "rotated"}
Installs == {"installing", "failed", "cleaning"}

\* What is removed and made, whether or not a call has broken off: a state file
\* lists all core paths, and an install touches nothing of somebody else's.
ListsInv ==
  /\ \A s \in {stateFile, loaded} : s.kind = "whole" => s.core = {Metadata} \cup CorePaths(s.isHead)
  /\ script \in {"clearing", "removing"} =>
       loaded.kind = "whole" /\ doomed \subseteq loaded.aux \cup loaded.core
  /\ script = "sweeping" => doomed \subseteq CorePaths(headMode)
  /\ script \in Installs =>
       /\ made.core = {Metadata} \cup CorePaths(headMode)
       /\ \A p \in Paths : p \in made.aux \cup made.core => paths[p] # "user"
  /\ script = "cleaning" => doomed \subseteq made.aux \cup made.core
  /\ script \in Rotates => stateFile.kind = "whole"

\* Who tried to stop the database, whether or not a call has broken off: paths
\* are removed only when it does not run or pg_ctl has failed to stop it.
ServerDown == database.runs => database.unstopped

StopInv ==
  /\ ~ database.abandoned
  /\ script \in {"clearing", "removing", "cleaning"} => ServerDown
  /\ script = "sweeping" /\ doomed # {} => ServerDown

\* What the script has made, while no call has broken off
OwnedBy(aux, core) ==
  /\ OfScript \ {"tmp"} \subseteq aux \cup core
  /\ \A p \in aux : paths[p] = "script"

NothingLeft == OfScript \subseteq {"tmp"} /\ ServerDown

OwnedInv ==
  /\ script \in {"idle"} \cup Rotates =>
       /\ stateFile.kind = "whole" => OwnedBy(stateFile.aux, stateFile.core)
       /\ stateFile.kind = "none" => NothingLeft
  /\ script \in {"clearing", "removing"} => OwnedBy(loaded.aux \cap doomed, doomed)
  /\ script = "removing" => Metadata \in doomed \/ stateFile.kind = "none"
  /\ script = "sweeping" => NothingLeft /\ stateFile.kind = "none"
  /\ script \in {"installing", "failed"} => OwnedBy(made.aux, made.core)
  /\ script \in Installs => stateFile.kind = "none"
  /\ script = "cleaning" => OfScript \ {"tmp"} \subseteq doomed

\* How far a rotation has come
RotationInv ==
  /\ script = "trying" => database.runs /\ database.password = password
  /\ script \in {"syncing", "rotated"} =>
       database.runs = wasRunning /\ database.password = password
  /\ script = "rotated" => envFiles = <<password, password>>

RootInv == RootTypeOK /\ ListsInv /\ StopInv /\ (~ broken => OwnedInv) /\ RotationInv

----------------------------------------------------------------------------
\* The names of the paths are different.
LEMMA PathNames ==
  /\ Metadata \notin Paths /\ "tmp" \in Auxiliary /\ "tmp/ray" \in Auxiliary
  /\ Auxiliary \subseteq Paths
  /\ \A h \in BOOLEAN : CorePaths(h) \subseteq Paths /\ CorePaths(h) \cap Auxiliary = {}
  /\ \A h \in BOOLEAN : ".venv" \in CorePaths(h) /\ "treeple" \in CorePaths(h) /\ "cluster" \in CorePaths(h)
  /\ "postgres" \in CorePaths(TRUE) /\ "seaweedfs" \in CorePaths(TRUE)
BY DEF Metadata, Paths, CommonCore, HeadCore, Auxiliary, CorePaths

\* A removal takes at most the one path, and tmp perhaps not.
LEMMA SafeRemoveEffect ==
  ASSUME RootTypeOK, NEW p \in Paths, SafeRemove(p)
  PROVE  /\ paths' \in [Paths -> Owners]
         /\ \A q \in Paths : paths'[q] = paths[q] \/ (q = p /\ paths'[q] = "nobody")
         /\ OfScript' \ {"tmp"} \subseteq OfScript \ {"tmp", p}
         /\ OfScript' \subseteq OfScript
<1>1. /\ paths' \in [Paths -> Owners]
      /\ \A q \in Paths : paths'[q] = paths[q] \/ (q = p /\ paths'[q] = "nobody")
      /\ p # "tmp" => paths'[p] = "nobody"
  BY DEF RootTypeOK, SafeRemove, Owners
<1>2. QED
  BY <1>1 DEF OfScript

\* What a return leaves is what it found, if a rest may find it.
LEMMA ReturnInv ==
  ASSUME RootInv, Return, paths' \in [Paths -> Owners], stateFile' \in States,
         database' \in Databases, ~ database'.abandoned,
         stateFile'.kind = "whole" => stateFile'.core = {Metadata} \cup CorePaths(stateFile'.isHead),
         ~ broken' =>
           /\ stateFile'.kind = "whole" => OwnedBy(stateFile.aux, stateFile.core)'
           /\ stateFile'.kind = "none" => NothingLeft'
  PROVE  RootInv'
<1>1. /\ script' = "idle" /\ headMode' = FALSE /\ loaded' = NoState /\ made' = NothingMade
      /\ doomed' = {} /\ wasRunning' = FALSE /\ password' = 1
  BY DEF Return
<1>2. NoState \in States /\ NoState.kind = "none" /\ NothingMade \in [aux : SUBSET Auxiliary, core : SUBSET Listable]
  BY DEF NoState, State, States, NothingMade
<1>3. RootTypeOK'
  <2>1. headMode' \in BOOLEAN /\ wasRunning' \in BOOLEAN /\ password' \in 1 .. 2
    <3>1. headMode' \in BOOLEAN /\ wasRunning' \in BOOLEAN
      BY <1>1, Zenon
    <3>2. password' \in 1 .. 2
      BY <1>1
    <3>3. QED
      BY <3>1, <3>2
  <2>2. loaded' \in States /\ made' \in [aux : SUBSET Auxiliary, core : SUBSET Listable]
        /\ doomed' \subseteq Listable
    BY <1>1, <1>2
  <2>3. QED
    BY <2>1, <2>2 DEF RootTypeOK
<1>4. ListsInv'
  BY <1>1, <1>2 DEF ListsInv, Installs, Rotates
<1>5. ~ broken' => OwnedInv'
  BY <1>1 DEF OwnedInv, Installs, Rotates
<1>6. RotationInv' /\ StopInv'
  BY <1>1 DEF RotationInv, StopInv
<1>7. QED
  BY <1>3, <1>4, <1>5, <1>6 DEF RootInv

\* One path of the list is removed, or the removal raises.
LEMMA RemoveNextInv ==
  ASSUME RootInv, NEW where \in {"clearing", "sweeping", "cleaning", "removing"}, RemoveNext(where)
  PROVE  RootInv'
<1>1. script = where
  BY DEF RemoveNext
<1>2. CASE Return /\ broken' = TRUE /\ UNCHANGED rootVars
  BY <1>2, ReturnInv DEF rootVars, RootInv, RootTypeOK, ListsInv, StopInv
<1>3. CASE ~ (Return /\ broken' = TRUE /\ UNCHANGED rootVars)
  <2>1. PICK p \in doomed :
             /\ IF p = Metadata THEN stateFile' = NoState /\ UNCHANGED paths
                ELSE SafeRemove(p) /\ UNCHANGED stateFile
             /\ IF p = "postgres" THEN LoseDirectory ELSE UNCHANGED database
             /\ doomed' = doomed \ {p}
             /\ UNCHANGED <<script, headMode, loaded, made, stage, wasRunning, password, envFiles, broken>>
    <3>1. RemoveNext(where)
      OBVIOUS
    <3>2. QED
      BY <1>3, <3>1 DEF RemoveNext
  <2>2. p \in Listable
    BY DEF RootInv, RootTypeOK
  <2>3. NoState \in States /\ NoState.kind = "none"
    BY DEF NoState, State, States
  <2>4. /\ database' \in Databases /\ ~ database'.abandoned
        /\ ServerDown /\ ServerDown'
    <3>1. database \in Databases /\ ~ database.abandoned /\ ServerDown
      BY <1>1, <2>1 DEF RootInv, RootTypeOK, StopInv
    <3>2. CASE LoseDirectory
      <4>1. database.runs /\ ~ database.unstopped <=> FALSE
        BY <3>1 DEF ServerDown
      <4>2. database' = NoDatabase
        BY <3>1, <3>2, <4>1 DEF LoseDirectory, NoDatabase, Databases
      <4>3. QED
        BY <3>1, <4>2 DEF NoDatabase, Databases, ServerDown
    <3>3. QED
      BY <2>1, <3>1, <3>2 DEF ServerDown
  <2>5. /\ paths' \in [Paths -> Owners]
        /\ \A q \in Paths : paths'[q] = paths[q] \/ (q = p /\ paths'[q] = "nobody")
        /\ OfScript' \ {"tmp"} \subseteq OfScript \ {"tmp", p}
        /\ OfScript' \subseteq OfScript
    <3>1. CASE p = Metadata
      BY <2>1, <3>1, PathNames DEF RootInv, RootTypeOK, OfScript
    <3>2. CASE p # Metadata
      BY <2>1, <2>2, <3>2, SafeRemoveEffect DEF RootInv, Listable
    <3>3. QED
      BY <3>1, <3>2
  <2>6. stateFile' = stateFile \/ (stateFile' = NoState /\ p = Metadata)
    BY <2>1
  <2>7. RootTypeOK'
    BY <2>1, <2>3, <2>4, <2>5, <2>6 DEF RootInv, RootTypeOK
  <2>8. ListsInv'
    <3>1. \A q \in Paths : paths[q] # "user" => paths'[q] # "user"
      BY <2>5
    <3>2. QED
      BY <1>1, <2>1, <2>3, <2>6, <3>1 DEF RootInv, ListsInv, Installs, Rotates
  <2>9. ASSUME ~ broken PROVE OwnedInv'
    <3>1. loaded.aux \subseteq Auxiliary
      BY DEF RootInv, RootTypeOK, States
    <3>2. CASE where \in {"clearing", "removing"}
      <4>1. OwnedBy(loaded.aux \cap doomed, doomed)'
        BY <1>1, <2>1, <2>5, <2>9, <3>1, <3>2, PathNames DEF RootInv, OwnedInv, OwnedBy
      <4>2. where = "removing" => Metadata \in doomed' \/ stateFile'.kind = "none"
        BY <1>1, <2>1, <2>3, <2>6, <2>9 DEF RootInv, OwnedInv
      <4>3. QED
        BY <1>1, <2>1, <3>2, <4>1, <4>2 DEF OwnedInv, Installs, Rotates
    <3>3. CASE where = "sweeping"
      BY <1>1, <2>1, <2>3, <2>4, <2>5, <2>6, <2>9, <3>3
      DEF RootInv, OwnedInv, NothingLeft, Installs, Rotates
    <3>4. CASE where = "cleaning"
      BY <1>1, <2>1, <2>3, <2>4, <2>5, <2>6, <2>9, <3>4
      DEF RootInv, OwnedInv, Installs, Rotates
    <3>5. QED
      BY <3>2, <3>3, <3>4
  <2>10. RotationInv' /\ StopInv'
    BY <1>1, <2>1, <2>4 DEF RotationInv, StopInv
  <2>11. QED
    BY <2>1, <2>7, <2>8, <2>9, <2>10 DEF RootInv
<1>4. QED
  BY <1>2, <1>3

\* The services are stopped: the database no longer runs, or pg_ctl failed.
LEMMA StopEffect ==
  ASSUME RootTypeOK, StopServices
  PROVE  /\ database' \in Databases
         /\ ServerDown' /\ database'.abandoned = database.abandoned
BY DEF RootTypeOK, StopServices, Databases, ServerDown

\* An install begins with what is to be removed: what the state file lists, or
\* the paths that are there without one.
LEMMA InstallInv ==
  ASSUME RootInv, NEW asHead \in BOOLEAN, Install(asHead)
  PROVE  RootInv'
<1>1. /\ script = "idle" /\ password' \in 1 .. 2
      /\ IF doomed' = {} THEN UNCHANGED database ELSE StopServices
      /\ UNCHANGED <<paths, stateFile, envFiles, made, stage, wasRunning, kills, broken>>
  BY DEF Install, Rests
<1>2. /\ database' \in Databases /\ ~ database'.abandoned
      /\ doomed' # {} \/ ServerDown => ServerDown'
  <2>1. ~ database.abandoned /\ RootTypeOK
    BY DEF RootInv, StopInv
  <2>2. CASE StopServices
    BY <2>1, <2>2, StopEffect
  <2>3. CASE UNCHANGED database /\ doomed' = {}
    BY <2>1, <2>3 DEF RootTypeOK, ServerDown
  <2>4. QED
    BY <1>1, <2>2, <2>3
<1>3. CASE stateFile.kind = "whole"
  <2>1. /\ loaded' = stateFile /\ headMode' = (asHead \/ stateFile.isHead)
        /\ doomed' = stateFile.aux \cup (stateFile.core \ {Metadata})
        /\ script' = "clearing"
    BY <1>3 DEF Install
  <2>2. stateFile \in States /\ stateFile.aux \subseteq Auxiliary /\ stateFile.isHead \in BOOLEAN
    BY DEF RootInv, RootTypeOK, States
  <2>3. stateFile.core = {Metadata} \cup CorePaths(stateFile.isHead)
    BY <1>3 DEF RootInv, ListsInv
  <2>4. doomed' = stateFile.aux \cup CorePaths(stateFile.isHead) /\ doomed' # {} /\ doomed' \subseteq Listable
    BY <2>1, <2>2, <2>3, PathNames DEF Listable
  <2>5. RootTypeOK'
    BY <1>1, <1>2, <2>1, <2>2, <2>4 DEF RootInv, RootTypeOK
  <2>6. ListsInv'
    <3>1. loaded'.kind = "whole" /\ doomed' \subseteq loaded'.aux \cup loaded'.core
      BY <1>3, <2>1
    <3>2. QED
      BY <1>1, <2>1, <2>3, <3>1 DEF ListsInv, Installs, Rotates
  <2>7. ASSUME ~ broken PROVE OwnedInv'
    <3>1. OwnedBy(stateFile.aux, stateFile.core)
      BY <1>1, <1>3, <2>7 DEF RootInv, OwnedInv
    <3>2. Metadata \notin OfScript
      BY PathNames DEF OfScript
    <3>3. OwnedBy(loaded.aux \cap doomed, doomed)'
      BY <1>1, <2>1, <2>3, <2>4, <3>1, <3>2 DEF OwnedBy, OfScript
    <3>4. QED
      BY <1>2, <2>1, <2>4, <3>3 DEF OwnedInv, Installs, Rotates
  <2>8. RotationInv' /\ StopInv'
    BY <1>2, <2>1, <2>4 DEF RotationInv, StopInv
  <2>9. QED
    BY <1>1, <2>5, <2>6, <2>7, <2>8 DEF RootInv
<1>4. CASE stateFile.kind # "whole"
  <2>1. /\ stateFile.kind = "none" /\ loaded' = NoState /\ headMode' = asHead
        /\ doomed' = Conflicts(asHead) /\ script' = "sweeping"
    BY <1>4 DEF Install
  <2>2. NoState \in States /\ NoState.kind = "none"
    BY DEF NoState, State, States
  <2>3. doomed' \subseteq CorePaths(asHead) /\ doomed' \subseteq Listable
    BY <2>1, PathNames DEF Conflicts, Listable
  <2>4. RootTypeOK'
    BY <1>1, <1>2, <2>1, <2>2, <2>3 DEF RootInv, RootTypeOK
  <2>5. ListsInv'
    BY <1>1, <2>1, <2>2, <2>3 DEF RootInv, ListsInv, Installs, Rotates
  <2>6. ASSUME ~ broken PROVE OwnedInv'
    <3>1. NothingLeft
      BY <1>1, <2>1, <2>6 DEF RootInv, OwnedInv
    <3>2. NothingLeft'
      BY <1>1, <1>2, <3>1 DEF NothingLeft, OfScript
    <3>3. QED
      BY <1>1, <2>1, <3>2 DEF OwnedInv, Installs, Rotates
  <2>7. RotationInv' /\ StopInv'
    BY <1>2, <2>1 DEF RotationInv, StopInv
  <2>8. QED
    BY <1>1, <2>4, <2>5, <2>6, <2>7 DEF RootInv
<1>5. QED
  BY <1>3, <1>4

\* Once what it lists is removed, a reinstall forgets the state file.
LEMMA ForgetStateInv ==
  ASSUME RootInv, ForgetState
  PROVE  RootInv'
<1> USE DEF ForgetState
<1>1. NoState \in States /\ NoState.kind = "none"
  BY DEF NoState, State, States
<1>2. RootTypeOK'
  BY <1>1 DEF RootInv, RootTypeOK
<1>3. ListsInv'
  BY <1>1 DEF RootInv, ListsInv, Installs, Rotates
<1>4. ASSUME ~ broken PROVE OwnedInv'
  <2>1. NothingLeft'
    BY <1>4 DEF RootInv, OwnedInv, OwnedBy, NothingLeft, OfScript, StopInv, ServerDown
  <2>2. QED
    BY <1>1, <2>1 DEF OwnedInv, Installs, Rotates
<1>5. RotationInv' /\ StopInv'
  BY DEF RotationInv, RootInv, StopInv
<1>6. QED
  BY <1>2, <1>3, <1>4, <1>5 DEF RootInv

\* Auxiliary paths are made, and listed, only if they were not there.
LEMMA PreflightInv ==
  ASSUME RootInv, Preflight
  PROVE  RootInv'
<1>1. /\ script = "sweeping" /\ doomed = {}
      /\ UNCHANGED <<stateFile, envFiles, headMode, loaded, stage, wasRunning, password, kills, broken>>
  BY DEF Preflight
<1>2. headMode \in BOOLEAN
  BY DEF RootInv, RootTypeOK
<1>3. CASE Conflicts(headMode) # {}
  <2>1. doomed' = Conflicts(headMode) /\ StopServices /\ UNCHANGED <<script, paths, made>>
    BY <1>3 DEF Preflight
  <2>0. database' \in Databases /\ ServerDown' /\ ~ database'.abandoned
    BY <2>1, StopEffect DEF RootInv, StopInv
  <2>2. doomed' \subseteq CorePaths(headMode) /\ doomed' \subseteq Listable
    BY <1>2, <2>1, PathNames DEF Conflicts, Listable
  <2>3. RootTypeOK'
    BY <1>1, <2>0, <2>1, <2>2 DEF RootInv, RootTypeOK
  <2>4. ListsInv'
    BY <1>1, <2>1, <2>2 DEF RootInv, ListsInv, Installs, Rotates
  <2>5. ~ broken => OwnedInv'
    BY <1>1, <2>0, <2>1 DEF RootInv, OwnedInv, Installs, Rotates, NothingLeft, OfScript
  <2>6. RotationInv' /\ StopInv'
    BY <1>1, <2>0, <2>1 DEF RotationInv, StopInv
  <2>7. QED
    BY <1>1, <2>3, <2>4, <2>5, <2>6 DEF RootInv
<1>4. CASE Conflicts(headMode) = {}
  <2>1. /\ made' = [aux |-> {p \in Auxiliary : ~ Exists(p)}, core |-> {Metadata} \cup CorePaths(headMode)]
        /\ paths' = [p \in Paths |-> IF p \in Auxiliary /\ ~ Exists(p) THEN "script" ELSE paths[p]]
        /\ script' = "installing" /\ UNCHANGED <<doomed, database>>
    BY <1>4 DEF Preflight
  <2>2. /\ made'.aux = {p \in Auxiliary : paths[p] = "nobody"}
        /\ made'.core = {Metadata} \cup CorePaths(headMode)
        /\ made' \in [aux : SUBSET Auxiliary, core : SUBSET Listable]
    BY <1>2, <2>1, PathNames DEF Exists, Listable
  <2>3. /\ \A p \in Paths : paths'[p] = IF p \in made'.aux THEN "script" ELSE paths[p]
        /\ paths' \in [Paths -> Owners]
    BY <2>1, <2>2 DEF Exists, RootInv, RootTypeOK, Owners
  <2>4. \A p \in CorePaths(headMode) : p \in Paths /\ paths[p] = "nobody" /\ p \notin Auxiliary
    BY <1>2, <1>4, PathNames DEF Conflicts, Exists
  <2>5. RootTypeOK'
    BY <1>1, <2>1, <2>2, <2>3 DEF RootInv, RootTypeOK
  <2>6. ListsInv'
    <3>1. \A p \in Paths : p \in made'.aux \cup made'.core => paths'[p] # "user"
      BY <2>2, <2>3, <2>4, PathNames
    <3>2. QED
      BY <1>1, <2>1, <2>2, <3>1 DEF RootInv, ListsInv, Installs, Rotates
  <2>7. ASSUME ~ broken PROVE OwnedInv'
    <3>1. NothingLeft /\ stateFile.kind = "none"
      BY <1>1, <2>7 DEF RootInv, OwnedInv
    <3>2. OfScript' \ {"tmp"} \subseteq made'.aux \cup made'.core
      BY <2>3, <3>1 DEF NothingLeft, OfScript
    <3>3. \A p \in made'.aux : paths'[p] = "script"
      BY <2>2, <2>3, PathNames
    <3>4. OwnedBy(made.aux, made.core)'
      BY <3>2, <3>3 DEF OwnedBy
    <3>5. QED
      BY <1>1, <2>1, <3>1, <3>4 DEF OwnedInv, Installs, Rotates
  <2>8. RotationInv' /\ StopInv'
    BY <2>1 DEF RotationInv, RootInv, StopInv
  <2>9. QED
    BY <1>1, <2>5, <2>6, <2>7, <2>8 DEF RootInv
<1>5. QED
  BY <1>3, <1>4

\* The database starts with the password of the call.
LEMMA DatabaseStarts ==
  ASSUME database \in Databases, password \in 1 .. 2, StartDatabase
  PROVE  /\ database' \in Databases
         /\ database'.abandoned = database.abandoned
         /\ database'.runs
         /\ database'.password = password
<1>1. PICK r \in BOOLEAN, w \in 0 .. 2, u \in BOOLEAN, a \in BOOLEAN :
        database = [runs |-> r, password |-> w, unstopped |-> u, abandoned |-> a]
  BY DEF Databases
<1>2. database' = [runs |-> TRUE, password |-> password, unstopped |-> u, abandoned |-> a]
  BY <1>1 DEF StartDatabase
<1>3. QED
  BY <1>1, <1>2 DEF Databases

\* A stage makes at most one path, a core path of this kind of node.
LEMMA StageInv ==
  ASSUME RootInv, script = "installing",
         paths' = paths \/ \E p \in CorePaths(headMode) : paths' = [paths EXCEPT ![p] = "script"],
         script' \in {"installing", "failed"},
         database' \in Databases, ~ database'.abandoned,
         UNCHANGED <<stateFile, headMode, loaded, made, doomed, envFiles, wasRunning, password, kills, broken>>
  PROVE  RootInv'
<1>1. headMode \in BOOLEAN /\ made.core = {Metadata} \cup CorePaths(headMode) /\ made.aux \subseteq Auxiliary
  BY DEF RootInv, RootTypeOK, ListsInv, Installs
<1>2. /\ paths' \in [Paths -> Owners]
      /\ \A q \in Paths : \/ paths'[q] = paths[q]
                          \/ q \in CorePaths(headMode) /\ paths'[q] = "script"
  BY <1>1, PathNames DEF RootInv, RootTypeOK, Owners
<1>3. RootTypeOK'
  BY <1>2 DEF RootInv, RootTypeOK
<1>4. ListsInv'
  BY <1>2 DEF RootInv, ListsInv, Installs, Rotates
<1>5. ASSUME ~ broken PROVE OwnedInv'
  <2>1. OwnedBy(made.aux, made.core) /\ stateFile.kind = "none"
    BY <1>5 DEF RootInv, OwnedInv, Installs
  <2>2. OwnedBy(made.aux, made.core)'
    BY <1>1, <1>2, <2>1, PathNames DEF OwnedBy, OfScript
  <2>3. QED
    BY <2>1, <2>2 DEF OwnedInv, Installs, Rotates
<1>6. RotationInv' /\ StopInv'
  BY DEF RotationInv, StopInv
<1>7. QED
  BY <1>3, <1>4, <1>5, <1>6 DEF RootInv

\* Each stage of the install is such a step.
LEMMA StagesInv ==
  ASSUME RootInv,
         \/ EnsureMainVenv \/ BuildTreeple \/ BuildTorchCluster
         \/ EnsurePostgresReady \/ EnsureSeaweedBinary \/ EnsureSymlinkedBinaries
  PROVE  RootInv'
<1>1. /\ headMode \in BOOLEAN /\ database \in Databases /\ password \in 1 .. 2
      /\ ~ database.abandoned
  BY DEF RootInv, RootTypeOK, StopInv
<1>2. ASSUME NEW n, NEW onHead \in BOOLEAN, NEW p \in CorePaths(onHead), Stage(n, onHead, p)
      PROVE  RootInv'
  <2>1. (onHead => headMode) => p \in CorePaths(headMode)
    BY <1>1 DEF CorePaths
  <2>2. QED
    BY <1>1, <1>2, <2>1, StageInv DEF Stage, Raise, Proceed
<1>3. CASE EnsurePostgresReady
  <2>1. headMode => "postgres" \in CorePaths(headMode)
    BY <1>1, PathNames
  <2>2. StartDatabase => database' \in Databases /\ ~ database'.abandoned
    BY <1>1, DatabaseStarts
  <2>3. /\ script = "installing" /\ script' \in {"installing", "failed"}
        /\ paths' = paths \/ \E p \in CorePaths(headMode) : paths' = [paths EXCEPT ![p] = "script"]
        /\ database' = database \/ StartDatabase
        /\ UNCHANGED <<stateFile, headMode, loaded, made, doomed, envFiles, wasRunning, password, kills, broken>>
    BY <1>3, <2>1 DEF EnsurePostgresReady, Raise, Proceed
  <2>4. QED
    BY <1>1, <2>2, <2>3, StageInv
<1>4. QED
  BY <1>2, <1>3, PathNames
  DEF EnsureMainVenv, BuildTreeple, BuildTorchCluster, EnsureSeaweedBinary, EnsureSymlinkedBinaries

\* An install ends with a state file that lists what it made, or breaks off.
LEMMA WriteStateInv ==
  ASSUME RootInv, WriteState
  PROVE  RootInv'
<1>1. script = "installing" /\ UNCHANGED <<paths, database, envFiles, kills, broken>>
  BY DEF WriteState
<1>2. /\ headMode \in BOOLEAN /\ made.core = {Metadata} \cup CorePaths(headMode)
      /\ made \in [aux : SUBSET Auxiliary, core : SUBSET Listable]
      /\ database \in Databases /\ ~ database.abandoned
  BY <1>1 DEF RootInv, RootTypeOK, ListsInv, Installs, StopInv
<1>3. CASE stateFile' = State("whole", headMode, made.aux, made.core) /\ Return
  <2>1. /\ stateFile' \in States /\ stateFile'.kind = "whole" /\ stateFile'.isHead = headMode
        /\ stateFile'.aux = made.aux /\ stateFile'.core = made.core
    BY <1>2, <1>3 DEF State, States
  <2>2. ~ broken => OwnedBy(stateFile.aux, stateFile.core)'
    BY <1>1, <2>1 DEF RootInv, OwnedInv, OwnedBy, OfScript
  <2>3. QED
    BY <1>1, <1>2, <1>3, <2>1, <2>2, ReturnInv DEF RootInv, RootTypeOK
<1>4. CASE stateFile' = TornState /\ Return
  <2>1. stateFile' \in States /\ stateFile'.kind = "torn"
    BY <1>4 DEF TornState, State, States
  <2>2. QED
    BY <1>1, <1>2, <1>4, <2>1, ReturnInv DEF RootInv, RootTypeOK
<1>5. CASE script' = "failed" /\ UNCHANGED <<stateFile, scriptVars>>
  BY <1>1, <1>2, <1>5, StageInv DEF scriptVars
<1>6. QED
  BY <1>3, <1>4, <1>5 DEF WriteState

\* An install that has failed removes the list it was making.
LEMMA CleanUpInv ==
  ASSUME RootInv, CleanUp
  PROVE  RootInv'
<1>1. /\ script = "failed" /\ StopServices /\ script' = "cleaning"
      /\ doomed' = made.aux \cup made.core
      /\ UNCHANGED <<paths, stateFile, envFiles, headMode, loaded, made, stage, wasRunning, password, kills, broken>>
  BY DEF CleanUp
<1>2. database' \in Databases /\ ServerDown' /\ ~ database'.abandoned
  BY <1>1, StopEffect DEF RootInv, StopInv
<1>3. doomed' \subseteq Listable
  BY <1>1, PathNames DEF RootInv, RootTypeOK, Listable
<1>4. RootTypeOK'
  BY <1>1, <1>2, <1>3 DEF RootInv, RootTypeOK
<1>5. ListsInv'
  BY <1>1 DEF RootInv, ListsInv, Installs, Rotates
<1>6. ~ broken => OwnedInv'
  BY <1>1, <1>2 DEF RootInv, OwnedInv, OwnedBy, Installs, Rotates, OfScript
<1>7. RotationInv' /\ StopInv'
  BY <1>1, <1>2 DEF RotationInv, StopInv
<1>8. QED
  BY <1>1, <1>4, <1>5, <1>6, <1>7 DEF RootInv

\* An uninstall begins with all that the state file lists.
LEMMA UninstallInv ==
  ASSUME RootInv, Uninstall
  PROVE  RootInv'
<1>1. /\ script = "idle" /\ stateFile.kind = "whole" /\ StopServices /\ loaded' = stateFile
      /\ doomed' = stateFile.aux \cup stateFile.core /\ script' = "removing"
      /\ UNCHANGED <<paths, stateFile, envFiles, headMode, made, stage, wasRunning, password, kills, broken>>
  BY DEF Uninstall, Rests
<1>2. database' \in Databases /\ ServerDown' /\ ~ database'.abandoned
  BY <1>1, StopEffect DEF RootInv, StopInv
<1>3. /\ stateFile \in States /\ stateFile.core = {Metadata} \cup CorePaths(stateFile.isHead)
      /\ stateFile.aux \subseteq Auxiliary /\ stateFile.core \subseteq Listable
  BY <1>1 DEF RootInv, RootTypeOK, ListsInv, States
<1>4. RootTypeOK'
  BY <1>1, <1>2, <1>3, PathNames DEF RootInv, RootTypeOK, Listable
<1>5. ListsInv'
  BY <1>1, <1>3 DEF RootInv, ListsInv, Installs, Rotates
<1>6. ASSUME ~ broken PROVE OwnedInv'
  <2>1. OwnedBy(stateFile.aux, stateFile.core)
    BY <1>1, <1>6 DEF RootInv, OwnedInv
  <2>2. OwnedBy(loaded.aux \cap doomed, doomed)' /\ Metadata \in doomed'
    BY <1>1, <1>3, <2>1 DEF OwnedBy, OfScript
  <2>3. QED
    BY <1>1, <1>2, <2>2 DEF OwnedInv, Installs, Rotates
<1>7. RotationInv' /\ StopInv'
  BY <1>1, <1>2 DEF RotationInv, StopInv
<1>8. QED
  BY <1>1, <1>4, <1>5, <1>6, <1>7 DEF RootInv

\* A call returns once there is nothing left for it to do.
LEMMA FinishInv ==
  ASSUME RootInv, Finish
  PROVE  RootInv'
<1>1. /\ script = "rotated" \/ (script \in {"removing", "cleaning"} /\ doomed = {})
      /\ Return /\ UNCHANGED <<rootVars, kills, broken>>
  BY DEF Finish
<1>2. ASSUME ~ broken
      PROVE  /\ stateFile.kind = "whole" => OwnedBy(stateFile.aux, stateFile.core)
             /\ stateFile.kind = "none" => NothingLeft
  BY <1>1, <1>2 DEF RootInv, OwnedInv, OwnedBy, NothingLeft, Rotates, Installs, StopInv, ListsInv
<1>3. QED
  BY <1>1, <1>2, ReturnInv
  DEF RootInv, RootTypeOK, ListsInv, StopInv, rootVars, OwnedBy, NothingLeft, ServerDown, OfScript

----------------------------------------------------------------------------
(* A rotation changes no path and not the state file.                      *)

LEMMA RotatesInv ==
  ASSUME RootInv, script \in {"idle"} \cup Rotates, script' \in Rotates, stateFile.kind = "whole",
         UNCHANGED <<paths, stateFile, headMode, loaded, made, doomed, broken>>,
         database' \in Databases, ~ database'.abandoned,
         password' \in 1 .. 2, wasRunning' \in BOOLEAN, RotationInv'
  PROVE  RootInv'
<1>1. RootTypeOK'
  BY DEF RootInv, RootTypeOK
<1>2. ListsInv'
  BY DEF RootInv, ListsInv, Installs, Rotates
<1>3. ~ broken => OwnedInv'
  BY DEF RootInv, OwnedInv, OwnedBy, OfScript, Installs, Rotates
<1>4. StopInv'
  BY DEF StopInv, Rotates
<1>5. QED
  BY <1>1, <1>2, <1>3, <1>4 DEF RootInv

\* A rotation that raises has touched no path.
LEMMA BreaksOffRotation ==
  ASSUME RootInv, script \in Rotates, Return, UNCHANGED <<paths, stateFile, broken>>,
         database' \in Databases, ~ database'.abandoned
  PROVE  RootInv'
<1>1. stateFile.kind = "whole"
  BY DEF RootInv, ListsInv
<1>2. ~ broken => OwnedBy(stateFile.aux, stateFile.core)'
  BY <1>1 DEF RootInv, OwnedInv, OwnedBy, OfScript
<1>3. QED
  BY <1>1, <1>2, ReturnInv DEF RootInv, RootTypeOK, ListsInv

\* A rotation changes the password of the database, then that of the files.
LEMMA RotationStepInv ==
  ASSUME RootInv, Rotate \/ ApplyPassword \/ StopIfFoundSo \/ SyncEnvFiles
  PROVE  RootInv'
<1> USE DEF RootInv, scriptVars
<1>1. /\ database \in Databases
      /\ database.runs \in BOOLEAN /\ database.password \in 0 .. 2 /\ ~ database.abandoned
      /\ password \in 1 .. 2 /\ wasRunning \in BOOLEAN
      /\ script \in Rotates => stateFile.kind = "whole"
  BY DEF RootTypeOK, ListsInv, StopInv, Databases
<1>2. CASE Rotate
  <2>1. /\ script = "idle" /\ stateFile.kind = "whole" /\ database' = [database EXCEPT !.runs = FALSE, !.unstopped = FALSE]
        /\ UNCHANGED <<paths, stateFile, envFiles, headMode, loaded, made, doomed, stage, kills, broken>>
    BY <1>2 DEF Rotate, Rests
  <2>2. database' \in Databases /\ ~ database'.abandoned /\ ~ database'.runs
    BY <1>1, <2>1 DEF Databases
  <2>3. CASE password' \in 1 .. 2 /\ wasRunning' = database.runs /\ script' = "rotating"
    <3>1. RotationInv'
      BY <2>3 DEF RotationInv
    <3>2. QED
      BY <1>1, <2>1, <2>2, <2>3, <3>1, RotatesInv DEF Rotates
  <2>4. CASE UNCHANGED <<password, wasRunning, script>>
    <3>1. RootTypeOK' /\ ListsInv' /\ RotationInv' /\ StopInv'
      BY <2>1, <2>2, <2>4 DEF RootTypeOK, ListsInv, RotationInv, StopInv, Installs, Rotates
    <3>2. ~ broken => OwnedInv'
      BY <2>1, <2>4 DEF OwnedInv, OwnedBy, OfScript, Installs, Rotates
    <3>3. QED
      BY <2>1, <3>1, <3>2
  <2>5. QED
    BY <1>2, <2>3, <2>4 DEF Rotate
<1>3. CASE ApplyPassword
  <2>1. StartDatabase => /\ database' \in Databases /\ ~ database'.abandoned
                         /\ database'.runs /\ database'.password = password
    BY <1>1, DatabaseStarts
  <2>2. database' = [database EXCEPT !.password = password] =>
          database' \in Databases /\ ~ database'.abandoned
    BY <1>1 DEF Databases
  <2>3. /\ script = "rotating" /\ UNCHANGED <<paths, stateFile, envFiles, broken>>
        /\ \/ StartDatabase /\ script' = "trying" /\ UNCHANGED scriptVars
           \/ StartDatabase /\ Return
           \/ database' = database /\ Return
           \/ database' = [database EXCEPT !.password = password] /\ Return
    BY <1>3 DEF ApplyPassword
  <2>4. CASE StartDatabase /\ script' = "trying" /\ UNCHANGED scriptVars
    <3>1. RotationInv'
      BY <2>1, <2>4 DEF RotationInv
    <3>2. QED
      BY <1>1, <2>1, <2>3, <2>4, <3>1, RotatesInv DEF Rotates
  <2>5. CASE Return
    <3>1. database' \in Databases /\ ~ database'.abandoned
      BY <1>1, <2>1, <2>2, <2>3
    <3>2. QED
      BY <1>1, <2>3, <2>5, <3>1, BreaksOffRotation DEF Rotates
  <2>6. QED
    BY <2>3, <2>4, <2>5
<1>4. CASE StopIfFoundSo
  <2>1. script = "trying" /\ UNCHANGED <<paths, stateFile, envFiles, broken>>
    BY <1>4 DEF StopIfFoundSo
  <2>2. CASE /\ script' = "syncing" /\ UNCHANGED scriptVars
             /\ database' = [database EXCEPT !.runs = wasRunning]
    <3>1. /\ database' \in Databases /\ ~ database'.abandoned
          /\ database'.runs = wasRunning /\ database'.password = database.password
      BY <1>1, <2>2 DEF Databases
    <3>2. RotationInv'
      BY <2>1, <2>2, <3>1 DEF RotationInv
    <3>3. QED
      BY <1>1, <2>1, <2>2, <3>1, <3>2, RotatesInv DEF Rotates
  <2>3. CASE Return /\ UNCHANGED database
    BY <1>1, <2>1, <2>3, BreaksOffRotation DEF Rotates
  <2>4. QED
    BY <1>4, <2>2, <2>3 DEF StopIfFoundSo
<1>5. CASE SyncEnvFiles
  <2>1. /\ script = "syncing" /\ UNCHANGED <<paths, stateFile, database, scriptVars, kills, broken>>
        /\ script' = IF envFiles' = <<password, password>> THEN "rotated" ELSE script
    BY <1>5 DEF SyncEnvFiles
  <2>2. RotationInv'
    BY <2>1 DEF RotationInv
  <2>3. QED
    BY <1>1, <2>1, <2>2, RotatesInv DEF Rotates
<1>6. QED
  BY <1>2, <1>3, <1>4, <1>5

----------------------------------------------------------------------------
\* After a kill only the lists of the state file have to be right.
LEMMA KillInv ==
  ASSUME RootInv, Kill
  PROVE  RootInv'
<1>1. /\ Return /\ broken' = TRUE /\ UNCHANGED <<paths, database, envFiles>>
      /\ stateFile' \in {stateFile, TornState}
  BY DEF Kill
<1>2. TornState \in States /\ TornState.kind = "torn"
  BY DEF TornState, State, States
<1>3. QED
  BY <1>1, <1>2, ReturnInv DEF RootInv, RootTypeOK, ListsInv, StopInv

\* What somebody makes was nobody's.
LEMMA UserMakesInv ==
  ASSUME RootInv, NEW p \in UserPaths, UserMakes(p)
  PROVE  RootInv'
<1>1. /\ script = "idle" /\ script' = script /\ ~ Exists(p) /\ paths' = [paths EXCEPT ![p] = "user"]
      /\ UNCHANGED <<stateFile, database, envFiles, headMode, loaded, made, doomed, wasRunning, password, broken>>
  BY DEF UserMakes, Rests, scriptVars
<1>2. p \in Paths
  BY BootstrapAssumption
<1>3. /\ paths' \in [Paths -> Owners] /\ paths[p] = "nobody"
      /\ \A q \in Paths : paths'[q] = IF q = p THEN "user" ELSE paths[q]
  BY <1>1, <1>2 DEF RootInv, RootTypeOK, Owners, Exists
<1>4. RootTypeOK'
  BY <1>1, <1>3 DEF RootInv, RootTypeOK
<1>5. ListsInv'
  BY <1>1 DEF RootInv, ListsInv, Installs, Rotates
<1>6. ASSUME ~ broken PROVE OwnedInv'
  <2>1. OfScript' = OfScript
    BY <1>3 DEF OfScript
  <2>2. stateFile.aux \subseteq Paths
    BY PathNames DEF RootInv, RootTypeOK, States
  <2>3. stateFile.kind = "whole" => OwnedBy(stateFile.aux, stateFile.core)'
    BY <1>1, <1>3, <1>6, <2>1, <2>2 DEF RootInv, OwnedInv, OwnedBy
  <2>4. QED
    BY <1>1, <1>6, <2>1, <2>3 DEF RootInv, OwnedInv, NothingLeft, ServerDown, Installs, Rotates
<1>7. RotationInv' /\ StopInv'
  BY <1>1 DEF RotationInv, RootInv, StopInv
<1>8. QED
  BY <1>1, <1>4, <1>5, <1>6, <1>7 DEF RootInv

----------------------------------------------------------------------------
\* A node that was never prepared satisfies the invariant, whoever made what on it.
LEMMA RootInitInv ==
  ASSUME BootstrapInit
  PROVE  RootInv
<1> USE DEF BootstrapInit
<1>1. NoState \in States /\ NoState.kind = "none" /\ NothingMade \in [aux : SUBSET Auxiliary, core : SUBSET Listable]
  BY DEF NoState, State, States, NothingMade
<1>2. paths \in [Paths -> {"user", "nobody"}]
  OBVIOUS
<1>3. database \in Databases /\ ~ database.runs /\ ~ database.abandoned
  BY DEF NoDatabase, Databases
<1>4. RootTypeOK
  <2>1. database \in Databases /\ password \in 1 .. 2
    BY <1>3
  <2>2. paths \in [Paths -> Owners]
    BY <1>2 DEF Owners
  <2>3. QED
    BY <1>1, <2>1, <2>2 DEF RootTypeOK
<1>5. ListsInv
  BY <1>1 DEF ListsInv, Installs, Rotates
<1>6. OwnedInv
  BY <1>1, <1>2, <1>3 DEF OwnedInv, NothingLeft, ServerDown, OfScript, Installs, Rotates
<1>7. RotationInv /\ StopInv
  BY <1>3 DEF RotationInv, StopInv
<1>8. QED
  BY <1>4, <1>5, <1>6, <1>7 DEF RootInv

\* Every step preserves the invariant.
LEMMA RootStepInv ==
  ASSUME RootInv, [BootstrapNext]_bootstrapVars
  PROVE  RootInv'
<1>1. CASE UNCHANGED bootstrapVars
  BY <1>1 DEF bootstrapVars, rootVars, scriptVars, RootInv, RootTypeOK, ListsInv, OwnedInv, OwnedBy,
              NothingLeft, ServerDown, StopInv, OfScript, RotationInv
<1>2. CASE Removals
  BY <1>2, RemoveNextInv DEF Removals
<1>3. QED
  BY <1>1, <1>2, InstallInv, ForgetStateInv, PreflightInv, StagesInv, WriteStateInv, CleanUpInv,
     UninstallInv, FinishInv, RotationStepInv, KillInv, UserMakesInv DEF BootstrapNext

\* It therefore holds throughout.
LEMMA RootInvariant == BootstrapSpec => []RootInv
BY RootInitInv, RootStepInv, PTL DEF BootstrapSpec

\* The state file lists what the script has made, without one nothing is left
\* of it but a database that pg_ctl has failed to stop, and after a rotation
\* everybody has the new password (run_install, run_uninstall,
\* run_rotate_postgres_password): whatever paths there are before, whichever
\* stage raises.
THEOREM ScriptOwnsItsPaths == BootstrapSpec => []RootIsOwned
<1>1. RootInv => RootIsOwned
  <2> SUFFICES ASSUME RootInv
               PROVE  RootIsOwned
    OBVIOUS
  <2>1. stateFile.aux \subseteq Paths
    BY PathNames DEF RootInv, RootTypeOK, States
  <2>2. ~ broken /\ Rests /\ stateFile.kind = "whole" => OwnedBy(stateFile.aux, stateFile.core)
    BY DEF RootInv, OwnedInv, Rests
  <2>3. ~ broken /\ Rests /\ stateFile.kind = "none" => NothingLeft
    BY DEF RootInv, OwnedInv, Rests
  <2>4. script = "rotated" => /\ envFiles = <<database.password, database.password>>
                              /\ database.runs = wasRunning
    BY DEF RootInv, RotationInv
  <2>5. ~ database.abandoned
    BY DEF RootInv, StopInv
  <2>6. QED
    BY <2>1, <2>2, <2>3, <2>4, <2>5 DEF RootIsOwned, OwnedBy, NothingLeft, ServerDown, Exists
<1>2. QED
  BY <1>1, RootInvariant, PTL

\* What somebody else made survives every call, unless it bears the name of a
\* core path or, once a removal has broken off, of a path still listed as the
\* script's (safe_remove_path, mark_first_install_core_paths).
THEOREM UserPathsSurvive == BootstrapSpec => UserPathsKept
<1> DEFINE Kept == \A p \in Paths : paths[p] = "user" /\ paths'[p] # "user" =>
                     \/ p \in CorePaths(IF script = "sweeping" THEN headMode ELSE loaded.isHead)
                     \/ broken /\ p \in loaded.aux
<1>1. ASSUME RootInv, [BootstrapNext]_bootstrapVars
      PROVE  Kept
  <2> SUFFICES ASSUME NEW p \in Paths, paths[p] = "user", paths'[p] # "user"
               PROVE  \/ p \in CorePaths(IF script = "sweeping" THEN headMode ELSE loaded.isHead)
                      \/ broken /\ p \in loaded.aux
    OBVIOUS
  <2> USE <1>1
  <2>1. CASE Removals
    <3>1. PICK where \in {"clearing", "sweeping", "cleaning", "removing"} : RemoveNext(where)
      BY <2>1 DEF Removals
    <3>2. script = where /\ p \in doomed
      <4>1. UNCHANGED paths \/ \E q \in doomed : q \in Paths /\ SafeRemove(q)
        BY <3>1 DEF RemoveNext, RootInv, RootTypeOK, Listable, rootVars
      <4>2. ASSUME NEW q \in doomed, q \in Paths, SafeRemove(q)
            PROVE  q = p
        BY <4>2, SafeRemoveEffect DEF RootInv
      <4>3. QED
        BY <3>1, <4>1, <4>2 DEF RemoveNext
    <3>3. CASE where = "sweeping"
      BY <3>2, <3>3 DEF RootInv, ListsInv
    <3>4. CASE where = "cleaning"
      BY <3>2, <3>4 DEF RootInv, ListsInv, Installs
    <3>5. CASE where \in {"clearing", "removing"}
      <4>1. p \in loaded.aux \/ p \in CorePaths(loaded.isHead)
        BY <3>2, <3>5, PathNames DEF RootInv, ListsInv
      <4>2. p \in loaded.aux => broken
        BY <3>2, <3>5 DEF RootInv, OwnedInv, OwnedBy
      <4>3. QED
        BY <3>2, <3>5, <4>1, <4>2
    <3>6. QED
      BY <3>1, <3>3, <3>4, <3>5
  <2>2. CASE Preflight
    BY <2>2 DEF Preflight, Exists
  <2>3. ASSUME NEW q \in CorePaths(headMode), script = "installing"
        PROVE  paths' # [paths EXCEPT ![q] = "script"]
    <3>1. headMode \in BOOLEAN /\ q \in Paths /\ paths[q] # "user"
      BY <2>3, PathNames DEF RootInv, RootTypeOK, ListsInv, Installs
    <3>2. QED
      BY <3>1 DEF RootInv, RootTypeOK
  <2>4. ASSUME NEW n, NEW onHead \in BOOLEAN, NEW q \in CorePaths(onHead), Stage(n, onHead, q)
        PROVE  FALSE
    <3>1. (onHead => headMode) => q \in CorePaths(headMode)
      BY DEF CorePaths, RootInv, RootTypeOK
    <3>2. QED
      BY <2>3, <2>4, <3>1 DEF Stage
  <2>5. ~ EnsurePostgresReady
    <3>1. headMode => "postgres" \in CorePaths(headMode)
      BY PathNames DEF RootInv, RootTypeOK
    <3>2. QED
      BY <2>3, <3>1 DEF EnsurePostgresReady
  <2>6. ASSUME NEW q \in UserPaths
        PROVE  ~ UserMakes(q)
    BY BootstrapAssumption DEF UserMakes, Exists, RootInv, RootTypeOK
  <2>7. CASE UNCHANGED paths
    BY <2>7
  <2>8. QED
    BY <2>1, <2>2, <2>4, <2>5, <2>6, <2>7, PathNames
    DEF BootstrapNext, bootstrapVars, rootVars, Install, ForgetState, WriteState, CleanUp, Uninstall,
        Finish, Rotate, ApplyPassword, StopIfFoundSo, SyncEnvFiles, Kill,
        EnsureMainVenv, BuildTreeple, BuildTorchCluster, EnsureSeaweedBinary, EnsureSymlinkedBinaries
<1>2. QED
  BY <1>1, RootInvariant, PTL DEF BootstrapSpec, UserPathsKept

----------------------------------------------------------------------------
(***************************************************************************)
(* That a call which nothing has disturbed finds and reads all the files it *)
(* asked for: for any data sets, any calls and any order of their steps.  A *)
(* file that is not whole is being written by the one call under the lock, *)
(* or an earlier one broke off and marred it; what a call under the lock has *)
(* made sure of therefore still holds when it reads without the lock.      *)
(***************************************************************************)

AssetTypeOK ==
  /\ csv \in [Bases -> {"none", "lacking", "whole"}]
  /\ parquet \in [Bases -> {"none", "torn", "whole"}]
  /\ support \in {"none", "part", "whole"}
  /\ generated \in {"none", "part", "whole"}
  /\ at \in [Calls -> Locked \cup Past \cup {"out", "done", "failed"}]
  /\ want \in [Calls -> Requests \cup {NoRequest}]
  /\ forced \in [Calls -> BOOLEAN]
  /\ found \in [Calls -> SUBSET Sources]
  /\ taken \in [Calls -> SUBSET Sources]

\* One call at a time holds the lock.
LockInv == \A c, d \in Calls : at[c] \in Locked /\ at[d] \in Locked => c = d

\* What is not whole is being written under the lock, or marred.
TornInv ==
  /\ \A b \in Bases : parquet[b] = "torn" =>
       b \in marred \/ \E c \in Calls : at[c] = "tearing" /\ Base(c) = b
  /\ generated = "part" => "archive" \in marred \/ \E c \in Calls : at[c] = "extracting"
  /\ support = "part" => "support" \in marred \/ \E c \in Calls : at[c] = "copying"

\* What a call under the lock has made sure of
LockedInv(c) ==
  /\ at[c] \in {"converting", "tearing", "checking"} /\ forced[c] =>
       \A b \in Bases : csv[b] = "whole"
  /\ at[c] = "tearing" => Base(c) \in Bases
  /\ at[c] = "checking" /\ Base(c) \in Bases => parquet[Base(c)] = "whole" \/ Base(c) \in marred
  /\ at[c] \in {"extending", "copying", "unpacking", "extracting", "unlinking", "linking"} =>
       /\ Base(c) \in Bases /\ csv[Base(c)] = "whole"
       /\ parquet[Base(c)] = "whole" \/ Base(c) \in marred
  /\ at[c] \in {"extending", "copying"} => want[c].extension
  /\ at[c] = "copying" => support # "none" \/ "support" \in marred
  /\ at[c] \in {"unpacking", "extracting", "unlinking", "linking"} =>
       /\ want[c].synthetic
       /\ want[c].extension => support = "whole" \/ "support" \in marred
  /\ at[c] \in {"unlinking", "linking"} => generated = "whole" \/ "archive" \in marred
  /\ at[c] \in Locked \cup {"resolving", "copying late", "base"} => found[c] = {}

\* Without the lock, a call that is not disturbed still finds all it needs.
PastInv(c) ==
  at[c] \in Past =>
    /\ Base(c) \in Bases
    /\ at[c] \in {"resolving", "copying late", "extension", "resolving again", "copying again"} =>
         want[c].extension
    /\ at[c] = "generated" => want[c].synthetic
    /\ at[c] \in {"copying late", "copying again"} => "support" \in marred
    /\ Undisturbed(c) =>
         /\ \A s \in Needs(c) : IsWhole(c, s)
         /\ at[c] = "generated" => found[c] = {"base"}
         /\ at[c] = "extension" => found[c] = Needs(c) \ {"extension"}
         /\ at[c] \in {"resolving again", "copying again", "reading"} => found[c] = Needs(c)

EndInv(c) ==
  Undisturbed(c) =>
    /\ at[c] = "done" => found[c] = Needs(c) /\ taken[c] = Needs(c)
    /\ at[c] = "failed" => c \in excused \/ Base(c) \notin Bases

AssetInv ==
  /\ AssetTypeOK /\ LockInv /\ TornInv
  /\ \A c \in Calls : LockedInv(c) /\ PastInv(c) /\ EndInv(c)

----------------------------------------------------------------------------
(* What a step of one call does to the others                              *)

\* The call c does nothing itself.
Frame(c) ==
  /\ at'[c] = at[c] /\ want'[c] = want[c] /\ forced'[c] = forced[c]
  /\ found'[c] = found[c] /\ taken'[c] = taken[c]
  /\ c \in excused => c \in excused'
  /\ c \in disturbed => c \in disturbed'
  /\ marred \subseteq marred'

\* Nothing is taken from c that it needs and is no longer guarded.
FilesKept(c) ==
  at[c] \in Past /\ c \notin disturbed' =>
    /\ csv[Base(c)] = "whole" => csv'[Base(c)] = "whole"
    /\ parquet[Base(c)] = "whole" => parquet'[Base(c)] = "whole"
    /\ want[c].extension /\ support = "whole" => support' = "whole"
    /\ want[c].synthetic /\ generated = "whole" /\ Base(c) \in linked =>
         generated' = "whole" /\ Base(c) \in linked'

\* A step without the lock writes nothing but the files of the extension.
StoresKept ==
  /\ UNCHANGED <<csv, parquet, generated, linked>>
  /\ support = "whole" => support' = "whole"
  /\ support # "none" => support' # "none" \/ "support" \in marred'

\* A call that does not move keeps what is said of it while the files it relies
\* on are kept.
LEMMA FrameKeeps ==
  ASSUME AssetInv, NEW c \in Calls, Frame(c), FilesKept(c), at[c] \in Locked => StoresKept
  PROVE  LockedInv(c)' /\ PastInv(c)' /\ EndInv(c)'
<1>1. Base(c)' = Base(c) /\ Needs(c)' = Needs(c)
  BY DEF Frame, Base, Needs
<1>2. Undisturbed(c)' => Undisturbed(c)
  <2>1. \A s \in Needs(c) : Store(c, s)' = Store(c, s)
    BY <1>1 DEF Store
  <2>2. QED
    BY <1>1, <2>1 DEF Frame, Undisturbed
<1>3. ASSUME at[c] \in Past, Undisturbed(c)', NEW s \in Needs(c), IsWhole(c, s)
      PROVE  IsWhole(c, s)'
  BY <1>1, <1>3 DEF FilesKept, IsWhole, Undisturbed, Needs, Base
<1>4. LockedInv(c)'
  <2>1. LockedInv(c) /\ at'[c] = at[c] /\ want'[c] = want[c] /\ forced'[c] = forced[c] /\ found'[c] = found[c]
    BY DEF AssetInv, Frame
  <2>2. CASE at[c] \in Locked
    <3>1. UNCHANGED <<csv, parquet, generated>> /\ marred \subseteq marred'
      BY <2>2 DEF StoresKept, Frame
    <3>2. /\ support = "whole" => support' = "whole"
          /\ support # "none" => support' # "none" \/ "support" \in marred'
      BY <2>2 DEF StoresKept
    <3>3. QED
      BY <1>1, <2>1, <3>1, <3>2 DEF LockedInv
  <2>3. CASE at[c] \notin Locked
    BY <2>1, <2>3 DEF LockedInv, Locked
  <2>4. QED
    BY <2>2, <2>3
<1>5. PastInv(c)'
  BY <1>1, <1>2, <1>3 DEF AssetInv, PastInv, Frame
<1>6. EndInv(c)'
  BY <1>1, <1>2 DEF AssetInv, EndInv, Frame
<1>7. QED
  BY <1>4, <1>5, <1>6

\* What a step of the call c has to show.
Proceeds(c) ==
  /\ AssetTypeOK' /\ LockInv' /\ TornInv'
  /\ LockedInv(c)' /\ PastInv(c)' /\ EndInv(c)'
  /\ \A d \in Calls \ {c} : Frame(d) /\ FilesKept(d) /\ (at[d] \in Locked => StoresKept)

\* The places of the other calls stay.
Goes(c, place) == at'[c] = place /\ \A d \in Calls \ {c} : at'[d] = at[d]

\* Where a call is after it has moved on
LEMMA GoesTo ==
  ASSUME AssetTypeOK, NEW c \in Calls, NEW place, Go(c, place)
  PROVE  Goes(c, place)
BY DEF AssetTypeOK, Go, Goes

\* A call takes the lock when nobody holds it.
LEMMA EnterInv ==
  ASSUME AssetInv, NEW c \in Calls, NEW r \in Requests, Enter(c, r)
  PROVE  Proceeds(c)
<1> USE DEF AssetInv, Enter, kaggle, Locked, Past
<1>1. Goes(c, "downloading")
  BY GoesTo
<1>2. /\ AssetTypeOK'
      /\ want'[c] = r /\ forced'[c] = FALSE /\ found'[c] = {}
      /\ \A d \in Calls \ {c} : /\ want'[d] = want[d] /\ forced'[d] = forced[d]
                                 /\ found'[d] = found[d] /\ taken'[d] = taken[d]
  BY DEF AssetTypeOK, Go
<1>3. LockInv'
  BY <1>1 DEF Goes, LockInv
<1>4. TornInv'
  BY <1>1, <1>2 DEF Goes, TornInv, Base
<1>5. LockedInv(c)' /\ PastInv(c)' /\ EndInv(c)'
  BY <1>1, <1>2 DEF Goes, LockedInv, PastInv, EndInv
<1>6. \A d \in Calls \ {c} : Frame(d) /\ FilesKept(d) /\ (at[d] \in Locked => StoresKept)
  BY <1>1, <1>2 DEF Goes, Frame, FilesKept, StoresKept
<1>7. QED
  BY <1>2, <1>3, <1>4, <1>5, <1>6 DEF Proceeds

\* A call goes on with the copy in the cache, or removes it and all beside it,
\* which disturbs every call that is past the lock.
LEMMA DownloadInv ==
  ASSUME AssetInv, NEW c \in Calls, Download(c)
  PROVE  Proceeds(c)
<1> USE DEF AssetInv, Download, kaggle, outcome
<1>1. at[c] = "downloading"
  OBVIOUS
<1>2. \A d \in Calls \ {c} : at[d] \notin Locked
  BY <1>1 DEF LockInv, Locked
<1>3. CASE ~ forced[c] /\ Go(c, "converting") /\ UNCHANGED <<kaggle, support, linked, disturbed>>
  <2>1. Goes(c, "converting")
    BY <1>3, GoesTo
  <2>2. AssetTypeOK'
    BY <1>3 DEF AssetTypeOK, Go, Locked
  <2>3. LockInv' /\ TornInv'
    BY <1>1, <1>2, <1>3, <2>1 DEF Goes, LockInv, TornInv, Base
  <2>4. LockedInv(c)' /\ PastInv(c)' /\ EndInv(c)'
    BY <1>1, <1>3, <2>1 DEF Goes, LockedInv, PastInv, EndInv, Locked, Past
  <2>5. \A d \in Calls \ {c} : Frame(d) /\ FilesKept(d)
    BY <1>3, <2>1 DEF Goes, Frame, FilesKept
  <2>6. QED
    BY <1>2, <2>2, <2>3, <2>4, <2>5 DEF Proceeds
<1>4. CASE /\ Go(c, "fetching")
           /\ csv' = [b \in Bases |-> "none"] /\ parquet' = [b \in Bases |-> "none"]
           /\ support' = "none" /\ linked' = {}
           /\ disturbed' = disturbed \cup Readers(c)
  <2>1. Goes(c, "fetching")
    BY <1>4, GoesTo
  <2>2. AssetTypeOK'
    BY <1>4 DEF AssetTypeOK, Go, Locked
  <2>3. LockInv' /\ TornInv'
    BY <1>1, <1>2, <1>4, <2>1 DEF Goes, LockInv, TornInv, Base
  <2>4. LockedInv(c)' /\ PastInv(c)' /\ EndInv(c)'
    BY <1>1, <1>4, <2>1 DEF Goes, LockedInv, PastInv, EndInv, Locked, Past
  <2>5. \A d \in Calls \ {c} : Frame(d) /\ FilesKept(d)
    BY <1>4, <2>1 DEF Goes, Frame, FilesKept, Readers
  <2>6. QED
    BY <1>2, <2>2, <2>3, <2>4, <2>5 DEF Proceeds
<1>5. QED
  BY <1>3, <1>4

\* A download brings the tables of all bases, or raises.
LEMMA FetchInv ==
  ASSUME AssetInv, NEW c \in Calls, Fetch(c)
  PROVE  Proceeds(c)
<1> USE DEF AssetInv, Fetch, Raises
<1>1. at[c] = "fetching" /\ \A d \in Calls \ {c} : at[d] \notin Locked
  BY DEF LockInv, Locked
<1>2. PICK place \in {"converting", "failed"} :
        /\ Go(c, place)
        /\ IF place = "converting"
           THEN csv' = [b \in Bases |-> "whole"] /\ UNCHANGED <<excused, mishaps>>
           ELSE excused' = excused \cup {c} /\ UNCHANGED csv
  OBVIOUS
<1>3. Goes(c, place)
  BY <1>2, GoesTo
<1>4. AssetTypeOK'
  BY <1>2 DEF AssetTypeOK, Go, Locked, outcome
<1>5. LockInv' /\ TornInv'
  BY <1>1, <1>2, <1>3 DEF Goes, LockInv, TornInv, Base, Locked
<1>6. LockedInv(c)' /\ PastInv(c)' /\ EndInv(c)'
  <2>1. CASE place = "converting"
    <3>1. (\A b \in Bases : csv'[b] = "whole") /\ at'[c] = "converting" /\ found'[c] = {}
      BY <1>1, <1>2, <1>3, <2>1 DEF Goes, LockedInv, Locked, outcome
    <3>2. QED
      BY <3>1 DEF LockedInv, PastInv, EndInv, Locked, Past
  <2>2. CASE place = "failed"
    BY <1>1, <1>2, <1>3, <2>2 DEF Goes, LockedInv, PastInv, EndInv, Locked, Past
  <2>3. QED
    BY <2>1, <2>2
<1>7. \A d \in Calls \ {c} : Frame(d) /\ FilesKept(d)
  BY <1>1, <1>2, <1>3 DEF Goes, Frame, FilesKept, outcome, PastInv
<1>8. QED
  BY <1>1, <1>4, <1>5, <1>6, <1>7 DEF Proceeds

\* A Parquet file is torn while it is written; one that exists is kept.
LEMMA ConvertInv ==
  ASSUME AssetInv, NEW c \in Calls, Convert(c)
  PROVE  Proceeds(c)
<1> USE DEF AssetInv, Convert, outcome, assetHistory
<1>1. at[c] = "converting" /\ \A d \in Calls \ {c} : at[d] \notin Locked
  BY DEF LockInv, Locked
<1>2. CASE Base(c) \in Bases /\ parquet[Base(c)] = "none"
  <2>1. parquet' = [parquet EXCEPT ![Base(c)] = "torn"] /\ Go(c, "tearing")
    BY <1>2
  <2>2. Goes(c, "tearing")
    BY <2>1, GoesTo
  <2>3. AssetTypeOK'
    BY <1>2, <2>1 DEF AssetTypeOK, Go, Locked
  <2>4. parquet'[Base(c)] = "torn" /\ \A b \in Bases \ {Base(c)} : parquet'[b] = parquet[b]
    BY <1>2, <2>1 DEF AssetTypeOK
  <2>5. LockInv' /\ TornInv'
    BY <1>1, <2>2, <2>4 DEF Goes, LockInv, TornInv, Base, Locked
  <2>6. LockedInv(c)' /\ PastInv(c)' /\ EndInv(c)'
    BY <1>1, <1>2, <2>2, <2>4 DEF Goes, LockedInv, PastInv, EndInv, Locked, Past, Base
  <2>7. \A d \in Calls \ {c} : Frame(d) /\ FilesKept(d)
    BY <1>2, <2>2, <2>4 DEF Goes, Frame, FilesKept, PastInv
  <2>8. QED
    BY <1>1, <2>3, <2>5, <2>6, <2>7 DEF Proceeds
<1>3. CASE ~ (Base(c) \in Bases /\ parquet[Base(c)] = "none")
  <2>1. Go(c, "checking") /\ UNCHANGED parquet
    BY <1>3
  <2>2. Goes(c, "checking")
    BY <2>1, GoesTo
  <2>3. AssetTypeOK'
    BY <2>1 DEF AssetTypeOK, Go, Locked
  <2>4. LockInv' /\ TornInv'
    BY <1>1, <2>1, <2>2 DEF Goes, LockInv, TornInv, Base, Locked
  <2>5. Base(c) \in Bases => parquet[Base(c)] = "whole" \/ Base(c) \in marred
    BY <1>1, <1>3 DEF AssetTypeOK, TornInv, Locked
  <2>6. LockedInv(c)' /\ PastInv(c)' /\ EndInv(c)'
    BY <1>1, <2>1, <2>2, <2>5 DEF Goes, LockedInv, PastInv, EndInv, Locked, Past, Base
  <2>7. \A d \in Calls \ {c} : Frame(d) /\ FilesKept(d)
    BY <2>1, <2>2 DEF Goes, Frame, FilesKept
  <2>8. QED
    BY <1>1, <2>3, <2>4, <2>6, <2>7 DEF Proceeds
<1>4. QED
  BY <1>2, <1>3

\* The file is whole, or marred by what raised.
LEMMA FinishParquetInv ==
  ASSUME AssetInv, NEW c \in Calls, FinishParquet(c)
  PROVE  Proceeds(c)
<1> USE DEF AssetInv, FinishParquet, outcome
<1>1. at[c] = "tearing" /\ Base(c) \in Bases /\ \A d \in Calls \ {c} : at[d] \notin Locked
  BY DEF LockInv, LockedInv, Locked
<1>2. CASE /\ parquet' = [parquet EXCEPT ![Base(c)] = "whole"]
           /\ Go(c, "checking") /\ UNCHANGED <<excused, marred, mishaps>>
  <2>1. Goes(c, "checking")
    BY <1>2, GoesTo
  <2>2. AssetTypeOK'
    BY <1>2 DEF AssetTypeOK, Go, Locked
  <2>3. parquet'[Base(c)] = "whole" /\ \A b \in Bases \ {Base(c)} : parquet'[b] = parquet[b]
    BY <1>1, <1>2 DEF AssetTypeOK
  <2>4. LockInv' /\ TornInv'
    BY <1>1, <1>2, <2>1, <2>3 DEF Goes, LockInv, TornInv, Base, Locked
  <2>5. LockedInv(c)' /\ PastInv(c)' /\ EndInv(c)'
    BY <1>1, <1>2, <2>1, <2>3 DEF Goes, LockedInv, PastInv, EndInv, Locked, Past, Base
  <2>6. \A d \in Calls \ {c} : Frame(d) /\ FilesKept(d)
    BY <1>2, <2>1, <2>3 DEF Goes, Frame, FilesKept, PastInv
  <2>7. QED
    BY <1>1, <2>2, <2>4, <2>5, <2>6 DEF Proceeds
<1>3. CASE Raises(c) /\ marred' = marred \cup {Base(c)} /\ UNCHANGED parquet
  <2>1. Goes(c, "failed") /\ excused' = excused \cup {c}
    BY <1>3, GoesTo DEF Raises
  <2>2. AssetTypeOK'
    BY <1>3 DEF AssetTypeOK, Go, Locked, Raises
  <2>3. LockInv' /\ TornInv'
    BY <1>1, <1>3, <2>1 DEF Goes, LockInv, TornInv, Base, Locked
  <2>4. LockedInv(c)' /\ PastInv(c)' /\ EndInv(c)'
    BY <1>1, <1>3, <2>1 DEF Goes, LockedInv, PastInv, EndInv, Locked, Past, Base
  <2>5. \A d \in Calls \ {c} : Frame(d) /\ FilesKept(d)
    BY <1>3, <2>1 DEF Goes, Frame, FilesKept
  <2>6. QED
    BY <1>1, <2>2, <2>3, <2>4, <2>5 DEF Proceeds
<1>4. QED
  BY <1>2, <1>3

----------------------------------------------------------------------------
(* Arriving at a place                                                      *)

\* A call that gives up the lock leaves what it needs behind, whole or marred.
LEMMA GivesUpLock ==
  ASSUME NEW c \in Calls, at'[c] = Unlocked(c), want'[c] = want[c], found'[c] = {},
         Base(c) \in Bases, csv'[Base(c)] = "whole",
         parquet'[Base(c)] = "whole" \/ Base(c) \in marred',
         want[c].extension => support' = "whole" \/ "support" \in marred',
         want[c].synthetic => /\ generated' = "whole" \/ "archive" \in marred'
                              /\ Base(c) \in linked'
  PROVE  LockedInv(c)' /\ PastInv(c)' /\ EndInv(c)'
<1>1. Base(c)' = Base(c) /\ Needs(c)' = Needs(c)
  BY DEF Base, Needs
<1>2. at'[c] \in {"resolving", "base"} /\ (at'[c] = "resolving" => want[c].extension)
  BY DEF Unlocked
<1>3. ASSUME Undisturbed(c)', NEW s \in Needs(c)
      PROVE  IsWhole(c, s)'
  <2>1. Store(c, s)' \notin marred'
    BY <1>1, <1>3 DEF Undisturbed
  <2>2. CASE s = "base"
    BY <1>1, <2>1, <2>2 DEF Store, IsWhole
  <2>3. CASE s = "generated" /\ want[c].synthetic
    BY <1>1, <2>1, <2>3 DEF Store, IsWhole
  <2>4. CASE s = "extension" /\ want[c].extension
    BY <1>1, <2>1, <2>4 DEF Store, IsWhole
  <2>5. QED
    BY <2>2, <2>3, <2>4 DEF Needs
<1>4. LockedInv(c)'
  BY <1>2 DEF LockedInv, Locked
<1>5. PastInv(c)'
  BY <1>1, <1>2, <1>3 DEF PastInv
<1>6. EndInv(c)'
  BY <1>2 DEF EndInv
<1>7. QED
  BY <1>4, <1>5, <1>6

\* A call whose dataset is validated has its base, and the extension it wants.
LEMMA GoesOnValidated ==
  ASSUME NEW c \in Calls, at'[c] = Validated(c), want'[c] = want[c], found'[c] = {},
         Base(c) \in Bases, csv'[Base(c)] = "whole",
         parquet'[Base(c)] = "whole" \/ Base(c) \in marred',
         want[c].extension => support' = "whole" \/ "support" \in marred'
  PROVE  LockedInv(c)' /\ PastInv(c)' /\ EndInv(c)'
<1>1. CASE want[c].synthetic
  BY <1>1 DEF Validated, LockedInv, PastInv, EndInv, Base, Locked, Past
<1>2. CASE ~ want[c].synthetic
  BY <1>2, GivesUpLock DEF Validated
<1>3. QED
  BY <1>1, <1>2

\* A call that fails is excused, was disturbed, or asked for no dataset.
LEMMA MayFail ==
  ASSUME NEW c \in Calls, at'[c] = "failed",
         Undisturbed(c)' => c \in excused' \/ Base(c)' \notin Bases
  PROVE  LockedInv(c)' /\ PastInv(c)' /\ EndInv(c)'
BY DEF LockedInv, PastInv, EndInv, Locked, Past

\* The call goes on to the extension or past it, downloads once more, or fails.
LEMMA CheckInv ==
  ASSUME AssetInv, NEW c \in Calls, Check(c)
  PROVE  Proceeds(c)
<1> USE DEF AssetInv, outcome, assetHistory, kaggle
<1>1. at[c] = "checking" /\ \A d \in Calls \ {c} : at[d] \notin Locked
  BY DEF LockInv, Locked, Check
<1>2. UNCHANGED <<kaggle, support, generated, linked, want, found, taken, disturbed, excused, marred>>
  BY DEF Check
<1>3. /\ forced' \in [Calls -> BOOLEAN] /\ forced'[c] = (forced[c] \/ ~ HasTraining(c))
      /\ \A d \in Calls \ {c} : forced'[d] = forced[d]
  BY DEF Check, AssetTypeOK
<1>4. /\ Base(c)' = Base(c) /\ found'[c] = {}
      /\ Base(c) \in Bases => parquet[Base(c)] = "whole" \/ Base(c) \in marred
      /\ Base(c) \in Bases /\ forced[c] => csv[Base(c)] = "whole"
  BY <1>1, <1>2 DEF Base, LockedInv, Locked
<1>5. PICK place \in Locked \cup Past \cup {"failed"} :
        /\ Go(c, place)
        /\ \/ place = "failed" /\ forced[c] /\ ~ HasTraining(c)
           \/ place = "downloading"
           \/ place = "extending" /\ HasTraining(c) /\ want[c].extension
           \/ place = Validated(c) /\ HasTraining(c) /\ ~ want[c].extension
  BY DEF Check, Validated, Unlocked, Locked, Past
<1>6. Goes(c, place)
  BY <1>5, GoesTo
<1>7. AssetTypeOK'
  BY <1>2, <1>3, <1>5 DEF AssetTypeOK, Go
<1>8. LockInv' /\ TornInv'
  BY <1>1, <1>2, <1>6 DEF Goes, LockInv, TornInv, Base, Locked
<1>9. LockedInv(c)' /\ PastInv(c)' /\ EndInv(c)'
  <2>1. CASE place = "failed" /\ forced[c] /\ ~ HasTraining(c)
    BY <1>4, <1>6, <2>1, MayFail DEF HasTraining, Goes
  <2>2. CASE place = "downloading"
    BY <1>4, <1>6, <2>2 DEF Goes, LockedInv, PastInv, EndInv, Locked, Past
  <2>3. CASE place = "extending" /\ HasTraining(c) /\ want[c].extension
    BY <1>2, <1>4, <1>6, <2>3 DEF Goes, LockedInv, PastInv, EndInv, Locked, Past, HasTraining
  <2>4. CASE place = Validated(c) /\ HasTraining(c) /\ ~ want[c].extension
    BY <1>2, <1>4, <1>6, <2>4, GoesOnValidated DEF Goes, HasTraining
  <2>5. QED
    BY <1>5, <2>1, <2>2, <2>3, <2>4
<1>10. \A d \in Calls \ {c} : Frame(d) /\ FilesKept(d)
  BY <1>2, <1>3, <1>6 DEF Goes, Frame, FilesKept
<1>11. QED
  BY <1>1, <1>7, <1>8, <1>9, <1>10 DEF Proceeds

----------------------------------------------------------------------------
(* The files of the extension, prepared with and without the lock          *)

\* Only the lock's holder may write to the stores; a step that adds to the
\* extension and leaves the rest takes nothing from the others.
LEMMA AddsToSupport ==
  ASSUME AssetInv, NEW c \in Calls, NEW place, Goes(c, place),
         UNCHANGED <<kaggle, generated, linked, want, forced, outcome, disturbed>>,
         support = "whole" => support' = "whole",
         support # "none" => support' # "none" \/ "support" \in marred',
         marred \subseteq marred', excused \subseteq excused'
  PROVE  \A d \in Calls \ {c} : Frame(d) /\ FilesKept(d) /\ (at[d] \in Locked => StoresKept)
BY DEF Goes, Frame, FilesKept, StoresKept, kaggle, outcome

\* A part of the extension is being copied, or marred.
LEMMA SupportTorn ==
  ASSUME AssetInv, NEW c \in Calls, NEW place, Goes(c, place),
         at[c] \notin {"tearing", "extracting"},
         UNCHANGED <<kaggle, generated, want>>, marred \subseteq marred',
         support' = "part" => "support" \in marred' \/ at'[c] = "copying"
                               \/ \E d \in Calls \ {c} : at'[d] = "copying"
  PROVE  TornInv'
BY DEF AssetInv, TornInv, Goes, Base, kaggle

\* A call that mars the extension it needs is disturbed by its own doing.
LEMMA MarsSupport ==
  ASSUME NEW c \in Calls, want'[c].extension, "support" \in marred'
  PROVE  ~ Undisturbed(c)'
<1>1. "extension" \in Needs(c)' /\ Store(c, "extension")' = "support"
  BY DEF Needs, Store
<1>2. QED
  BY <1>1 DEF Undisturbed

\* If somebody else copies too, one of the two does without the lock.
LEMMA SomebodyCopies ==
  ASSUME AssetInv, NEW c \in Calls, at[c] = "copying",
         NEW d \in Calls \ {c}, at[d] \in {"copying", "copying late", "copying again"}
  PROVE  "support" \in marred
BY DEF AssetInv, LockInv, PastInv, Locked, Past

\* A support directory with a file in it is taken as it is.
LEMMA ExtendInv ==
  ASSUME AssetInv, NEW c \in Calls, PrepareSupport(c, "extending", "copying", Validated(c))
  PROVE  Proceeds(c)
<1> USE DEF AssetInv
<1>1. /\ at[c] = "extending" /\ \A d \in Calls \ {c} : at[d] \notin Locked
      /\ UNCHANGED <<kaggle, generated, linked, want, forced, outcome, disturbed>>
  BY DEF LockInv, Locked, PrepareSupport
<1>2. /\ Base(c)' = Base(c) /\ found'[c] = {} /\ want'[c] = want[c] /\ want[c].extension
      /\ Base(c) \in Bases /\ csv'[Base(c)] = "whole"
      /\ parquet'[Base(c)] = "whole" \/ Base(c) \in marred
  BY <1>1 DEF LockedInv, Base, Locked, kaggle, outcome
<1>3. support = "part" => "support" \in marred
  BY <1>1 DEF LockInv, TornInv, Locked
<1>4. PICK place \in Locked \cup Past \cup {"failed"} :
        /\ at' = [at EXCEPT ![c] = place] /\ marred' = marred
        /\ \/ place = Validated(c) /\ support # "none" /\ UNCHANGED <<support, excused>>
           \/ place = "failed" /\ support = "part" /\ UNCHANGED <<support, excused>>
           \/ place = "extending" /\ support = "part" /\ support' = "none" /\ UNCHANGED excused
           \/ place = "copying" /\ support = "none" /\ support' = "part" /\ UNCHANGED excused
           \/ place = "failed" /\ excused' = excused \cup {c} /\ UNCHANGED support
  <2>1. CASE UNCHANGED at /\ support = "part" /\ support' = "none"
             /\ marred' = marred \cup {"support"} /\ UNCHANGED excused
    <3>1. at' = [at EXCEPT ![c] = "extending"] /\ marred' = marred
      BY <1>1, <1>3, <2>1 DEF AssetTypeOK
    <3>2. QED
      BY <2>1, <3>1 DEF Locked
  <2>2. CASE ~ UNCHANGED at \/ support # "part" \/ support' # "none"
    BY <2>2 DEF PrepareSupport, Raises, Validated, Unlocked, Locked, Past, Go
  <2>3. QED
    BY <2>1, <2>2 DEF PrepareSupport, Raises, Go
<1>5. Goes(c, place)
  BY <1>4, GoesTo DEF Go
<1>6. AssetTypeOK'
  BY <1>1, <1>4 DEF AssetTypeOK, kaggle, outcome
<1>7. LockInv'
  BY <1>1, <1>5 DEF Goes, LockInv
<1>8. TornInv'
  BY <1>1, <1>3, <1>4, <1>5, SupportTorn DEF Goes
<1>9. LockedInv(c)' /\ PastInv(c)' /\ EndInv(c)'
  <2>1. CASE place = Validated(c) /\ support # "none" /\ UNCHANGED support
    <3>1. support' = "whole" \/ "support" \in marred'
      BY <1>3, <1>4, <2>1 DEF AssetTypeOK
    <3>2. QED
      BY <1>2, <1>4, <1>5, <2>1, <3>1, GoesOnValidated DEF Goes
  <2>2. CASE place = "failed" /\ support = "part"
    <3>1. "extension" \in Needs(c)' /\ Store(c, "extension")' = "support"
      BY <1>2 DEF Needs, Store
    <3>2. ~ Undisturbed(c)'
      BY <1>3, <1>4, <2>2, <3>1 DEF Undisturbed
    <3>3. QED
      BY <1>5, <2>2, <3>2, MayFail DEF Goes
  <2>3. CASE place = "copying" /\ support' = "part"
    BY <1>2, <1>4, <1>5, <2>3 DEF Goes, LockedInv, PastInv, EndInv, Locked, Past
  <2>4. CASE place = "failed" /\ excused' = excused \cup {c}
    BY <1>5, <2>4, MayFail DEF Goes
  <2>5. CASE place = "extending"
    BY <1>2, <1>4, <1>5, <2>5 DEF Goes, LockedInv, PastInv, EndInv, Locked, Past
  <2>6. QED
    BY <1>4, <2>1, <2>2, <2>3, <2>4, <2>5
<1>10. \A d \in Calls \ {c} : Frame(d) /\ FilesKept(d) /\ (at[d] \in Locked => StoresKept)
  BY <1>1, <1>3, <1>4, <1>5, AddsToSupport
<1>11. QED
  BY <1>6, <1>7, <1>8, <1>9, <1>10 DEF Proceeds

\* The support files are whole, or marred by what raised.
LEMMA CopyInv ==
  ASSUME AssetInv, NEW c \in Calls, CopySupport(c, "copying", Validated(c))
  PROVE  Proceeds(c)
<1> USE DEF AssetInv
<1>1. /\ at[c] = "copying" /\ \A d \in Calls \ {c} : at[d] \notin Locked
      /\ UNCHANGED <<kaggle, generated, linked, want, forced, outcome, disturbed>>
  BY DEF LockInv, Locked, CopySupport
<1>2. /\ Base(c)' = Base(c) /\ found'[c] = {} /\ want'[c] = want[c] /\ want[c].extension
      /\ support # "none" \/ "support" \in marred
      /\ Base(c) \in Bases /\ csv'[Base(c)] = "whole"
      /\ parquet'[Base(c)] = "whole" \/ Base(c) \in marred
  BY <1>1 DEF LockedInv, Base, Locked, kaggle, outcome
<1>3. PICK place \in Locked \cup Past \cup {"failed"} :
        /\ Go(c, place)
        /\ \/ place = Validated(c) /\ support' = "whole" /\ UNCHANGED <<marred, excused>>
           \/ /\ place = Validated(c) /\ support # "none" /\ UNCHANGED <<support, marred, excused>>
              /\ \E d \in Calls \ {c} : at[d] \in {"copying", "copying late", "copying again"}
           \/ place = "failed" /\ support = "none" /\ UNCHANGED <<support, marred, excused>>
           \/ /\ place = "failed" /\ excused' = excused \cup {c}
              /\ marred' = marred \cup {"support"} /\ UNCHANGED support
  BY DEF CopySupport, Raises, Validated, Unlocked, Locked, Past
<1>4. Goes(c, place)
  BY <1>3, GoesTo
<1>5. AssetTypeOK'
  BY <1>1, <1>3 DEF AssetTypeOK, Go, kaggle, outcome
<1>6. LockInv'
  BY <1>1, <1>4 DEF Goes, LockInv
<1>7. TornInv'
  BY <1>1, <1>3, <1>4, SomebodyCopies, SupportTorn DEF Goes, AssetTypeOK
<1>8. LockedInv(c)' /\ PastInv(c)' /\ EndInv(c)'
  <2>1. CASE place = Validated(c) /\ support' = "whole" /\ UNCHANGED marred
    BY <1>2, <1>4, <2>1, GoesOnValidated DEF Goes
  <2>2. CASE place = "failed" /\ excused' = excused \cup {c}
    BY <1>4, <2>2, MayFail DEF Goes
  <2>3. CASE place = "failed" /\ support = "none" /\ UNCHANGED marred
    <3>1. ~ Undisturbed(c)'
      BY <1>2, <2>3, MarsSupport
    <3>2. QED
      BY <1>4, <2>3, <3>1, MayFail DEF Goes
  <2>4. CASE place = Validated(c) /\ UNCHANGED <<support, marred>> /\ "support" \in marred
    BY <1>2, <1>4, <2>4, GoesOnValidated DEF Goes
  <2>5. (\E d \in Calls \ {c} : at[d] \in {"copying", "copying late", "copying again"}) =>
          "support" \in marred
    BY <1>1, SomebodyCopies
  <2>6. QED
    BY <1>3, <2>1, <2>2, <2>3, <2>4, <2>5
<1>9. \A d \in Calls \ {c} : Frame(d) /\ FilesKept(d) /\ (at[d] \in Locked => StoresKept)
  BY <1>1, <1>2, <1>3, <1>4, AddsToSupport
<1>10. QED
  BY <1>5, <1>6, <1>7, <1>8, <1>9 DEF Proceeds

\* A call that has given up the lock goes on, or fails, without it.
LEMMA LeavesLockFree ==
  ASSUME AssetInv, NEW c \in Calls, at[c] \in Past,
         NEW place \in Past \cup {"done", "failed", "out"}, Goes(c, place)
  PROVE  LockInv'
BY DEF AssetInv, LockInv, Goes, Past, Locked

\* The places at which it prepares the extension, copies it, and goes on
LateStep(here, copying, next) ==
  \/ here = "resolving" /\ copying = "copying late" /\ next = "base"
  \/ here = "resolving again" /\ copying = "copying again" /\ next = "reading"

\* What a call knows of the extension while it prepares it without the lock
LEMMA LateFacts ==
  ASSUME AssetInv, NEW c \in Calls, NEW here, NEW copying, NEW next, LateStep(here, copying, next), at[c] \in {here, copying}
  PROVE  /\ at[c] \in Past /\ at[c] \notin {"tearing", "extracting", "copying"}
         /\ Base(c) \in Bases /\ want[c].extension
         /\ next = "base" => found[c] = {}
         /\ Undisturbed(c) => /\ \A s \in Needs(c) : IsWhole(c, s)
                              /\ next = "reading" => found[c] = Needs(c)
                              /\ support = "whole"
<1>1. at[c] \in {"resolving", "copying late", "resolving again", "copying again"}
  BY DEF LateStep
<1>2. at[c] \in Past /\ Base(c) \in Bases /\ want[c].extension
  BY <1>1 DEF AssetInv, PastInv, Past
<1>3. next = "base" => found[c] = {}
  BY DEF AssetInv, LockedInv, LateStep
<1>4. ASSUME Undisturbed(c)
      PROVE  /\ \A s \in Needs(c) : IsWhole(c, s)
             /\ next = "reading" => found[c] = Needs(c)
  BY <1>2, <1>4 DEF AssetInv, PastInv, LateStep
<1>5. Undisturbed(c) => support = "whole"
  BY <1>2, <1>4 DEF Needs, IsWhole
<1>6. QED
  BY <1>1, <1>2, <1>3, <1>4, <1>5

\* Once it is done with the extension, a call goes on with what it knows.
LEMMA GoesOnResolved ==
  ASSUME AssetInv, NEW c \in Calls, NEW here, NEW copying, NEW next, LateStep(here, copying, next), at[c] \in {here, copying},
         Goes(c, next),
         UNCHANGED <<kaggle, generated, linked, want, outcome, disturbed, marred>>,
         support' = "whole" \/ UNCHANGED support
  PROVE  LockedInv(c)' /\ PastInv(c)' /\ EndInv(c)'
<1> USE DEF kaggle, outcome
<1>1. /\ Base(c)' = Base(c) /\ Needs(c)' = Needs(c)
      /\ at'[c] = next /\ next \in {"base", "reading"}
  BY DEF Base, Needs, Goes, LateStep
<1>2. Undisturbed(c)' => Undisturbed(c)
  <2>1. \A s \in Needs(c) : Store(c, s)' = Store(c, s)
    BY <1>1 DEF Store
  <2>2. QED
    BY <1>1, <2>1 DEF Undisturbed
<1>3. ASSUME NEW s \in Needs(c), IsWhole(c, s), Undisturbed(c) PROVE IsWhole(c, s)'
  BY <1>1, <1>3, LateFacts DEF IsWhole, Needs
<1>4. LockedInv(c)'
  BY <1>1, LateFacts DEF LockedInv, Locked
<1>5. PastInv(c)'
  BY <1>1, <1>2, <1>3, LateFacts DEF PastInv
<1>6. EndInv(c)'
  BY <1>1 DEF EndInv
<1>7. QED
  BY <1>4, <1>5, <1>6

\* Without the lock the support directory may be made by one that finds none,
\* and removed by one that finds it without a file.
LEMMA ResolveInv ==
  ASSUME AssetInv, NEW c \in Calls, NEW here, NEW copying, NEW next, LateStep(here, copying, next),
         Resolve(c, here, copying, next)
  PROVE  Proceeds(c)
<1> USE DEF AssetInv
<1>1. /\ at[c] = here /\ PrepareSupport(c, here, copying, next)
      /\ UNCHANGED <<kaggle, generated, linked, want, forced, outcome, disturbed>>
      /\ {copying, next} \subseteq Past /\ here # "extending"
  BY DEF PrepareSupport, Resolve, LateStep, Past
<1>2. /\ at[c] \in Past /\ at[c] \notin {"tearing", "extracting", "copying"}
      /\ Base(c) \in Bases /\ want[c].extension
      /\ Base(c)' = Base(c) /\ want'[c] = want[c] /\ found'[c] = found[c]
  BY <1>1, LateFacts DEF Base, outcome
<1>3. PICK place \in Past \cup {"failed"} :
        /\ at' = [at EXCEPT ![c] = place]
        /\ \/ place = next /\ UNCHANGED <<support, marred, excused>>
           \/ place = "failed" /\ support = "part" /\ UNCHANGED <<support, marred, excused>>
           \/ /\ place = here /\ support = "part" /\ support' = "none"
              /\ marred' = marred \cup {"support"} /\ UNCHANGED excused
           \/ /\ place = copying /\ support = "none" /\ support' = "part"
              /\ marred' = marred \cup {"support"} /\ UNCHANGED excused
           \/ place = "failed" /\ excused' = excused \cup {c} /\ UNCHANGED <<support, marred>>
  <2>1. CASE UNCHANGED at /\ support = "part" /\ support' = "none"
             /\ marred' = marred \cup {"support"} /\ UNCHANGED excused
    <3>1. at' = [at EXCEPT ![c] = here] /\ here \in Past
      BY <1>1, <1>2, <2>1 DEF AssetTypeOK
    <3>2. QED
      BY <2>1, <3>1
  <2>2. CASE ~ UNCHANGED at \/ support # "part" \/ support' # "none"
    BY <1>1, <2>2 DEF PrepareSupport, Raises, Go
  <2>3. QED
    BY <1>1, <2>1, <2>2 DEF PrepareSupport, Raises, Go
<1>4. Goes(c, place)
  BY <1>3, GoesTo DEF Go
<1>5. AssetTypeOK'
  BY <1>1, <1>3 DEF AssetTypeOK, kaggle, outcome
<1>6. LockInv'
  BY <1>2, <1>4, LeavesLockFree
<1>7. TornInv'
  <2>1. support' = "part" => "support" \in marred' \/ \E d \in Calls \ {c} : at[d] = "copying"
    BY <1>2, <1>3 DEF TornInv
  <2>2. marred \subseteq marred'
    BY <1>3
  <2>3. QED
    BY <1>1, <1>2, <1>4, <2>1, <2>2, SupportTorn DEF Goes
<1>8. LockedInv(c)' /\ PastInv(c)' /\ EndInv(c)'
  <2>1. CASE place = next /\ UNCHANGED <<support, marred>>
    BY <1>1, <1>4, <2>1, GoesOnResolved
  <2>2. CASE place = "failed" /\ support = "part" /\ UNCHANGED <<support, marred>>
    <3>1. ~ Undisturbed(c)
      BY <1>1, <2>2, LateFacts
    <3>2. Needs(c)' = Needs(c) /\ \A s \in Needs(c) : Store(c, s)' = Store(c, s)
      BY <1>2 DEF Needs, Store
    <3>3. ~ Undisturbed(c)'
      BY <1>1, <2>2, <3>1, <3>2 DEF Undisturbed
    <3>4. QED
      BY <1>4, <2>2, <3>3, MayFail DEF Goes
  <2>3. CASE place = copying /\ marred' = marred \cup {"support"}
    <3>1. ~ Undisturbed(c)'
      BY <1>2, <2>3, MarsSupport
    <3>2. at'[c] \in {"copying late", "copying again"} /\ (at'[c] = "copying late" => found'[c] = {})
      BY <1>1, <1>2, <1>4, <2>3, LateFacts DEF Goes, LateStep
    <3>3. QED
      BY <1>2, <2>3, <3>1, <3>2 DEF LockedInv, PastInv, EndInv, Locked, Past
  <2>4. CASE place = "failed" /\ excused' = excused \cup {c}
    BY <1>4, <2>4, MayFail DEF Goes
  <2>5. CASE place = here /\ marred' = marred \cup {"support"}
    <3>1. ~ Undisturbed(c)'
      BY <1>2, <2>5, MarsSupport
    <3>2. at'[c] = at[c] /\ Base(c)' = Base(c)
      BY <1>1, <1>2, <1>4, <2>5 DEF Goes
    <3>3. LockedInv(c)'
      <4>1. at'[c] \notin Locked /\ LockedInv(c)
        BY <1>2, <3>2 DEF Locked, Past
      <4>2. QED
        BY <1>2, <3>2, <4>1 DEF LockedInv, Locked
    <3>4. PastInv(c)' /\ EndInv(c)'
      BY <1>2, <2>5, <3>1, <3>2 DEF PastInv, EndInv, Past
    <3>5. QED
      BY <3>3, <3>4
  <2>6. QED
    BY <1>3, <2>1, <2>2, <2>3, <2>4, <2>5
<1>9. \A d \in Calls \ {c} : Frame(d) /\ FilesKept(d) /\ (at[d] \in Locked => StoresKept)
  BY <1>1, <1>3, <1>4, AddsToSupport
<1>10. QED
  BY <1>5, <1>6, <1>7, <1>8, <1>9 DEF Proceeds

\* A copy without the lock leaves the directory marred, whole or not.
LEMMA CopyLateInv ==
  ASSUME AssetInv, NEW c \in Calls, NEW here, NEW copying, NEW next, LateStep(here, copying, next),
         CopySupport(c, copying, next)
  PROVE  Proceeds(c)
<1> USE DEF AssetInv
<1>1. /\ at[c] = copying /\ next \in Past
      /\ UNCHANGED <<kaggle, generated, linked, want, forced, outcome, disturbed>>
  BY DEF CopySupport, LateStep, Past
<1>2. /\ at[c] \in Past /\ at[c] \notin {"tearing", "extracting", "copying"}
      /\ Base(c) \in Bases /\ want[c].extension
      /\ want'[c] = want[c] /\ "support" \in marred
  BY <1>1, LateFacts DEF PastInv, LateStep
<1>3. PICK place \in Past \cup {"failed"} :
        /\ Go(c, place) /\ marred \subseteq marred'
        /\ \/ /\ place = next /\ support # "none" /\ UNCHANGED <<marred, excused>>
              /\ support' = "whole" \/ UNCHANGED support
           \/ place = "failed" /\ UNCHANGED support /\ excused \subseteq excused'
  BY <1>1 DEF CopySupport, Raises
<1>4. Goes(c, place)
  BY <1>3, GoesTo
<1>5. AssetTypeOK'
  BY <1>1, <1>3 DEF AssetTypeOK, Go, kaggle, outcome
<1>6. LockInv'
  BY <1>2, <1>4, LeavesLockFree
<1>7. TornInv'
  BY <1>1, <1>2, <1>3, <1>4, SupportTorn
<1>8. LockedInv(c)' /\ PastInv(c)' /\ EndInv(c)'
  <2>1. CASE place = next /\ (support' = "whole" \/ UNCHANGED support) /\ UNCHANGED marred
    BY <1>1, <1>4, <2>1, GoesOnResolved
  <2>2. CASE place = "failed"
    <3>1. ~ Undisturbed(c)'
      BY <1>2, <1>3, MarsSupport
    <3>2. QED
      BY <1>4, <2>2, <3>1, MayFail DEF Goes
  <2>3. QED
    BY <1>3, <2>1, <2>2
<1>9. \A d \in Calls \ {c} : Frame(d) /\ FilesKept(d) /\ (at[d] \in Locked => StoresKept)
  BY <1>1, <1>3, <1>4, AddsToSupport
<1>10. QED
  BY <1>5, <1>6, <1>7, <1>8, <1>9 DEF Proceeds

----------------------------------------------------------------------------
(* The generated data, under the lock                                       *)

LEMMA HoldsLock ==
  ASSUME AssetInv, NEW c \in Calls, at[c] \in Locked, NEW place, Goes(c, place)
  PROVE  LockInv' /\ \A d \in Calls \ {c} : at[d] \notin Locked
BY DEF AssetInv, LockInv, Goes

\* From here on the generated data is being unpacked, or marred.
LEMMA ArchiveTorn ==
  ASSUME AssetInv, NEW c \in Calls, NEW place, Goes(c, place),
         at[c] \notin {"tearing", "copying"},
         UNCHANGED <<kaggle, support, want>>, marred \subseteq marred',
         generated' = "part" => "archive" \in marred' \/ at'[c] = "extracting"
  PROVE  TornInv'
BY DEF AssetInv, TornInv, Goes, Base, kaggle

\* What a call knows while it provides the generated data
LEMMA UnpackFacts ==
  ASSUME AssetInv, NEW c \in Calls, at[c] \in {"unpacking", "extracting", "unlinking", "linking"}
  PROVE  /\ at[c] \in Locked /\ \A d \in Calls \ {c} : at[d] \notin Locked
         /\ Base(c) \in Bases /\ csv[Base(c)] = "whole"
         /\ parquet[Base(c)] = "whole" \/ Base(c) \in marred
         /\ want[c].synthetic
         /\ want[c].extension => support = "whole" \/ "support" \in marred
         /\ found[c] = {}
BY DEF AssetInv, LockInv, LockedInv, Locked

\* What the steps that provide the generated data leave to show
LEMMA Unpacked ==
  ASSUME AssetInv, NEW c \in Calls, at[c] \in {"unpacking", "extracting", "unlinking"},
         NEW place \in {"extracting", "unlinking", "linking"}, Goes(c, place),
         UNCHANGED <<kaggle, support, want>>, found'[c] = {}, marred \subseteq marred',
         place # "extracting" => generated' = "whole" \/ "archive" \in marred'
  PROVE  LockedInv(c)' /\ PastInv(c)' /\ EndInv(c)'
<1>1. /\ Base(c)' = Base(c) /\ want'[c] = want[c] /\ at'[c] = place
      /\ UNCHANGED <<csv, parquet, support>>
  BY DEF Base, Goes, kaggle
<1>2. LockedInv(c)'
  BY <1>1, UnpackFacts DEF LockedInv
<1>3. PastInv(c)' /\ EndInv(c)'
  BY <1>1 DEF PastInv, EndInv, Past
<1>4. QED
  BY <1>2, <1>3

\* The archive of the generated data is extracted unless it was before.
LEMMA UnpackInv ==
  ASSUME AssetInv, NEW c \in Calls, Unpack(c)
  PROVE  Proceeds(c)
<1> USE DEF AssetInv
<1>1. /\ at[c] = "unpacking"
      /\ UNCHANGED <<kaggle, support, linked, want, forced, outcome, disturbed, marred>>
  BY DEF Unpack
<1>2. PICK place \in {"unlinking", "extracting", "failed"} :
        /\ Go(c, place)
        /\ \/ place = "unlinking" /\ generated # "none" /\ UNCHANGED <<generated, excused>>
           \/ place = "extracting" /\ generated = "none" /\ generated' = "part" /\ UNCHANGED excused
           \/ place = "failed" /\ excused' = excused \cup {c} /\ UNCHANGED generated
  BY DEF Unpack, Raises
<1>3. Goes(c, place)
  BY <1>2, GoesTo
<1>4. Base(c)' = Base(c) /\ want'[c] = want[c] /\ found'[c] = {}
  BY <1>1, UnpackFacts DEF Base, outcome
<1>5. generated = "part" => "archive" \in marred
  BY <1>1, UnpackFacts DEF TornInv, Locked
<1>6. AssetTypeOK'
  BY <1>1, <1>2 DEF AssetTypeOK, Go, kaggle, outcome, Locked
<1>7. LockInv'
  BY <1>1, <1>3, HoldsLock, UnpackFacts
<1>8. TornInv'
  BY <1>1, <1>2, <1>3, <1>5, ArchiveTorn DEF Goes
<1>9. LockedInv(c)' /\ PastInv(c)' /\ EndInv(c)'
  <2>1. CASE place = "failed" /\ excused' = excused \cup {c}
    BY <1>3, <2>1, MayFail DEF Goes
  <2>2. CASE place = "extracting"
    BY <1>1, <1>3, <1>4, <2>2, Unpacked
  <2>3. CASE place = "unlinking" /\ generated # "none" /\ UNCHANGED generated
    <3>1. generated' = "whole" \/ "archive" \in marred'
      BY <1>1, <1>5, <2>3 DEF AssetTypeOK
    <3>2. QED
      BY <1>1, <1>3, <1>4, <2>3, <3>1, Unpacked
  <2>4. QED
    BY <1>2, <2>1, <2>2, <2>3
<1>10. \A d \in Calls \ {c} : Frame(d) /\ FilesKept(d)
  BY <1>1, <1>2, <1>3 DEF Goes, Frame, FilesKept, kaggle, outcome
<1>11. QED
  BY <1>1, <1>6, <1>7, <1>8, <1>9, <1>10, UnpackFacts DEF Proceeds

\* The generated data are whole, or marred by what raised.
LEMMA ExtractInv ==
  ASSUME AssetInv, NEW c \in Calls, Extract(c)
  PROVE  Proceeds(c)
<1> USE DEF AssetInv
<1>1. /\ at[c] = "extracting"
      /\ UNCHANGED <<kaggle, support, linked, want, forced, outcome, disturbed>>
  BY DEF Extract
<1>2. PICK place \in {"unlinking", "failed"} :
        /\ Go(c, place)
        /\ \/ place = "unlinking" /\ generated' = "whole" /\ UNCHANGED <<marred, excused>>
           \/ /\ place = "failed" /\ excused' = excused \cup {c} /\ UNCHANGED generated
              /\ marred' = marred \cup {"archive"}
  BY DEF Extract, Raises
<1>3. Goes(c, place)
  BY <1>2, GoesTo
<1>4. Base(c)' = Base(c) /\ want'[c] = want[c] /\ found'[c] = {}
  BY <1>1, UnpackFacts DEF Base, outcome
<1>5. AssetTypeOK'
  BY <1>1, <1>2 DEF AssetTypeOK, Go, kaggle, outcome, Locked
<1>6. LockInv'
  BY <1>1, <1>3, HoldsLock, UnpackFacts
<1>7. TornInv'
  BY <1>1, <1>2, <1>3, ArchiveTorn DEF Goes
<1>8. LockedInv(c)' /\ PastInv(c)' /\ EndInv(c)'
  <2>1. CASE place = "failed" /\ excused' = excused \cup {c}
    BY <1>3, <2>1, MayFail DEF Goes
  <2>2. CASE place = "unlinking" /\ generated' = "whole" /\ UNCHANGED marred
    BY <1>1, <1>3, <1>4, <2>2, Unpacked
  <2>3. QED
    BY <1>2, <2>1, <2>2
<1>9. \A d \in Calls \ {c} : Frame(d) /\ FilesKept(d)
  BY <1>1, <1>2, <1>3 DEF Goes, Frame, FilesKept, kaggle, outcome
<1>10. QED
  BY <1>1, <1>5, <1>6, <1>7, <1>8, <1>9, UnpackFacts DEF Proceeds

\* Removing the link disturbs the calls that read through it.
LEMMA UnlinkInv ==
  ASSUME AssetInv, NEW c \in Calls, Unlink(c)
  PROVE  Proceeds(c)
<1> USE DEF AssetInv
<1>1. /\ at[c] = "unlinking" /\ Go(c, "linking")
      /\ linked' = linked \ {Base(c)}
      /\ disturbed' = disturbed \cup
           {d \in Readers(c) : "generated" \in Needs(d) /\ Base(d) = Base(c) /\ Base(c) \in linked}
      /\ UNCHANGED <<kaggle, support, generated, want, forced, outcome, excused, marred>>
  BY DEF Unlink
<1>2. Goes(c, "linking")
  BY <1>1, GoesTo
<1>3. Base(c)' = Base(c) /\ want'[c] = want[c] /\ found'[c] = {}
  BY <1>1, UnpackFacts DEF Base, outcome
<1>4. AssetTypeOK'
  BY <1>1 DEF AssetTypeOK, Go, kaggle, outcome, Locked
<1>5. LockInv'
  BY <1>1, <1>2, HoldsLock, UnpackFacts
<1>6. generated = "whole" \/ "archive" \in marred
  BY <1>1 DEF LockedInv
<1>7. TornInv'
  BY <1>1, <1>2, <1>6, ArchiveTorn
<1>8. LockedInv(c)' /\ PastInv(c)' /\ EndInv(c)'
  BY <1>1, <1>2, <1>3, <1>6, UnpackFacts
  DEF Goes, LockedInv, PastInv, EndInv, Locked, Past, kaggle
<1>9. \A d \in Calls \ {c} : Frame(d) /\ FilesKept(d)
  <2>1. ASSUME NEW d \in Calls \ {c}, at[d] \in Past, d \notin disturbed', want[d].synthetic,
               Base(d) \in linked
        PROVE  Base(d) \in linked'
    BY <1>1, <2>1 DEF Readers, Needs
  <2>2. QED
    BY <1>1, <1>2, <2>1 DEF Goes, Frame, FilesKept, kaggle, outcome
<1>10. QED
  BY <1>1, <1>4, <1>5, <1>7, <1>8, <1>9, UnpackFacts DEF Proceeds

\* The link is made, and the call leaves the lock with all it needs.
LEMMA LinkInv ==
  ASSUME AssetInv, NEW c \in Calls, Link(c)
  PROVE  Proceeds(c)
<1> USE DEF AssetInv
<1>1. /\ at[c] = "linking" /\ Go(c, Unlocked(c))
      /\ linked' = linked \cup {Base(c)}
      /\ UNCHANGED <<kaggle, support, generated, want, forced, outcome, disturbed, excused, marred>>
  BY DEF Link, assetHistory
<1>2. Goes(c, Unlocked(c)) /\ Unlocked(c) \in Past
  BY <1>1, GoesTo DEF Unlocked, Past
<1>3. want'[c] = want[c] /\ found'[c] = {} /\ Base(c)' = Base(c)
  BY <1>1, UnpackFacts DEF outcome, Base
<1>4. AssetTypeOK'
  BY <1>1, <1>2 DEF AssetTypeOK, Go, kaggle, outcome
<1>5. LockInv'
  BY <1>1, <1>2, HoldsLock, UnpackFacts
<1>6. generated = "whole" \/ "archive" \in marred
  BY <1>1 DEF LockedInv
<1>7. TornInv'
  BY <1>1, <1>2, <1>6, ArchiveTorn
<1>8. LockedInv(c)' /\ PastInv(c)' /\ EndInv(c)'
  BY <1>1, <1>2, <1>3, <1>6, UnpackFacts, GivesUpLock DEF Goes, kaggle
<1>9. \A d \in Calls \ {c} : Frame(d) /\ FilesKept(d)
  BY <1>1, <1>2 DEF Goes, Frame, FilesKept, kaggle, outcome
<1>10. QED
  BY <1>1, <1>4, <1>5, <1>7, <1>8, <1>9, UnpackFacts DEF Proceeds

----------------------------------------------------------------------------
(* Recording and reading what is there                                      *)

\* A step that touches no file, of a call without the lock
LEMMA OnlyLooks ==
  ASSUME AssetInv, NEW c \in Calls, NEW place \in Past \cup {"done", "failed"},
         at[c] \in Past \ {"copying late", "copying again"}, Go(c, place),
         UNCHANGED <<kaggle, support, generated, linked, want, forced, assetHistory>>,
         found' \in [Calls -> SUBSET Sources], taken' \in [Calls -> SUBSET Sources],
         \A d \in Calls \ {c} : found'[d] = found[d] /\ taken'[d] = taken[d],
         LockedInv(c)' /\ PastInv(c)' /\ EndInv(c)'
  PROVE  Proceeds(c)
<1> USE DEF kaggle, assetHistory
<1>1. Goes(c, place)
  BY GoesTo DEF AssetInv
<1>2. AssetTypeOK'
  BY DEF AssetInv, AssetTypeOK, Go
<1>3. LockInv'
  BY <1>1, LeavesLockFree
<1>4. at[c] \notin {"tearing", "extracting", "copying"}
  BY DEF Past
<1>5. TornInv'
  <2>1. \A d \in Calls : at[d] \in {"tearing", "extracting", "copying"} =>
          at'[d] = at[d] /\ Base(d)' = Base(d)
    BY <1>1, <1>4 DEF Goes, Base
  <2>2. TornInv /\ UNCHANGED <<csv, parquet, generated, support, marred>>
    BY DEF AssetInv
  <2>3. ASSUME NEW b \in Bases, parquet'[b] = "torn"
        PROVE  b \in marred' \/ \E d \in Calls : at'[d] = "tearing" /\ Base(d)' = b
    <3>1. b \in marred \/ \E d \in Calls : at[d] = "tearing" /\ Base(d) = b
      BY <2>2, <2>3 DEF TornInv
    <3>2. QED
      BY <2>1, <2>2, <3>1
  <2>4. /\ generated' = "part" => "archive" \in marred' \/ \E d \in Calls : at'[d] = "extracting"
        /\ support' = "part" => "support" \in marred' \/ \E d \in Calls : at'[d] = "copying"
    BY <2>1, <2>2 DEF TornInv
  <2>5. QED
    BY <2>3, <2>4 DEF TornInv
<1>6. \A d \in Calls \ {c} : Frame(d) /\ FilesKept(d) /\ StoresKept
  BY <1>1 DEF Goes, Frame, FilesKept, StoresKept
<1>7. QED
  BY <1>2, <1>3, <1>5, <1>6 DEF Proceeds

\* What stays true of the call that looks
LEMMA LookFacts ==
  ASSUME NEW c \in Calls,
         UNCHANGED <<kaggle, support, generated, linked, want, assetHistory>>
  PROVE  /\ Base(c)' = Base(c) /\ Needs(c)' = Needs(c) /\ (Undisturbed(c)' <=> Undisturbed(c))
         /\ \A s \in Needs(c) : IsWhole(c, s)' <=> IsWhole(c, s)
<1>1. Base(c)' = Base(c) /\ Needs(c)' = Needs(c)
  BY DEF Base, Needs
<1>2. \A s \in Needs(c) : Store(c, s)' = Store(c, s)
  BY <1>1 DEF Store
<1>3. Undisturbed(c)' <=> Undisturbed(c)
  BY <1>1, <1>2 DEF Undisturbed, assetHistory
<1>4. \A s \in Needs(c) : IsWhole(c, s)' <=> IsWhole(c, s)
  BY <1>1 DEF IsWhole, kaggle
<1>5. QED
  BY <1>1, <1>3, <1>4

\* The sources are recorded one after the other.
LEMMA CollectInv ==
  ASSUME AssetInv, NEW c \in Calls, NEW s \in Sources, Collect(c, s)
  PROVE  Proceeds(c)
<1>1. /\ at[c] = s /\ at[c] \in Past \ {"copying late", "copying again"}
      /\ UNCHANGED <<kaggle, support, generated, linked, want, forced, taken, assetHistory>>
  BY DEF Collect, Sources, Past
<1>2. /\ found' \in [Calls -> SUBSET Sources]
      /\ found'[c] = IF IsWhole(c, s) THEN found[c] \cup {s} ELSE found[c]
      /\ \A d \in Calls \ {c} : found'[d] = found[d]
  BY DEF Collect, AssetInv, AssetTypeOK
<1>3. /\ Base(c) \in Bases /\ s \in Needs(c)
      /\ s = "base" => found[c] = {}
      /\ Undisturbed(c) => /\ IsWhole(c, s) /\ \A q \in Needs(c) : IsWhole(c, q)
                           /\ s = "generated" => found[c] = {"base"}
                           /\ s = "extension" => found[c] = Needs(c) \ {"extension"}
  BY <1>1 DEF AssetInv, PastInv, LockedInv, Needs, Sources
<1>4. /\ Base(c)' = Base(c) /\ Needs(c)' = Needs(c) /\ (Undisturbed(c)' <=> Undisturbed(c))
      /\ \A q \in Needs(c) : IsWhole(c, q)' <=> IsWhole(c, q)
  BY <1>1, LookFacts
<1>5. PICK place \in Past \cup {"failed"} :
        /\ Go(c, place)
        /\ place = After(c, s) \/ (place = "failed" /\ ~ IsWhole(c, s))
  BY DEF Collect, After, Lookup, Past
<1>6. at'[c] = place
  BY <1>5 DEF Go, AssetInv, AssetTypeOK
<1>7. LockedInv(c)' /\ PastInv(c)' /\ EndInv(c)'
  <2>1. CASE place = "failed"
    <3>1. ~ IsWhole(c, s)
      BY <1>5, <2>1 DEF After, Lookup
    <3>2. QED
      BY <1>3, <1>4, <1>6, <2>1, <3>1, MayFail
  <2>2. CASE place = After(c, s) /\ place \in Past
    <3>1. /\ place \in {"generated", "extension", "resolving again", "reading"}
          /\ place = "generated" => s = "base" /\ want[c].synthetic
          /\ place = "extension" => /\ s # "extension" /\ want[c].extension
                                    /\ s = "base" => ~ want[c].synthetic
          /\ place = "resolving again" => s = "extension" /\ want[c].extension
          /\ place = "reading" => ~ want[c].extension /\ (s = "base" => ~ want[c].synthetic)
      BY <1>3, <2>2 DEF After, Lookup, Needs, Sources
    <3>2. ASSUME Undisturbed(c)
          PROVE  /\ place = "generated" => found'[c] = {"base"}
                 /\ place = "extension" => found'[c] = Needs(c) \ {"extension"}
                 /\ place \in {"resolving again", "reading"} => found'[c] = Needs(c)
      <4>1. found'[c] = found[c] \cup {s}
        BY <1>2, <1>3, <3>2
      <4>2. s \in {"base", "generated", "extension"}
        BY DEF Sources
      <4>3. CASE s = "base"
        BY <1>3, <3>1, <4>1, <4>3 DEF Needs
      <4>4. CASE s = "generated"
        BY <1>3, <3>1, <3>2, <4>1, <4>4 DEF Needs
      <4>5. CASE s = "extension"
        BY <1>3, <3>1, <3>2, <4>1, <4>5 DEF Needs
      <4>6. QED
        BY <4>2, <4>3, <4>4, <4>5
    <3>3. LockedInv(c)'
      BY <1>6, <3>1 DEF LockedInv, Locked
    <3>4. PastInv(c)'
      BY <1>1, <1>3, <1>4, <1>6, <3>1, <3>2 DEF PastInv
    <3>5. EndInv(c)'
      BY <1>6, <3>1 DEF EndInv
    <3>6. QED
      BY <3>3, <3>4, <3>5
  <2>3. QED
    BY <2>1, <2>2, <1>5
<1>8. taken' \in [Calls -> SUBSET Sources]
  BY <1>1 DEF AssetInv, AssetTypeOK
<1>9. QED
  BY <1>1, <1>2, <1>5, <1>7, <1>8, OnlyLooks

\* The download is gone only for a call that was disturbed.
LEMMA FailToResolveInv ==
  ASSUME AssetInv, NEW c \in Calls, FailToResolve(c)
  PROVE  Proceeds(c)
<1>1. /\ at[c] \in {"resolving", "resolving again"} /\ csv[Base(c)] = "none" /\ Go(c, "failed")
      /\ UNCHANGED <<kaggle, support, generated, linked, want, forced, found, taken, assetHistory>>
  BY DEF FailToResolve, outcome
<1>2. at[c] \in Past \ {"copying late", "copying again"}
  BY <1>1 DEF Past
<1>3. ~ Undisturbed(c)'
  <2>1. "base" \in Needs(c) /\ ~ IsWhole(c, "base")
    BY <1>1 DEF Needs, IsWhole
  <2>2. ~ Undisturbed(c)
    BY <1>2, <2>1 DEF AssetInv, PastInv
  <2>3. QED
    BY <1>1, <2>2, LookFacts
<1>4. at'[c] = "failed"
  BY <1>1 DEF Go, AssetInv, AssetTypeOK
<1>5. LockedInv(c)' /\ PastInv(c)' /\ EndInv(c)'
  BY <1>3, <1>4, MayFail
<1>6. found' \in [Calls -> SUBSET Sources] /\ taken' \in [Calls -> SUBSET Sources]
  BY <1>1 DEF AssetInv, AssetTypeOK
<1>7. QED
  BY <1>1, <1>2, <1>5, <1>6, OnlyLooks

\* A call that finds its bundle has recorded all of its sources.
LEMMA HasBundleInv ==
  ASSUME AssetInv, NEW c \in Calls, HasBundle(c)
  PROVE  Proceeds(c)
<1>1. /\ at[c] \in {"resolving again", "reading"} /\ Go(c, "done")
      /\ UNCHANGED <<kaggle, support, generated, linked, want, forced, found, assetHistory>>
  BY DEF HasBundle, Lookup
<1>2. at[c] \in Past \ {"copying late", "copying again"}
  BY <1>1 DEF Past
<1>3. /\ taken' \in [Calls -> SUBSET Sources] /\ found' \in [Calls -> SUBSET Sources]
      /\ taken'[c] = found[c] /\ \A d \in Calls \ {c} : taken'[d] = taken[d]
  BY <1>1 DEF HasBundle, AssetInv, AssetTypeOK
<1>4. at'[c] = "done"
  BY <1>1 DEF Go, AssetInv, AssetTypeOK
<1>5. Undisturbed(c)' => found'[c] = Needs(c)' /\ taken'[c] = Needs(c)'
  BY <1>1, <1>2, <1>3, LookFacts DEF AssetInv, PastInv
<1>6. LockedInv(c)' /\ PastInv(c)' /\ EndInv(c)'
  BY <1>4, <1>5 DEF LockedInv, PastInv, EndInv, Locked, Past
<1>7. QED
  BY <1>1, <1>2, <1>3, <1>6, OnlyLooks

\* The call reads the sources it has recorded.
LEMMA ReadInv ==
  ASSUME AssetInv, NEW c \in Calls, Read(c)
  PROVE  Proceeds(c)
<1>1. /\ at[c] = "reading" /\ at[c] \in Past \ {"copying late", "copying again"}
      /\ UNCHANGED <<kaggle, support, generated, linked, want, forced, found, assetHistory>>
  BY DEF Read, Past
<1>2. Needs(c) \subseteq Sources
  BY DEF Needs, Sources
<1>3. /\ taken' \in [Calls -> SUBSET Sources] /\ found' \in [Calls -> SUBSET Sources]
      /\ taken'[c] = {s \in Needs(c) : IsWhole(c, s)}
      /\ \A d \in Calls \ {c} : taken'[d] = taken[d]
  BY <1>1, <1>2 DEF Read, AssetInv, AssetTypeOK
<1>4. PICK place \in {"done", "failed"} :
        Go(c, place) /\ (place = "failed" => \E s \in Needs(c) : ~ IsWhole(c, s))
  BY DEF Read
<1>5. at'[c] = place
  BY <1>4 DEF Go, AssetInv, AssetTypeOK
<1>6. Undisturbed(c)' => /\ found'[c] = Needs(c)' /\ taken'[c] = Needs(c)'
                         /\ \A s \in Needs(c) : IsWhole(c, s)
  <2>1. Undisturbed(c) => found'[c] = Needs(c) /\ \A s \in Needs(c) : IsWhole(c, s)
    BY <1>1 DEF AssetInv, PastInv
  <2>2. Undisturbed(c) => taken'[c] = Needs(c)
    BY <1>3, <2>1
  <2>3. QED
    BY <1>1, <2>1, <2>2, LookFacts
<1>7. LockedInv(c)' /\ PastInv(c)' /\ EndInv(c)'
  BY <1>4, <1>5, <1>6 DEF LockedInv, PastInv, EndInv, Locked, Past
<1>8. QED
  BY <1>1, <1>3, <1>4, <1>7, OnlyLooks

\* A kill tears what was being written, and marks it as marred.
LEMMA KillCallInv ==
  ASSUME AssetInv, NEW c \in Calls, KillCall(c)
  PROVE  Proceeds(c)
<1> USE DEF AssetInv
<1>1. Go(c, "out") /\ UNCHANGED <<kaggle, support, generated, linked>>
  BY DEF KillCall
<1>2. /\ want' = [want EXCEPT ![c] = NoRequest] /\ forced' = [forced EXCEPT ![c] = FALSE]
      /\ found' = [found EXCEPT ![c] = {}] /\ taken' = [taken EXCEPT ![c] = {}]
      /\ disturbed' = disturbed \ {c} /\ excused' = excused \ {c}
  BY DEF KillCall
<1>3. /\ marred \subseteq marred'
      /\ at[c] = "tearing" => Base(c) \in marred'
      /\ at[c] = "extracting" => "archive" \in marred'
      /\ at[c] = "copying" => "support" \in marred'
  BY DEF KillCall
<1>4. Goes(c, "out")
  BY <1>1, GoesTo
<1>5. AssetTypeOK'
  BY <1>1, <1>2 DEF AssetTypeOK, Go, kaggle
<1>6. \A d \in Calls \ {c} : /\ want'[d] = want[d] /\ forced'[d] = forced[d]
                               /\ found'[d] = found[d] /\ taken'[d] = taken[d]
  BY <1>2 DEF AssetTypeOK
<1>7. LockInv'
  BY <1>4 DEF LockInv, Goes, Locked
<1>8. TornInv'
  BY <1>1, <1>3, <1>4, <1>6 DEF TornInv, Goes, Base, kaggle
<1>9. LockedInv(c)' /\ PastInv(c)' /\ EndInv(c)'
  BY <1>4 DEF Goes, LockedInv, PastInv, EndInv, Locked, Past
<1>10. \A d \in Calls \ {c} : Frame(d) /\ FilesKept(d) /\ StoresKept
  BY <1>1, <1>2, <1>3, <1>4, <1>6 DEF Goes, Frame, FilesKept, StoresKept, kaggle
<1>11. QED
  BY <1>5, <1>7, <1>8, <1>9, <1>10 DEF Proceeds

----------------------------------------------------------------------------
(* The invariant                                                            *)

\* A node is fresh, in use, or lacks the files of a dataset; nobody calls yet.
LEMMA AssetInitInv ==
  ASSUME AssetInit
  PROVE  AssetInv
<1>1. AssetTypeOK
  BY DEF AssetInit, AssetTypeOK, NoRequest, Sources
<1>2. \A c \in Calls : at[c] = "out"
  BY DEF AssetInit
<1>3. LockInv /\ TornInv
  BY <1>2 DEF AssetInit, LockInv, TornInv, Locked
<1>4. \A c \in Calls : LockedInv(c) /\ PastInv(c) /\ EndInv(c)
  BY <1>2 DEF LockedInv, PastInv, EndInv, Locked, Past
<1>5. QED
  BY <1>1, <1>3, <1>4 DEF AssetInv

\* What one call does is right for the others as well.
LEMMA ProceedsKeeps ==
  ASSUME AssetInv, NEW c \in Calls, Proceeds(c)
  PROVE  AssetInv'
<1>1. ASSUME NEW d \in Calls \ {c}
      PROVE  LockedInv(d)' /\ PastInv(d)' /\ EndInv(d)'
  BY <1>1, FrameKeeps DEF Proceeds
<1>2. QED
  BY <1>1 DEF Proceeds, AssetInv

\* Every step preserves the invariant.
LEMMA AssetStepInv ==
  ASSUME AssetInv, [AssetNext]_assetVars
  PROVE  AssetInv'
<1>1. CASE UNCHANGED assetVars
  <2> USE <1>1 DEF assetVars, kaggle, outcome, assetHistory
  <2>1. AssetTypeOK' /\ LockInv' /\ TornInv'
    BY DEF AssetInv, AssetTypeOK, LockInv, TornInv, Base
  <2>2. \A c \in Calls : Frame(c) /\ FilesKept(c) /\ StoresKept
    BY DEF Frame, FilesKept, StoresKept
  <2>3. \A c \in Calls : LockedInv(c)' /\ PastInv(c)' /\ EndInv(c)'
    BY <2>2, FrameKeeps
  <2>4. QED
    BY <2>1, <2>3 DEF AssetInv
<1>2. ASSUME NEW c \in Calls,
             \/ \E r \in Requests : Enter(c, r)
             \/ Download(c) \/ Fetch(c) \/ Convert(c) \/ FinishParquet(c) \/ Check(c)
             \/ Unpack(c) \/ Extract(c) \/ Unlink(c) \/ Link(c)
      PROVE  AssetInv'
  BY <1>2, ProceedsKeeps, EnterInv, DownloadInv, FetchInv, ConvertInv, FinishParquetInv, CheckInv,
     UnpackInv, ExtractInv, UnlinkInv, LinkInv
<1>3. ASSUME NEW c \in Calls,
             \/ PrepareSupport(c, "extending", "copying", Validated(c))
             \/ CopySupport(c, "copying", Validated(c))
      PROVE  AssetInv'
  BY <1>3, ProceedsKeeps, ExtendInv, CopyInv
<1>4. ASSUME NEW c \in Calls,
             \/ Resolve(c, "resolving", "copying late", "base")
             \/ CopySupport(c, "copying late", "base")
             \/ Resolve(c, "resolving again", "copying again", "reading")
             \/ CopySupport(c, "copying again", "reading")
      PROVE  AssetInv'
  <2>1. /\ LateStep("resolving", "copying late", "base")
        /\ LateStep("resolving again", "copying again", "reading")
    BY DEF LateStep
  <2>2. Proceeds(c)
    BY <1>4, <2>1, ResolveInv, CopyLateInv
  <2>3. QED
    BY <2>2, ProceedsKeeps
<1>5. ASSUME NEW c \in Calls,
             \/ \E s \in Sources : Collect(c, s)
             \/ FailToResolve(c) \/ HasBundle(c) \/ Read(c) \/ KillCall(c)
      PROVE  AssetInv'
  BY <1>5, ProceedsKeeps, CollectInv, FailToResolveInv, HasBundleInv, ReadInv, KillCallInv
<1>6. QED
  BY <1>1, <1>2, <1>3, <1>4, <1>5 DEF AssetNext

\* A call that ends well recorded and read all of its sources, whole, and one
\* in which nothing raises fails only for a dataset that does not exist, unless
\* somebody else got at its files (ensure_dataset_assets, load_sequence_modes):
\* for every number of calls, every set of datasets and requests.
THEOREM FilesAreThere == AssetSpec => []UndisturbedGetsItsFiles
<1>1. AssetInv => UndisturbedGetsItsFiles
  BY DEF AssetInv, EndInv, UndisturbedGetsItsFiles
<1>2. QED
  BY <1>1, AssetInitInv, AssetStepInv, PTL DEF AssetSpec
=============================================================================
