---------------------------- MODULE MCProcesses ----------------------------
(* The programs that run beside the campaigns: the parts of an evaluation, *)
(* the scaling and the files of a prepared bundle, the cache of styled     *)
(* windows, the bring-up of a cluster, the preparation of a node, the raw  *)
(* files of its datasets, the training of a seed, the upload of a pair, and *)
(* a controller run with its notices.                                      *)
(* One of them is at work in each behaviour while the others rest.         *)
EXTENDS AlarmSweep, PredictionStream, RowAlignment, EventPostprocessing, PostprocessingSearch,
        FeatureScaling, ArrowBundle, StyledPredictCache, ClusterBringUp, NativeBootstrap,
        DatasetAssets, SeedTraining, PairUpload, ControllerRun, TLC

VARIABLE atWork   \* the program that is at work

Sizes(policyKind, window, stride, chunk) ==
  [kind |-> policyKind, window |-> window, stride |-> stride, chunk |-> chunk]

\* PaAno's stride is 1 in the repository; 2 is what the policy is written for.
MCPolicies ==
  {Sizes("atomic", 1, 1, c) : c \in 1 .. 3} \cup
  {Sizes("causal", w, 1, c) : w \in 1 .. 3, c \in 1 .. 3} \cup
  {Sizes("patch", w, 1, c) : w \in 1 .. 3, c \in 1 .. 3} \cup
  {Sizes("patch", w, 2, c) : w \in 2 .. 4, c \in 1 .. 3} \cup
  {Sizes("catch", w, 1, c) : w \in 1 .. 3, c \in 1 .. 2}

Options(reach, span, enter, exit, gap, least) ==
  [short |-> reach, span |-> span, enter |-> enter, exit |-> exit, gap |-> gap, least |-> least]

MCConfigs ==
  {Options(1, 1, 1, 1, 0, 1), Options(2, 3, 2, 2, 1, 2), Options(3, 1, 1, 2, 1, 2),
   Options(2, 2, 2, 1, 2, 3), Options(1, 3, 1, 1, 1, 3), Options(4, 25, 3, 2, 1, 1), Options(1, 1, 1, 1, 2, 1)}

MCOrder == <<"a", "b">>
MCSpace == "a" :> <<1, 2>> @@ "b" :> <<2, 3>>

\* A start among the candidates, and two with a value outside of them
MCInitials == {"a" :> 1 @@ "b" :> 2, "a" :> 3 @@ "b" :> 2, "a" :> 1 @@ "b" :> 1}

----------------------------------------------------------------------------
\* What somebody may have made: the auxiliary directory that holds another, and
\* a core path of heads only
MCUserPaths == {"tmp", "postgres"}

\* A row with one on each side, two columns of one kind, and three of several
MCShapes == {<<3, 1>>, <<2, 2>>, <<1, 3>>}

Asks(base, synthetic, extension) ==
  [base |-> base, synthetic |-> synthetic, extension |-> extension]

\* A dataset with generated data and an extension, and a name that is wrong
MCBases == {"ome"}
MCRequests == {Asks("ome", TRUE, FALSE), Asks("ome", FALSE, TRUE), Asks("unknown", FALSE, FALSE)}

\* The last epoch of the first stage is validated, that of the second is not.
MCEpochs == [synthetic |-> 4, real |-> 3]

----------------------------------------------------------------------------
\* Up to three scores, with every pattern of ties between them
SweepStarts == SweepInit /\ \A i \in Points : score[i] <= 3

SweepRests ==
  /\ sweep = "batch"
  /\ score = [i \in Points |-> 1] /\ targets = {}
  /\ preds = {} /\ batch = {} /\ todo = {} /\ sets = NoSets
  /\ counts = [positives |-> 0, segments |-> 0]
  /\ overflows = [early |-> {}, late |-> {}]
  /\ alarms = [i \in Points |-> 0] /\ weights = [i \in Points |-> 0]
  /\ alive = {} /\ fenwick = EmptyTree /\ detected = {} /\ termSum = 0
  /\ choice = [threshold |-> Never, score |-> 0]

StreamRests ==
  /\ stream = "open"
  /\ policy = Sizes("atomic", 1, 1, 1)
  /\ given = 0 /\ emitted = 0
  /\ pending = <<>> /\ pendingCount = 0 /\ drawn = <<>>
  /\ scores = <<>> /\ buffer = NoBuffer

AlignRests ==
  /\ rowsAt = "scored"
  /\ lengths = <<1>> /\ offset = [start |-> 0, end |-> 0] /\ full = TRUE
  /\ rowScores = <<NoScore, <<1, 1>>>> /\ rowLabels = <<NoLabel, <<1, 1>>>>

PostRests ==
  /\ post = "smooth"
  /\ config = Options(1, 1, 1, 1, 0, 1)
  /\ raw = [i \in Places |-> NegInf] /\ decision = raw
  /\ point = 1 /\ candidates = <<>> /\ average = 0
  /\ threshold = [on |-> PosInf, off |-> PosInf]
  /\ active = FALSE /\ above = 0 /\ below = 0 /\ alarmed = {}

SearchRests ==
  /\ search = "try"
  /\ initial = "a" :> 1 @@ "b" :> 2
  /\ rank = [s \in SettingsFrom(initial) |-> 1]
  /\ current = initial /\ best = initial /\ local = initial
  /\ param = 1 /\ round = 1 /\ queue = {} /\ improved = FALSE
  /\ history = <<initial>>

ClusterRests ==
  /\ bringUp = "probing"
  /\ force = FALSE /\ exclusive = FALSE /\ answered = FALSE
  /\ plan = "configured" /\ cluster = "down"
  /\ routes = [p \in Plans |-> {}] /\ placeable = FALSE
  /\ members = {} /\ short = {} /\ table = {}
  /\ campaign = [c \in Campaigns |-> "none"]

ScalingRests == shape = <<1, 3>> /\ extremeAction = "none" /\ indicators = TRUE /\ ScalingInit

ArrowRests == steps = <<>> /\ wanted = All /\ inWidth = 1 /\ outWidth = 1 /\ ArrowInit

CacheRests == cacheFile = "none" /\ CacheInit

BootstrapRests == BootstrapInit /\ \A p \in Paths : ~ Exists(p)

AssetsRest == csv = [b \in Bases |-> "none"] /\ AssetInit

SeedRests ==
  /\ useGenerated = FALSE /\ lightning = FALSE /\ saveCheckpoints = FALSE
  /\ node = CHOOSE n \in TrialNodes : TRUE
  /\ SeedInit

UploadRests ==
  /\ succeeded = FALSE /\ withBest = FALSE /\ hasStudy = FALSE
  /\ named = [r \in StudyRuns |-> CHOOSE n \in RunNames : TRUE]
  /\ UploadInit

controllerVars == <<runVars, relayVars>>

\* On Ray with a controller run in MLflow and one sink, locally without and
\* with both
ControllerInit ==
  /\ inProcess \in BOOLEAN /\ lineage = ~ inProcess
  /\ sinks = IF inProcess THEN {"email", "telegram"} ELSE {"telegram"}
  /\ RunInit

ControllerRests == lineage = FALSE /\ inProcess = TRUE /\ sinks = {} /\ link = Nobody /\ RunInit

----------------------------------------------------------------------------
StartOf(program, init, rests) == (atWork = program /\ init) \/ (atWork # program /\ rests)

MCInit ==
  /\ atWork \in {"sweep", "stream", "align", "post", "search", "scaling", "arrow", "cache",
                "cluster", "bootstrap", "assets", "seed", "upload", "controller"}
  /\ StartOf("sweep", SweepStarts, SweepRests)
  /\ StartOf("stream", StreamInit, StreamRests)
  /\ StartOf("align", AlignInit, AlignRests)
  /\ StartOf("post", PostInit, PostRests)
  /\ StartOf("search", SearchInit, SearchRests)
  /\ StartOf("scaling", ScalingInit, ScalingRests)
  /\ StartOf("arrow", ArrowInit, ArrowRests)
  /\ StartOf("cache", CacheInit, CacheRests)
  /\ StartOf("cluster", ClusterInit, ClusterRests)
  /\ StartOf("bootstrap", BootstrapInit, BootstrapRests)
  /\ StartOf("assets", AssetInit, AssetsRest)
  /\ StartOf("seed", SeedInit, SeedRests)
  /\ StartOf("upload", UploadInit, UploadRests)
  /\ StartOf("controller", ControllerInit, ControllerRests)

MCNext ==
  \/ /\ atWork = "sweep" /\ SweepNext
     /\ UNCHANGED <<atWork, streamVars, alignVars, postVars, searchVars, scalingVars, bundleVars,
                    cacheVars, clusterVars, bootstrapVars, assetVars, seedVars, uploadVars,
                    controllerVars>>
  \/ /\ atWork = "stream" /\ StreamNext
     /\ UNCHANGED <<atWork, sweepVars, alignVars, postVars, searchVars, scalingVars, bundleVars,
                    cacheVars, clusterVars, bootstrapVars, assetVars, seedVars, uploadVars,
                    controllerVars>>
  \/ /\ atWork = "align" /\ AlignNext
     /\ UNCHANGED <<atWork, sweepVars, streamVars, postVars, searchVars, scalingVars, bundleVars,
                    cacheVars, clusterVars, bootstrapVars, assetVars, seedVars, uploadVars,
                    controllerVars>>
  \/ /\ atWork = "post" /\ PostNext
     /\ UNCHANGED <<atWork, sweepVars, streamVars, alignVars, searchVars, scalingVars,
                    bundleVars, cacheVars, clusterVars, bootstrapVars, assetVars, seedVars,
                    uploadVars, controllerVars>>
  \/ /\ atWork = "search" /\ SearchNext
     /\ UNCHANGED <<atWork, sweepVars, streamVars, alignVars, postVars, scalingVars, bundleVars,
                    cacheVars, clusterVars, bootstrapVars, assetVars, seedVars, uploadVars,
                    controllerVars>>
  \/ /\ atWork = "scaling" /\ ScalingNext
     /\ UNCHANGED <<atWork, sweepVars, streamVars, alignVars, postVars, searchVars, bundleVars,
                    cacheVars, clusterVars, bootstrapVars, assetVars, seedVars, uploadVars,
                    controllerVars>>
  \/ /\ atWork = "arrow" /\ ArrowNext
     /\ UNCHANGED <<atWork, sweepVars, streamVars, alignVars, postVars, searchVars, scalingVars,
                    cacheVars, clusterVars, bootstrapVars, assetVars, seedVars, uploadVars,
                    controllerVars>>
  \/ /\ atWork = "cache" /\ CacheNext
     /\ UNCHANGED <<atWork, sweepVars, streamVars, alignVars, postVars, searchVars, scalingVars,
                    bundleVars, clusterVars, bootstrapVars, assetVars, seedVars, uploadVars,
                    controllerVars>>
  \/ /\ atWork = "cluster" /\ ClusterNext
     /\ UNCHANGED <<atWork, sweepVars, streamVars, alignVars, postVars, searchVars, scalingVars,
                    bundleVars, cacheVars, bootstrapVars, assetVars, seedVars, uploadVars,
                    controllerVars>>
  \/ /\ atWork = "bootstrap" /\ BootstrapNext
     /\ UNCHANGED <<atWork, sweepVars, streamVars, alignVars, postVars, searchVars, scalingVars,
                    bundleVars, cacheVars, clusterVars, assetVars, seedVars, uploadVars,
                    controllerVars>>
  \/ /\ atWork = "assets" /\ AssetNext
     /\ UNCHANGED <<atWork, sweepVars, streamVars, alignVars, postVars, searchVars, scalingVars,
                    bundleVars, cacheVars, clusterVars, bootstrapVars, seedVars, uploadVars,
                    controllerVars>>
  \/ /\ atWork = "seed" /\ SeedNext
     /\ UNCHANGED <<atWork, sweepVars, streamVars, alignVars, postVars, searchVars, scalingVars,
                    bundleVars, cacheVars, clusterVars, bootstrapVars, assetVars, uploadVars,
                    controllerVars>>
  \/ /\ atWork = "upload" /\ UploadNext
     /\ UNCHANGED <<atWork, sweepVars, streamVars, alignVars, postVars, searchVars, scalingVars,
                    bundleVars, cacheVars, clusterVars, bootstrapVars, assetVars, seedVars,
                    controllerVars>>
  \/ /\ atWork = "controller" /\ RunNext
     /\ UNCHANGED <<atWork, sweepVars, streamVars, alignVars, postVars, searchVars, scalingVars,
                    bundleVars, cacheVars, clusterVars, bootstrapVars, assetVars, seedVars,
                    uploadVars>>

MCSpec ==
  MCInit /\ [][MCNext]_<<atWork, sweepVars, streamVars, alignVars, postVars, searchVars,
                         scalingVars, bundleVars, cacheVars, clusterVars, bootstrapVars,
                         assetVars, seedVars, uploadVars, controllerVars>>
=============================================================================
