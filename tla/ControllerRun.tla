--------------------------- MODULE ControllerRun ---------------------------
(***************************************************************************)
(* run_tune of core/tune/orchestration.py around a campaign of pairs: the  *)
(* controller run in MLflow, the verdict, and the notices that go out on   *)
(* the way (tune/notification_callbacks.py, core/notifications), from the  *)
(* main thread and from the callback thread of the pair controller, or all *)
(* from the main thread under the local controller.  The controllers are   *)
(* known by what PairCampaign promises of them and by what their threads   *)
(* wait for.  A notice goes to the sinks one after the other: e-mail, then *)
(* the Telegram relay.  A sink that fails is logged.                       *)
(***************************************************************************)
EXTENDS TelegramRelay, SequencesExt

CONSTANTS RunPairs, RunWidth

Controller == "controller"

ASSUME ControllerAssumption ==
  /\ Posters = {"main", "callbacks"}
  /\ Controller \notin RunPairs /\ Nothing \notin RunPairs

VARIABLES runAt,      \* where run_tune is
          lineage,    \* mlflow_enable_controller_lineage
          inProcess,  \* execution_backend is "local"
          sinks,      \* of the dispatcher
          tracked,    \* the status of the controller run in MLflow
          pairStage, verdict,
          handedOver, \* pairs whose on_job_terminal has been submitted
          calling,    \* the pair it runs for and how it will end
          outbox,     \* notices a thread is dispatching, in order
          mailed,     \* a thread's first of them has been through the first sink
          told        \* notices that have been dispatched

runOptions == <<lineage, inProcess, sinks>>
campaignVars == <<pairStage, verdict>>
posting == <<outbox, mailed, told>>
runVars == <<runAt, runOptions, tracked, campaignVars, handedOver, calling, posting>>

Campaign == INSTANCE PairCampaign WITH
              Pairs <- RunPairs, Width <- RunWidth,
              stage <- pairStage, verdict <- verdict

CallbackThread == IF inProcess THEN "main" ELSE "callbacks"

NoCall == [pair |-> Nothing, ends |-> "reported"]

RunInit ==
  /\ runAt = "preparing"
  /\ lineage \in BOOLEAN /\ inProcess \in BOOLEAN
  /\ sinks \in SUBSET {"email", "telegram"}
  /\ tracked = "none"
  /\ Campaign!Init
  /\ handedOver = <<>> /\ calling = NoCall
  /\ outbox = [t \in Posters |-> <<>>] /\ mailed = [t \in Posters |-> FALSE]
  /\ told = {}
  /\ RelayInit

----------------------------------------------------------------------------
\* dispatch of these notices, in this order, by a thread that has none left
Dispatch(t, notices) ==
  /\ outbox' = [outbox EXCEPT ![t] = IF sinks = {} THEN <<>> ELSE notices]
  /\ told' = told \cup ToSet(notices)
  /\ UNCHANGED mailed

Free(t) == outbox[t] = <<>> /\ awaiting[t] = Nothing

\* SmtpEmailSink.send, the first sink: done, or an error was logged.
Mail(t) ==
  /\ outbox[t] # <<>> /\ awaiting[t] = Nothing
  /\ "email" \in sinks /\ ~ mailed[t]
  /\ IF "telegram" \in sinks
     THEN mailed' = [mailed EXCEPT ![t] = TRUE] /\ UNCHANGED outbox
     ELSE outbox' = [outbox EXCEPT ![t] = Tail(@)] /\ UNCHANGED mailed
  /\ UNCHANGED <<runAt, runOptions, tracked, campaignVars, handedOver, calling, told, relayVars>>

\* TelegramNotifierBotSink.send
Telegram(t) ==
  /\ outbox[t] # <<>>
  /\ "telegram" \in sinks /\ ("email" \in sinks => mailed[t])
  /\ Post(t, Head(outbox[t]))
  /\ outbox' = [outbox EXCEPT ![t] = Tail(@)]
  /\ mailed' = [mailed EXCEPT ![t] = FALSE]
  /\ UNCHANGED <<runAt, runOptions, tracked, campaignVars, handedOver, calling, told>>

----------------------------------------------------------------------------
MainMoves(from, to) ==
  /\ runAt = from /\ Free("main")
  /\ runAt' = to
  /\ UNCHANGED <<runOptions, handedOver, calling, relayVars>>

\* A call on MLflow that sets the status of the run, or raises, with or without
\* having done so
Track(status, done, failed) ==
  \/ MainMoves(runAt, done) /\ tracked' = IF lineage THEN status ELSE tracked
  \/ /\ lineage
     /\ MainMoves(runAt, failed)
     /\ tracked' \in {tracked, status}

\* start_controller_run
StartRun ==
  /\ runAt = "preparing"
  /\ Track("RUNNING", "connecting", "raised")
  /\ UNCHANGED <<campaignVars, posting>>

\* The snapshot of the code, the manifest and ray.init come before the try.
Connect ==
  /\ MainMoves("connecting", "announcing") \/ MainMoves("connecting", "raised")
  /\ UNCHANGED <<tracked, campaignVars, posting>>

Announce ==
  /\ MainMoves("announcing", "submitting")
  /\ Dispatch("main", <<<<Controller, "start">>>>)
  /\ UNCHANGED <<tracked, campaignVars>>

\* submit_one and notify_start.  A submission that raises may have reached the
\* cluster; nothing is submitted after it.
Launch(p) ==
  /\ Campaign!Launch(p)
  /\ inProcess => \A q \in RunPairs : pairStage[q] \in {"waiting", "reported"}
  /\ \/ MainMoves("submitting", "submitting") /\ Dispatch("main", <<<<p, "start">>>>)
     \/ ~ inProcess /\ MainMoves("submitting", "draining") /\ UNCHANGED posting
  /\ UNCHANGED tracked

JobOver(p) ==
  /\ Campaign!End(p)
  /\ inProcess => runAt = "submitting" /\ Free("main")
  /\ UNCHANGED <<runAt, runOptions, tracked, handedOver, calling, posting, relayVars>>

\* The poll has found that the job is over.
HandOver(p) ==
  /\ runAt = "submitting" /\ Free("main")
  /\ pairStage[p] = "ended"
  /\ p # calling.pair /\ p \notin ToSet(handedOver)
  /\ handedOver' = Append(handedOver, p)
  /\ UNCHANGED <<runAt, runOptions, tracked, campaignVars, calling, posting, relayVars>>

\* on_job_terminal: the delegate returns or raises, and the notices go out; a
\* message may sound like a RAM breach.
CallBack ==
  /\ handedOver # <<>> /\ calling = NoCall /\ Free(CallbackThread)
  /\ handedOver' = Tail(handedOver)
  /\ \E end \in {"reported", "botched"}, breach \in BOOLEAN :
       /\ calling' = [pair |-> Head(handedOver), ends |-> end]
       /\ Dispatch(CallbackThread,
            IF breach /\ end = "reported"
            THEN <<<<Head(handedOver), "terminal">>, <<Head(handedOver), "breach">>>>
            ELSE <<<<Head(handedOver), "terminal">>>>)
  /\ UNCHANGED <<runAt, runOptions, tracked, campaignVars, relayVars>>

CalledBack ==
  /\ calling # NoCall /\ Free(CallbackThread)
  /\ Campaign!Report(calling.pair)
  /\ pairStage'[calling.pair] = calling.ends
  /\ calling' = NoCall
  /\ UNCHANGED <<runAt, runOptions, tracked, handedOver, posting, relayVars>>

\* A call on the cluster, a file or a local callback raises, or no pair is
\* left to wait for.
LeaveLoop ==
  /\ MainMoves("submitting", "draining")
  /\ inProcess => \A p \in RunPairs : pairStage[p] \notin {"running", "ended"}
  /\ UNCHANGED <<tracked, campaignVars, posting>>

Judge ==
  /\ \/ MainMoves("draining", "summing") /\ Campaign!Succeed
     \/ /\ \E p \in RunPairs : pairStage[p] # "reported"
        /\ MainMoves("draining", "failing")
        /\ Campaign!Fail
  /\ UNCHANGED <<tracked, posting>>

\* Mutant: the executor is not waited for.
JudgeAtOnce == Judge

\* The executor has been waited for.
JudgeWhenCalledBack == handedOver = <<>> /\ calling = NoCall /\ Judge

\* The summary, the table and the report are logged.
LogSummary ==
  /\ runAt = "summing"
  /\ \/ MainMoves("summing", "closing")
     \/ lineage /\ MainMoves("summing", "failing")
  /\ UNCHANGED <<tracked, campaignVars, posting>>

\* set_terminated and the last notice; whatever raised is logged.
Close ==
  /\ runAt = "closing"
  /\ Track("FINISHED", "returned 0", "failing")
  /\ \/ runAt' = "returned 0" /\ Dispatch("main", <<<<Controller, "SUCCEEDED">>>>)
     \/ runAt' = "failing" /\ UNCHANGED posting
  /\ UNCHANGED campaignVars

\* The handler of the exception
CloseFailed ==
  /\ runAt = "failing"
  /\ Track("FAILED", "returned 1", "raised")
  /\ \/ runAt' = "returned 1" /\ Dispatch("main", <<<<Controller, "FAILED">>>>)
     \/ runAt' = "raised" /\ UNCHANGED posting
  /\ UNCHANGED campaignVars

RunNext ==
  \/ StartRun \/ Connect \/ Announce \/ CallBack \/ CalledBack \/ LeaveLoop
  \/ JudgeWhenCalledBack \/ LogSummary \/ Close \/ CloseFailed
  \/ \E p \in RunPairs : Launch(p) \/ JobOver(p) \/ HandOver(p)
  \/ \E t \in Posters : Mail(t) \/ Telegram(t)
  \/ RelayNext /\ UNCHANGED runVars

RunSpec == RunInit /\ [][RunNext]_<<runVars, relayVars>>

----------------------------------------------------------------------------
Endings == {<<Controller, "SUCCEEDED">>, <<Controller, "FAILED">>}

\* The exit code, the run in MLflow and the last notice tell the same, and if
\* run_tune raises, no notice says that it is over.
VerdictsAgree ==
  CASE runAt = "returned 0" -> /\ told \cap Endings = {<<Controller, "SUCCEEDED">>}
                               /\ verdict = "success"
                               /\ lineage => tracked = "FINISHED"
    [] runAt = "returned 1" -> /\ told \cap Endings = {<<Controller, "FAILED">>}
                               /\ lineage => tracked = "FAILED"
    [] OTHER                -> told \cap Endings = {}

Acts == <<"start", "terminal", "breach">>

Precedes(m, n) ==
  \/ m = <<Controller, "start">> /\ n # m
  \/ n \in Endings /\ m \notin Endings
  \/ m[1] = n[1] /\ m[1] # Controller
     /\ \E i, j \in DOMAIN Acts : i < j /\ m[2] = Acts[i] /\ n[2] = Acts[j]

\* Nothing twice, and nothing after what it precedes unless it is excused
InOrder(story, excused) ==
  \A i, j \in DOMAIN story : i < j =>
    /\ story[i] # story[j]
    /\ Precedes(story[j], story[i]) => story[j] \in excused

HeardNotices == [i \in DOMAIN heard |-> heard[i].notice]

\* Whoever reads along sees the run as it went: the notices of both threads
\* come in order, those of a pair between those of the run, none twice and
\* none that was posted goes missing unless a link, the relay or Telegram
\* failed; only one whose caller gave up may be overtaken.  The verdict is the
\* same everywhere.
ToldAsItWent ==
  /\ VerdictsAgree
  /\ InOrder(HeardNotices, givenUp)
  /\ runAt \in {"returned 0", "returned 1"} /\ "telegram" \in sinks /\ Free("main") =>
       /\ told = ToSet(HeardNotices) \cup lost \cup DOMAIN requests
       /\ \A p \in RunPairs : pairStage[p] \in {"reported", "botched"} =>
            {<<p, "start">>, <<p, "terminal">>} \subseteq told
=============================================================================
