------------------------------ MODULE Engines ------------------------------
(***************************************************************************)
(* The engine of one node process: one of the four worker engines, chosen  *)
(* when the node starts (InferenceEngine::create) and never changed.       *)
(***************************************************************************)
EXTENDS SttEngine, TtsEngine, ImageEngine, FiniteSets

vars == <<wvars, imageVars>>

Init == WorkerInit /\ ImageInit

TypeOK == WorkerTypeOK /\ ImageTypeOK

(* The embedding engine, which remembers no request ids.                   *)
EmbedRestart ==
  \/ RestartRefused
  \/ RestartStops /\ Charged
  \/ RestartLaunches \/ RestartConfirms \/ RestartFails

Embed ==
  \E c \in Calls :
    \/ Unhealthy(c) \/ Refused(c) \/ Admit(c)
    \/ Send(c) \/ SendFails(c) \/ Finish(c) \/ Drop(c)

EmbedNext ==
  \/ Production \/ StartEnds \/ StartGivesUp \/ EmbedRestart
  \/ Embed \/ Supervise \/ JobTimesOut \/ ReaderFaults

Worker == (WorkerReady \/ WorkerAnswers \/ WorkerRepeats \/ WorkerDies) /\ UNCHANGED imageVars

Next ==
  \/ kind = "embed" /\ EmbedNext /\ UNCHANGED imageVars
  \/ kind = "stt" /\ SttNext /\ UNCHANGED imageVars
  \/ kind = "tts" /\ TtsNext /\ UNCHANGED imageVars
  \/ kind = "image" /\ ImageNext
  \/ Worker
  \/ TimePasses /\ UNCHANGED imageVars

(* The threads run, deadlines pass, and the output of a dead worker ends.  *)
(* Nothing is assumed of a living worker.                                  *)
Supervisor ==
  \/ kind # "image" /\ (Supervise \/ JobTimesOut) /\ UNCHANGED imageVars
  \/ kind = "image" /\ ImageSupervise

Reading == child = "dead" /\ ReaderFaults /\ UNCHANGED imageVars

Restarting ==
  (StartEnds \/ StartGivesUp \/ RestartLaunches \/ RestartConfirms \/ RestartFails) /\ UNCHANGED imageVars

Calling(c) ==
  \/ Send(c) /\ UNCHANGED imageVars
  \/ kind # "image" /\ (SendFails(c) \/ Finish(c)) /\ UNCHANGED imageVars
  \/ kind = "image" /\ (ImageSendFails(c) \/ ImageFinish(c))

Fairness ==
  /\ WF_vars(Supervisor) /\ WF_vars(Reading) /\ WF_vars(Restarting)
  /\ \A c \in Calls : WF_vars(Calling(c))

Spec == Init /\ [][Next]_vars /\ Fairness

-----------------------------------------------------------------------------
(* A call that succeeds has the worker's answer to that call: an answer to *)
(* an earlier one, late or repeated, is never handed to the next caller.   *)
AnswerOwn == \A c \in Calls : answer[c].res = "ok" => answer[c].of = c

(* The engine is advertised only over a worker that named the pinned model *)
(* and runtime, also after a relaunch, when the node verifies no file.     *)
AdvertisedIsPinned == IsHealthy => child # "foreign"

(* A request id is served twice only when the second call began a whole    *)
(* window after the id of the first was put in the cache, or the cache was *)
(* filled by others: by those admitted, in the image engine by those       *)
(* served.                                                                 *)
WindowPassed(b, c) == kept[b] # Never /\ begun[c] >= kept[b] + ReplayWindow
ReplaysAreOld ==
  \A b, c \in Calls :
    (kind # "embed" /\ b # c /\ rid[b] = rid[c] /\ answer[b].res = "ok" /\ answer[c].res = "ok")
      => \/ WindowPassed(b, c) \/ WindowPassed(c, b)
         \/ Cardinality({rid[d] : d \in {e \in Calls : kept[e] # Never}} \ {rid[b]}) >= ReplayCap

(* The image engine calls a request a replay only when its id was served   *)
(* within the window or is being served: a request that failed is not      *)
(* misreported, and one that was served a window ago may come again.       *)
RefusalJustified ==
  [][\A c \in Calls :
       (kind = "image" /\ answer[c] # Replay /\ answer'[c] = Replay)
         => \E b \in Calls \ {c} : /\ rid[b] = rid[c]
                                   /\ \/ call[b] \in {"admitted", "waiting"}
                                      \/ answer[b].res = "ok" /\ clock < kept[b] + ReplayWindow]_vars

(* A worker that hangs on every request is killed for it at most           *)
(* MaxConsecutive times between two pictures, whatever crashes and         *)
(* restarts come in between, and one that is parked is not advertised.     *)
HangsParked == late <= MaxConsecutive /\ (parked => ~IsHealthy)

(* A call that the engine took comes back, whether the worker answers,     *)
(* hangs or dies, and whether the engine is restarted under it.            *)
EveryCallReturns == []<>(\A c \in Calls : call[c] # "waiting")

(* An engine whose reader has stopped listening does not stay advertised.  *)
MuteWithdrawn == reader = "closed" ~> ~IsHealthy

(* stop() returns: the supervisor ends, and the reader it waits for.       *)
StopReturns == loop \in {"joining", "failing", "aborting"} ~> loop \in {"confirm", "watch", "exited"}
=============================================================================
