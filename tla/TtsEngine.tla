----------------------------- MODULE TtsEngine -----------------------------
(***************************************************************************)
(* The speech engine (src/src/tts.rs).  It differs from the transcription  *)
(* engine in what it checks of a request, a ready frame and a result, and  *)
(* not in what it does about them.                                         *)
(***************************************************************************)
EXTENDS WorkerEngine

TtsProduction == Production
TtsStart == StartEnds \/ StartGivesUp

(* One of MaxRestarts relaunches, spent before the worker is stopped.      *)
TtsRestart ==
  \/ RestartRefused
  \/ RestartStops /\ Charged
  \/ RestartLaunches \/ RestartConfirms \/ RestartFails

(* SeenRequestIds::insert, once the expired ids are gone: false for an id  *)
(* remembered, or else it is remembered, at the cap in the place of the    *)
(* oldest.                                                                 *)
TtsRemember(s, r) == seen' = Append(Room(s), Entry(r))

TtsReplayed(c) ==
  /\ Begins(c) /\ IsHealthy /\ Returns(c, Replay)
  /\ \E s \in Unexpired : Remembers(s, rid[c]) /\ seen' = s
  /\ UNCHANGED <<kind, flags, queue, sup, job, ready, worker, loop, restarts, clock, begun, kept>>

TtsAdmit(c) ==
  /\ Begins(c) /\ IsHealthy
  /\ \E s \in Unexpired : ~Remembers(s, rid[c]) /\ TtsRemember(s, rid[c])
  /\ begun' = [begun EXCEPT ![c] = clock] /\ kept' = [kept EXCEPT ![c] = clock]
  /\ call' = [call EXCEPT ![c] = "admitted"]
  /\ UNCHANGED <<kind, flags, queue, sup, job, ready, worker, loop, restarts, rid, answer, clock>>

Speak ==
  \E c \in Calls :
    \/ Unhealthy(c) \/ Refused(c) \/ TtsReplayed(c) \/ TtsAdmit(c)
    \/ Send(c) \/ SendFails(c) \/ Finish(c) \/ Drop(c)

(* supervise(), in the order of its parts.                                 *)
TtsSpawn == Spawn
TtsReader == ReaderFaults
TtsAdvertise == Check \/ Advertise
TtsLoop == LoopHead \/ TakeJob \/ IdleCheck \/ IdleDisconnected \/ Ending \/ Reap

(* receive_frame gives up; validate_ready; run_job, and validate_output.   *)
TtsGivesUp == JobFails \/ JobTimesOut
TtsReady == StartupFrame \/ StartupFails
TtsWrite == WriteJob
TtsResult == AwaitFrame

TtsSupervise ==
  TtsSpawn \/ TtsReady \/ TtsAdvertise \/ TtsLoop \/ TtsWrite \/ TtsResult \/ TtsGivesUp

TtsNext == TtsProduction \/ TtsStart \/ TtsRestart \/ Speak \/ TtsSupervise \/ TtsReader
=============================================================================
