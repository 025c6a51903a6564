----------------------------- MODULE SttEngine -----------------------------
(***************************************************************************)
(* The transcription engine (src/src/stt.rs): a WorkerEngine that answers  *)
(* each request id once.  An id is remembered when its call is admitted,   *)
(* before the job channel has taken it: a call turned away because the     *)
(* channel is full has used its id up.                                     *)
(***************************************************************************)
EXTENDS WorkerEngine

SttProduction == Production
SttStart == StartEnds \/ StartGivesUp

(* One of MaxRestarts relaunches, spent before the worker is stopped.      *)
SttRestart ==
  \/ RestartRefused
  \/ RestartStops /\ Charged
  \/ RestartLaunches \/ RestartConfirms \/ RestartFails

(* SeenRequestIds::insert, once the expired ids are gone: false for an id  *)
(* remembered, or else it is remembered, at the cap in the place of the    *)
(* oldest.                                                                 *)
SttRemember(s, r) == seen' = Append(Room(s), Entry(r))

SttReplayed(c) ==
  /\ Begins(c) /\ IsHealthy /\ Returns(c, Replay)
  /\ \E s \in Unexpired : Remembers(s, rid[c]) /\ seen' = s
  /\ UNCHANGED <<kind, flags, queue, sup, job, ready, worker, loop, restarts, clock, begun, kept>>

SttAdmit(c) ==
  /\ Begins(c) /\ IsHealthy
  /\ \E s \in Unexpired : ~Remembers(s, rid[c]) /\ SttRemember(s, rid[c])
  /\ begun' = [begun EXCEPT ![c] = clock] /\ kept' = [kept EXCEPT ![c] = clock]
  /\ call' = [call EXCEPT ![c] = "admitted"]
  /\ UNCHANGED <<kind, flags, queue, sup, job, ready, worker, loop, restarts, rid, answer, clock>>

Transcribe ==
  \E c \in Calls :
    \/ Unhealthy(c) \/ Refused(c) \/ SttReplayed(c) \/ SttAdmit(c)
    \/ Send(c) \/ SendFails(c) \/ Finish(c) \/ Drop(c)

(* supervise(), in the order of its parts: the process and its threads,    *)
(* the first frame, the word to the caller, the loop and what ends it.     *)
SttSpawn == Spawn
SttReader == ReaderFaults
SttAdvertise == Check \/ Advertise
SttLoop == LoopHead \/ TakeJob \/ IdleCheck \/ IdleDisconnected \/ Ending \/ Reap

(* receive_frame gives up; validate_ready; run_job, and validate_output.   *)
SttGivesUp == JobFails \/ JobTimesOut
SttReady == StartupFrame \/ StartupFails
SttWrite == WriteJob
SttResult == AwaitFrame

SttSupervise ==
  SttSpawn \/ SttReady \/ SttAdvertise \/ SttLoop \/ SttWrite \/ SttResult \/ SttGivesUp

SttNext == SttProduction \/ SttStart \/ SttRestart \/ Transcribe \/ SttSupervise \/ SttReader
=============================================================================
