---------------------------- MODULE EnginesProofs ----------------------------
(***************************************************************************)
(* Proofs about Engines, and with it about WorkerEngine, SttEngine,        *)
(* TtsEngine and ImageEngine, for every value of their constants.          *)
(*                                                                         *)
(* The invariant says, beside the types, when an engine may be advertised  *)
(* (Starting, Pinned), where a call's job is (Jobs), what faults have been *)
(* counted (Faulted), which ids are claimed (Claims), and what the replay  *)
(* caches remember (Recollection).                                         *)
(***************************************************************************)
EXTENDS Engines, SequenceTheorems, FiniteSetTheorems, TLAPS

(* While a supervisor starts its worker nothing is advertised, and the one *)
(* that launched it waits for its word.                                    *)
Startup == {"spawn", "startup", "check", "advertise"}
Starting ==
  /\ sup \in Startup => ready = "pending" /\ loop \in {"starting", "confirm"}
  /\ sup \in Startup \cup {"none", "reap"} => healthy = FALSE
  /\ ready # "ok" => healthy = FALSE
  /\ loop \in {"preparing", "joining"} => healthy = FALSE
  /\ loop \in {"joining", "failing"} => stopped = TRUE
  /\ sup = "spawn" => frames = <<>> /\ child = "none"

(* Only a worker that named the pinned model is ready.                     *)
Pinned ==
  /\ healthy = TRUE \/ sup \in {"check", "advertise"} => child \in {"serving", "dead"}
  /\ \A i \in DOMAIN frames : frames[i].type = "ready" => child \in {"serving", "dead"}

(* A job is taken from callers only in normal service; until it is answered*)
(* it is in the channel or with the supervisor, and never twice.           *)
Serving == {"watch", "joining", "failing"}
Queued(c) == queue = <<c>>
Jobs ==
  /\ tx = "open" => loop = "watch"
  /\ loop \notin Serving => queue = <<>> /\ job = NoCall
  /\ job # NoCall <=> sup \in {"write", "await"}
  /\ \A c \in Calls : c = job \/ Queued(c) => answer[c] = Unanswered /\ call[c] \in {"waiting", "dropped"}
  /\ \A c \in Calls : ~(c = job /\ Queued(c))
  /\ \A c \in Calls : call[c] \in {"new", "admitted", "dropped"} => answer[c] = Unanswered

(* A timeout that was not yet acted on has stopped the service, and was not*)
(* yet counted among the consecutive ones.                                 *)
Unserved == {c \in Calls : answer[c] = Failed}
Faulted ==
  /\ kind # "image" => timedOut = FALSE /\ parked = FALSE
  /\ timedOut = TRUE => healthy = FALSE /\ loop = "watch" /\ sup \in {"loop", "ending", "reap", "none"}
  /\ parked = TRUE => stopped = TRUE /\ loop \in {"watch", "failing"} /\ timedOut = FALSE
  /\ parked = FALSE => consecutive < MaxConsecutive
  /\ late <= IF timedOut = TRUE THEN consecutive + 1 ELSE consecutive
  /\ late <= Cardinality(Unserved)

(* The image engine claims the ids of the calls it is busy with, and none  *)
(* that it remembers.                                                      *)
Live(c) == call[c] \in {"admitted", "waiting"}
Done(c) == answer[c].res = "ok"
Claims ==
  kind = "image" =>
    /\ \A r \in pending : \E c \in Calls : Live(c) /\ rid[c] = r
    /\ \A r \in pending : ~Remembers(seen, r)
    /\ \A c \in Calls : Live(c) => rid[c] \in pending
    /\ \A b, c \in Calls : Live(b) /\ Live(c) /\ rid[b] = rid[c] => b = c
    /\ \A c \in Calls : Done(c) => call[c] \in {"waiting", "returned"}

(* The ids that were admitted, in the image engine served, are remembered  *)
(* until a window has passed, or so many others were that there is no more *)
(* room.                                                                   *)
Entered == {e \in Calls : kept[e] # Never}
Others(r) == {rid[d] : d \in Entered} \ {r}
Once(c) == IF kind = "image" THEN call[c] = "returned" /\ Done(c) ELSE Live(c) \/ call[c] = "dropped" \/ Done(c)

-----------------------------------------------------------------------------
(* The steps of the four engines, as far as they have them in common: what *)
(* an engine does to its caches and its counts of faults is left open.     *)
Apart == UNCHANGED <<kind, flags, queue, sup, job, ready, worker, loop, restarts>>

Admitting(c) ==
  /\ call[c] = "new" /\ call' = [call EXCEPT ![c] = "admitted"]
  /\ Apart /\ UNCHANGED <<rid, answer>>

Rejecting(c) ==
  /\ call[c] \in {"new", "admitted"} /\ \E a \in {Failed, Replay} : Returns(c, a)
  /\ Apart

Leaving(c) ==
  /\ call[c] = "waiting"
  /\ \/ answer[c] # Unanswered /\ call' = [call EXCEPT ![c] = "returned"]
     \/ answer[c] = Unanswered /\ call' = [call EXCEPT ![c] = "dropped"]
  /\ Apart /\ UNCHANGED <<rid, answer>>

Serves == \E c \in Calls : Admitting(c) \/ Rejecting(c) \/ Send(c) \/ Leaving(c)

Stopping ==
  /\ loop = "watch" /\ Stop /\ loop' \in {"joining", "failing"} /\ (restarts' = restarts \/ Charged)
  /\ UNCHANGED <<kind, queue, sup, job, ready, worker, callers>>

Restarts == Stopping \/ RestartLaunches \/ RestartConfirms \/ RestartFails
Starts == Production \/ StartEnds \/ StartGivesUp
Emits == WorkerReady \/ WorkerAnswers \/ WorkerRepeats \/ WorkerDies

(* Time passes, or nothing happens.                                        *)
Idle == Apart /\ UNCHANGED <<call, rid, answer>>

Step == Starts \/ Restarts \/ Serves \/ Supervise \/ JobTimesOut \/ ReaderFaults \/ Emits \/ Idle

LEMMA CallSteps ==
  ASSUME NEW c \in Calls
  PROVE  /\ Unhealthy(c) \/ Refused(c) \/ SttReplayed(c) \/ TtsReplayed(c) \/ ImageReplayed(c) => Rejecting(c)
         /\ SendFails(c) \/ ImageSendFails(c) => Rejecting(c)
         /\ Admit(c) \/ SttAdmit(c) \/ TtsAdmit(c) \/ ImageAdmit(c) => Admitting(c)
         /\ Finish(c) \/ Drop(c) \/ ImageFinish(c) \/ ImageDrop(c) => Leaving(c)
<1>1. Unhealthy(c) \/ Refused(c) \/ SttReplayed(c) \/ TtsReplayed(c) \/ ImageReplayed(c) => Rejecting(c)
  BY DEF Unhealthy, Refused, SttReplayed, TtsReplayed, ImageReplayed, Begins, Rejecting, Apart
<1>2. SendFails(c) \/ ImageSendFails(c) => Rejecting(c)
  BY DEF SendFails, ImageSendFails, Rejecting, Apart
<1>3. Admit(c) \/ SttAdmit(c) \/ TtsAdmit(c) \/ ImageAdmit(c) => Admitting(c)
  BY DEF Admit, SttAdmit, TtsAdmit, ImageAdmit, Begins, Admitting, Apart
<1>4. Finish(c) \/ Drop(c) \/ ImageFinish(c) \/ ImageDrop(c) => Leaving(c)
  BY DEF Finish, Drop, ImageFinish, ImageDrop, Leaving, Apart
<1> QED
  BY <1>1, <1>2, <1>3, <1>4

LEMMA Steps == [Next]_vars => Step
<1>1. RestartRefused \/ UNCHANGED wvars => Idle
  BY DEF RestartRefused, wvars, callers, Idle, Apart
<1>2. RestartStops /\ Charged => Stopping
  BY DEF RestartStops, Stopping
<1>3. EmbedNext => Step
  BY <1>1, <1>2, CallSteps DEF EmbedNext, EmbedRestart, Embed, Step, Starts, Restarts, Serves
<1>4. SttNext => Step
  <2>1. SttProduction \/ SttStart => Starts
    BY DEF SttProduction, SttStart, Starts
  <2>2. SttRestart => Restarts \/ Idle
    BY <1>1, <1>2 DEF SttRestart, Restarts
  <2>3. Transcribe => Serves
    BY CallSteps DEF Transcribe, Serves
  <2>4. SttSupervise => Supervise \/ JobTimesOut
    BY DEF SttSupervise, SttSpawn, SttReady, SttAdvertise, SttLoop, SttWrite, SttResult, SttGivesUp, Supervise
  <2> QED
    BY <2>1, <2>2, <2>3, <2>4 DEF SttNext, SttReader, Step
<1>5. TtsNext => Step
  <2>1. TtsProduction \/ TtsStart => Starts
    BY DEF TtsProduction, TtsStart, Starts
  <2>2. TtsRestart => Restarts \/ Idle
    BY <1>1, <1>2 DEF TtsRestart, Restarts
  <2>3. Speak => Serves
    BY CallSteps DEF Speak, Serves
  <2>4. TtsSupervise => Supervise \/ JobTimesOut
    BY DEF TtsSupervise, TtsSpawn, TtsReady, TtsAdvertise, TtsLoop, TtsWrite, TtsResult, TtsGivesUp, Supervise
  <2> QED
    BY <2>1, <2>2, <2>3, <2>4 DEF TtsNext, TtsReader, Step
<1>6. ImageNext => Step
  <2>1. ImageProduction \/ ImageStart => Starts
    BY DEF ImageProduction, ImageStart, Starts
  <2>2. ImageRestart => Restarts \/ Idle
    BY <1>1 DEF ImageRestart, Park, AfterTimeout, AfterCrash, RestartStops, Restarts, Stopping
  <2>3. Generate \/ Dispatch => Serves
    BY CallSteps DEF Generate, Dispatch, Serves
  <2>4. ImageSupervise => Supervise \/ JobTimesOut
    BY DEF ImageSupervise, ImageSpawn, ImageReady, ImageAdvertise, ImageLoop, ImageWrite, ImageReply,
           ImageGivesUp, ImageTimesOut, Supervise
  <2> QED
    BY <2>1, <2>2, <2>3, <2>4 DEF ImageNext, ImageReader, Step
<1>7. Worker => Step
  BY DEF Worker, Step, Emits
<1>8. UNCHANGED vars => Step
  BY DEF vars, wvars, callers, Step, Idle, Apart
<1>9. TimePasses => Step
  BY DEF TimePasses, Step, Idle, Apart
<1> QED
  BY <1>3, <1>4, <1>5, <1>6, <1>7, <1>8, <1>9 DEF Next

-----------------------------------------------------------------------------
(* Types.                                                                  *)
Threads ==
  /\ kind \in Kinds /\ tx \in {"open", "held", "none"}
  /\ sup \in SupPC /\ ready \in {"pending", "ok", "err"} /\ reader \in {"reading", "closed"}
  /\ child \in {"none", "loading", "serving", "foreign", "dead"} /\ loop \in LoopPC
Toggles == healthy \in BOOLEAN /\ stopped \in BOOLEAN
Frames == frames \in Seq(FrameSet) /\ Len(frames) <= FrameCap
InHand ==
  /\ queue = <<>> \/ \E c \in Calls : Queued(c)
  /\ job \in Calls \cup {NoCall} /\ (sup \in {"write", "await"} => job \in Calls)
Called == call \in [Calls -> CallPC] /\ rid \in [Calls -> RequestIds] /\ answer \in [Calls -> Answers]
Memory ==
  /\ seen \in Seq(Entries) /\ Len(seen) <= ReplayCap /\ clock \in 0 .. MaxClock
  /\ begun \in [Calls -> Never .. MaxClock] /\ kept \in [Calls -> Never .. MaxClock]

LEMMA WorkerTypes ==
  WorkerTypeOK <=> Threads /\ Toggles /\ Frames /\ InHand /\ Called /\ Memory /\ restarts \in 0 .. MaxRestarts
<1>1. queue \in Seq(Calls) /\ Len(queue) <= 1 <=> queue = <<>> \/ \E c \in Calls : Queued(c)
  <2>1. ASSUME queue \in Seq(Calls), Len(queue) <= 1, queue # <<>> PROVE \E c \in Calls : queue = <<c>>
    <3>1. Len(queue) = 1
      <4>1. Len(queue) \in Nat /\ Len(queue) # 0
        BY <2>1, EmptySeq, LenProperties
      <4> QED
        BY <2>1, <4>1
    <3>2. queue[1] \in Calls
      BY <2>1, <3>1, ElementOfSeq
    <3>3. queue = <<queue[1]>>
      BY <2>1, <3>1
    <3> QED
      BY <3>2, <3>3
  <2>2. ASSUME NEW c \in Calls, queue = <<c>> PROVE queue \in Seq(Calls) /\ Len(queue) <= 1
    BY <2>2
  <2>3. queue = <<>> => queue \in Seq(Calls) /\ Len(queue) <= 1
    OBVIOUS
  <2> QED
    BY <2>1, <2>2, <2>3 DEF Queued
<1> QED
  BY <1>1 DEF WorkerTypeOK, Threads, Toggles, Frames, InHand, Called, Memory

LEMMA ThreadStep == ASSUME Threads, Step PROVE Threads'
<1>1. CASE Starts \/ Restarts
  BY <1>1 DEF Threads, SupPC, LoopPC, Starts, Production, StartEnds, StartGivesUp, Launch, worker, flags,
              Restarts, Stopping, Stop, RestartLaunches, RestartConfirms, RestartFails
<1>2. CASE Serves
  BY <1>2 DEF Threads, Serves, Admitting, Rejecting, Leaving, Send, Apart, flags, worker
<1>3. CASE Supervise \/ JobTimesOut
  <2>1. kind' = kind /\ tx' = tx /\ loop' = loop /\ sup' \in SupPC
    BY <1>3 DEF SupPC, Supervise, JobTimesOut, JobFails, Fatal, Spawn, StartupFrame, StartupFails, NotReady, Check,
                Advertise, LoopHead, TakeJob, IdleCheck, IdleDisconnected, WriteJob, AwaitFrame, Ending, Reap, Reply, SupGoes
  <2>2. ready' \in {ready, "ok", "err"} /\ reader' = reader /\ child' \in {child, "loading", "dead", "none"}
    BY <1>3 DEF Supervise, JobTimesOut, JobFails, Fatal, Spawn, StartupFrame, StartupFails, NotReady, Check,
                Advertise, LoopHead, TakeJob, IdleCheck, IdleDisconnected, WriteJob, AwaitFrame, Ending, Reap, Reply, worker
  <2> QED
    BY <2>1, <2>2 DEF Threads
<1>4. CASE ReaderFaults \/ Emits
  BY <1>4 DEF Threads, ReaderFaults, Emits, WorkerReady, WorkerAnswers, WorkerRepeats, WorkerDies, Emit, Delivered,
              flags
<1>5. CASE Idle
  BY <1>5 DEF Threads, Idle, Apart, flags, worker
<1> QED
  BY <1>1, <1>2, <1>3, <1>4, <1>5 DEF Step

LEMMA ToggleStep == ASSUME Toggles, Step PROVE Toggles'
<1>1. CASE Starts \/ Restarts
  BY <1>1, Zenon DEF Toggles, Starts, Production, StartEnds, StartGivesUp, Launch, flags,
              Restarts, Stopping, Stop, RestartLaunches, RestartConfirms, RestartFails
<1>2. CASE Serves
  BY <1>2, Zenon DEF Toggles, Serves, Admitting, Rejecting, Leaving, Send, Apart, flags
<1>3. CASE Supervise \/ JobTimesOut
  <2>1. CASE Spawn \/ StartupFrame \/ StartupFails \/ Check \/ Advertise
    BY <2>1, Zenon DEF Toggles, Spawn, StartupFrame, StartupFails, NotReady, Check, Advertise
  <2>2. CASE LoopHead \/ TakeJob \/ IdleCheck \/ IdleDisconnected \/ WriteJob \/ Ending \/ Reap
    BY <2>2, Zenon DEF Toggles, LoopHead, TakeJob, IdleCheck, IdleDisconnected, WriteJob, Ending, Reap
  <2>3. CASE AwaitFrame \/ JobFails \/ JobTimesOut
    BY <2>3, Zenon DEF Toggles, AwaitFrame, JobFails, JobTimesOut, Fatal
  <2> QED
    BY <1>3, <2>1, <2>2, <2>3, Zenon DEF Supervise
<1>4. CASE ReaderFaults \/ Emits
  BY <1>4, Zenon DEF Toggles, ReaderFaults, Emits, WorkerReady, WorkerAnswers, WorkerRepeats, WorkerDies, Emit, Delivered, flags
<1>5. CASE Idle
  BY <1>5, Zenon DEF Toggles, Idle, Apart, flags
<1> QED
  BY <1>1, <1>2, <1>3, <1>4, <1>5 DEF Step

(* The frames that were read and not yet taken.                            *)
LEMMA FrameTail == Frames /\ frames # <<>> /\ frames' = Tail(frames) => Frames' /\ Head(frames) \in FrameSet
<1> SUFFICES ASSUME Frames, frames # <<>>, frames' = Tail(frames) PROVE Frames' /\ Head(frames) \in FrameSet
  OBVIOUS
<1>1. /\ frames \in Seq(FrameSet) /\ Head(frames) \in FrameSet /\ Tail(frames) \in Seq(FrameSet)
      /\ Len(Tail(frames)) = Len(frames) - 1 /\ Len(frames) \in Nat
  BY HeadTailProperties, LenProperties DEF Frames
<1>2. Len(Tail(frames)) <= FrameCap
  BY <1>1, WorkerAssumption DEF Frames
<1> QED
  BY <1>1, <1>2 DEF Frames

LEMMA FrameEmpty == frames' = <<>> => Frames'
BY WorkerAssumption DEF Frames

LEMMA FrameMore ==
  ASSUME Frames, NEW f \in FrameSet, Emit(f)
  PROVE  Frames' /\ (frames' = frames \/ frames' = Append(frames, f))
<1>1. Append(frames, f) \in Seq(FrameSet) /\ Len(Append(frames, f)) = Len(frames) + 1 /\ Len(frames) \in Nat
  BY AppendProperties, LenProperties DEF Frames
<1>2. CASE Len(frames) < FrameCap /\ frames' = Append(frames, f)
  <2>1. Len(Append(frames, f)) <= FrameCap
    BY <1>1, <1>2, WorkerAssumption
  <2> QED
    BY <1>1, <1>2, <2>1 DEF Frames
<1>3. CASE frames' = frames
  BY <1>3 DEF Frames
<1> QED
  BY <1>2, <1>3 DEF Emit, Delivered

LEMMA FrameStep == ASSUME Frames, InHand, Step PROVE Frames'
<1>1. ASSUME frames' = frames PROVE Frames'
  BY <1>1 DEF Frames
<1>2. CASE Starts \/ Restarts
  <2>1. frames' \in {frames, <<>>}
    BY <1>2 DEF Starts, Production, StartEnds, StartGivesUp, Launch, worker,
                Restarts, Stopping, RestartLaunches, RestartConfirms, RestartFails
  <2> QED
    BY <1>1, <2>1, FrameEmpty
<1>3. CASE Serves \/ Idle \/ ReaderFaults
  BY <1>1, <1>3 DEF Serves, Admitting, Rejecting, Leaving, Send, Apart, Idle, Apart, worker, ReaderFaults
<1>4. CASE Supervise \/ JobTimesOut
  <2>1. frames' = frames \/ frames' = <<>> \/ (frames # <<>> /\ frames' = Tail(frames))
    BY <1>4 DEF Supervise, JobTimesOut, JobFails, Fatal, Spawn, StartupFrame, StartupFails, NotReady, Check,
                Advertise, LoopHead, TakeJob, IdleCheck, IdleDisconnected, WriteJob, AwaitFrame, Ending, Reap, worker
  <2> QED
    BY <1>1, <2>1, FrameEmpty, FrameTail
<1>5. CASE Emits
  <2>1. \A t \in {"ready", "alien", "result", "error", "other"}, c \in Calls \cup {NoCall} :
           [type |-> t, of |-> c] \in FrameSet
    BY DEF FrameSet
  <2>2. frames' = frames \/ \E f \in FrameSet : Emit(f)
    <3>1. CASE WorkerReady
      BY <2>1, <3>1 DEF WorkerReady
    <3>2. CASE WorkerAnswers
      BY <2>1, <3>2 DEF WorkerAnswers, InHand
    <3>3. CASE WorkerRepeats
      BY <2>1, <3>3 DEF WorkerRepeats
    <3>4. CASE WorkerDies
      BY <3>4 DEF WorkerDies
    <3> QED
      BY <1>5, <3>1, <3>2, <3>3, <3>4 DEF Emits
  <2> QED
    BY <1>1, <2>2, FrameMore
<1> QED
  BY <1>2, <1>3, <1>4, <1>5 DEF Step

-----------------------------------------------------------------------------
(* The calls and the job in hand.                                          *)
LEMMA AnswerTypes == Failed \in Answers /\ Replay \in Answers /\ Unanswered \in Answers
                     /\ \A c \in Calls : [res |-> "ok", of |-> c] \in Answers
BY DEF Failed, Replay, Unanswered, Answers

(* What one step does to the calls.                                        *)
LEMMA CallStep ==
  ASSUME Called, Step
  PROVE  /\ rid' = rid /\ call' \in [Calls -> CallPC]
         /\ (\E c \in Calls : Admitting(c) \/ Rejecting(c) \/ Send(c) \/ Leaving(c)) \/ call' = call
<1>1. CASE Serves
  BY <1>1 DEF Called, CallPC, Serves, Admitting, Rejecting, Leaving, Send, Returns
<1>2. CASE ~Serves
  <2>1. UNCHANGED <<call, rid>>
    BY <1>2 DEF Step, Starts, Production, StartEnds, StartGivesUp, callers, Idle, Apart,
                Restarts, Stopping, RestartLaunches, RestartConfirms, RestartFails,
                Supervise, JobTimesOut, JobFails, Fatal, Spawn, StartupFrame, StartupFails, NotReady, Check,
                Advertise, LoopHead, TakeJob, IdleCheck, IdleDisconnected, WriteJob, AwaitFrame, Ending, Reap, Reply, SupGoes,
                ReaderFaults, Emits, WorkerReady, WorkerAnswers, WorkerRepeats, WorkerDies, Emit
  <2> QED
    BY <2>1 DEF Called
<1> QED
  BY <1>1, <1>2

(* An answer is given to the job in hand, to a job that is lost with the   *)
(* channel, or to a call that was not sent.                                *)
Answering(a) ==
  /\ sup \in {"write", "await"}
  /\ answer' = IF call[job] = "dropped" THEN answer ELSE [answer EXCEPT ![job] = a]
  /\ job' = NoCall /\ sup' = "loop" /\ queue' = queue /\ loop' = loop

LEMMA AnswerStep ==
  ASSUME InHand, Step
  PROVE  \/ answer' = answer
         \/ \E c \in Calls : Rejecting(c)
         \/ Reap
         \/ \E a \in {Failed, [res |-> "ok", of |-> job]} : Answering(a)
<1>1. CASE Serves
  BY <1>1 DEF Serves, Admitting, Leaving, Send
<1>2. CASE AwaitFrame \/ JobFails \/ JobTimesOut
  BY <1>2 DEF AwaitFrame, JobFails, JobTimesOut, Fatal, Matches, Reply, SupGoes, Answering
<1>3. CASE Supervise /\ ~(AwaitFrame \/ JobFails \/ Reap)
  BY <1>3 DEF Supervise, Spawn, StartupFrame, StartupFails, NotReady, Check, Advertise, LoopHead, TakeJob,
              IdleCheck, IdleDisconnected, WriteJob, Ending
<1>4. CASE Starts \/ Restarts \/ ReaderFaults \/ Emits \/ Idle
  BY <1>4 DEF Starts, Production, StartEnds, StartGivesUp, callers, Idle, Apart,
              Restarts, Stopping, RestartLaunches, RestartConfirms, RestartFails,
              ReaderFaults, Emits, WorkerReady, WorkerAnswers, WorkerRepeats, WorkerDies, Emit
<1> QED
  BY <1>1, <1>2, <1>3, <1>4 DEF Step

LEMMA CalledStep == ASSUME Called, InHand, Step PROVE Called'
<1>1. rid' = rid /\ call' \in [Calls -> CallPC]
  BY CallStep
<1>2. answer' \in [Calls -> Answers]
  <2>1. CASE answer' = answer
    BY <2>1 DEF Called
  <2>2. CASE \E c \in Calls : Rejecting(c)
    BY <2>2, AnswerTypes DEF Rejecting, Returns, Called
  <2>3. CASE Reap
    BY <2>3, AnswerTypes DEF Reap, DropQueue, Called
  <2>4. CASE \E a \in {Failed, [res |-> "ok", of |-> job]} : Answering(a)
    BY <2>4, AnswerTypes DEF Answering, Called, InHand
  <2> QED
    BY <2>1, <2>2, <2>3, <2>4, AnswerStep
<1> QED
  BY <1>1, <1>2 DEF Called

LEMMA InHandStep == ASSUME InHand, Step PROVE InHand'
<1>1. ASSUME UNCHANGED <<queue, job>>, sup' = sup PROVE InHand'
  BY <1>1 DEF InHand, Queued
<1>2. ASSUME UNCHANGED <<queue, job>>, sup' \notin {"write", "await"} PROVE InHand'
  BY <1>2 DEF InHand, Queued
<1>3. CASE Starts \/ Restarts
  BY <1>1, <1>3 DEF InHand, Starts, Production, Launch, StartEnds, StartGivesUp,
              Restarts, Stopping, RestartLaunches, RestartConfirms, RestartFails
<1>4. CASE Serves
  BY <1>1, <1>4 DEF Serves, Admitting, Rejecting, Leaving, Send, Apart, InHand, Queued
<1>5. CASE Supervise \/ JobTimesOut
  <2>1. CASE Spawn \/ StartupFrame \/ StartupFails \/ Check \/ Advertise \/ LoopHead \/ IdleCheck \/ IdleDisconnected \/ Ending
    BY <1>2, <2>1 DEF Spawn, StartupFrame, StartupFails, NotReady, Check, Advertise, LoopHead, IdleCheck,
                      IdleDisconnected, Ending, SupGoes
  <2>2. CASE TakeJob
    <3>1. PICK c \in Calls : queue = <<c>>
      BY <2>2 DEF TakeJob, InHand, Queued
    <3>2. Head(queue) = c
      BY <3>1
    <3> QED
      BY <2>2, <3>2 DEF TakeJob, SupGoes, InHand
  <2>3. CASE WriteJob
    BY <2>3 DEF WriteJob, SupGoes, InHand, Queued
  <2>4. CASE Reap
    BY <2>4 DEF Reap, SupGoes, InHand
  <2>5. CASE AwaitFrame \/ JobFails \/ JobTimesOut
    <3>1. queue' = queue /\ job' = NoCall /\ sup' = "loop"
      BY <2>5 DEF AwaitFrame, JobFails, JobTimesOut, Fatal, Reply, SupGoes
    <3> QED
      BY <3>1 DEF InHand, Queued
  <2> QED
    BY <1>5, <2>1, <2>2, <2>3, <2>4, <2>5 DEF Supervise
<1>6. CASE ReaderFaults \/ Emits \/ Idle
  BY <1>1, <1>6 DEF ReaderFaults, Emits, WorkerReady, WorkerAnswers, WorkerRepeats, WorkerDies, Emit, Idle, Apart
<1> QED
  BY <1>3, <1>4, <1>5, <1>6 DEF Step

LEMMA RestartCount == restarts \in 0 .. MaxRestarts /\ Step => restarts' \in 0 .. MaxRestarts
<1>1. restarts' = restarts \/ Charged \/ ~Step
  BY DEF Step, Starts, Production, StartEnds, StartGivesUp, Idle, Apart,
         Restarts, Stopping, RestartLaunches, RestartConfirms, RestartFails,
         Serves, Admitting, Rejecting, Leaving, Send, Apart,
         Supervise, JobTimesOut, JobFails, Fatal, Spawn, StartupFrame, StartupFails, NotReady, Check,
         Advertise, LoopHead, TakeJob, IdleCheck, IdleDisconnected, WriteJob, AwaitFrame, Ending, Reap, Reply, SupGoes,
         ReaderFaults, Emits, WorkerReady, WorkerAnswers, WorkerRepeats, WorkerDies, Emit
<1> QED
  BY <1>1, WorkerAssumption DEF Charged

-----------------------------------------------------------------------------
(* When the engine may be advertised.                                      *)
LEMMA StartingStep == ASSUME Toggles, Starting, Step PROVE Starting'
<1>1. CASE Starts
  BY <1>1 DEF Starting, Startup, Toggles, Starts, Production, StartEnds, StartGivesUp, Launch, worker, flags
<1>2. CASE Restarts
  BY <1>2 DEF Starting, Startup, Toggles, Restarts, Stopping, Stop, RestartLaunches, RestartConfirms, RestartFails,
              Launch, worker, flags
<1>3. CASE Serves
  BY <1>3 DEF Starting, Startup, Serves, Admitting, Rejecting, Leaving, Send, Apart, flags, worker
<1>4. CASE Supervise \/ JobTimesOut
  <2>1. CASE Spawn \/ StartupFrame \/ StartupFails \/ Check \/ Advertise
    BY <2>1 DEF Starting, Startup, Toggles, Spawn, StartupFrame, StartupFails, NotReady, Check, Advertise, SupGoes, worker
  <2>2. CASE LoopHead \/ TakeJob \/ IdleCheck \/ IdleDisconnected \/ WriteJob \/ Ending \/ Reap
    BY <2>2 DEF Starting, Startup, Toggles, LoopHead, TakeJob, IdleCheck, IdleDisconnected, WriteJob, Ending, Reap,
                SupGoes, worker
  <2>3. CASE AwaitFrame \/ JobFails \/ JobTimesOut
    BY <2>3 DEF Starting, Startup, AwaitFrame, JobFails, JobTimesOut, Fatal, Reply, SupGoes, worker
  <2> QED
    BY <1>4, <2>1, <2>2, <2>3 DEF Supervise
<1>5. CASE ReaderFaults \/ Emits
  BY <1>5 DEF Starting, Startup, ReaderFaults, Emits, WorkerReady, WorkerAnswers, WorkerRepeats, WorkerDies,
              Emit, Delivered, flags, worker
<1>6. CASE Idle
  BY <1>6 DEF Starting, Startup, Idle, Apart, flags, worker
<1> QED
  BY <1>1, <1>2, <1>3, <1>4, <1>5, <1>6 DEF Step

(* A worker's frames, when one of them is taken or one more is read.       *)
Ripe == \E i \in DOMAIN frames : frames[i].type = "ready"
LEMMA RipeTail ==
  ASSUME Frames, frames # <<>>, frames' = Tail(frames)
  PROVE  (Ripe' => Ripe) /\ (Head(frames).type = "ready" => Ripe)
<1>1. /\ frames \in Seq(FrameSet) /\ Len(frames) \in Nat /\ Len(frames) # 0 /\ Head(frames) = frames[1]
      /\ Tail(frames) \in Seq(FrameSet) /\ Len(Tail(frames)) = Len(frames) - 1
      /\ \A i \in 1 .. Len(Tail(frames)) : Tail(frames)[i] = frames[i + 1]
  BY HeadTailProperties, LenProperties, EmptySeq DEF Frames
<1>2. DOMAIN frames = 1 .. Len(frames) /\ DOMAIN frames' = 1 .. Len(frames) - 1
  BY <1>1, LenProperties
<1>3. ASSUME NEW i \in DOMAIN frames' PROVE i + 1 \in DOMAIN frames /\ frames'[i] = frames[i + 1]
  BY <1>1, <1>2
<1>4. 1 \in DOMAIN frames
  BY <1>1, <1>2
<1> QED
  BY <1>1, <1>3, <1>4 DEF Ripe

LEMMA RipeMore ==
  ASSUME Frames, NEW f \in FrameSet, frames' = Append(frames, f)
  PROVE  Ripe' => Ripe \/ f.type = "ready"
<1>1. /\ Len(frames) \in Nat /\ Len(frames') = Len(frames) + 1 /\ frames' \in Seq(FrameSet) /\ frames \in Seq(FrameSet)
      /\ \A i \in 1 .. Len(frames) : frames'[i] = frames[i]
      /\ frames'[Len(frames) + 1] = f
  BY AppendProperties, LenProperties DEF Frames
<1>2. DOMAIN frames = 1 .. Len(frames) /\ DOMAIN frames' = 1 .. Len(frames) + 1
  BY <1>1, LenProperties
<1>3. \A i \in DOMAIN frames' : i \in DOMAIN frames \/ i = Len(frames) + 1
  BY <1>1, <1>2
<1> QED
  BY <1>1, <1>2, <1>3 DEF Ripe

LEMMA PinnedStep == ASSUME Toggles, Frames, InHand, Starting, Pinned, Step PROVE Pinned'
<1>1. Pinned <=> (healthy = TRUE \/ sup \in {"check", "advertise"} \/ Ripe => child \in {"serving", "dead"})
  BY DEF Pinned, Ripe
<1>2. SUFFICES ASSUME healthy' = TRUE \/ sup' \in {"check", "advertise"} \/ Ripe'
               PROVE  child' \in {"serving", "dead"}
  BY DEF Pinned, Ripe
<1>3. frames' = frames => (Ripe' <=> Ripe)
  BY DEF Ripe
<1>4. frames' = <<>> => ~Ripe'
  BY DEF Ripe
<1>5. CASE Starts \/ Restarts
  <2>1. CASE (Production /\ loop' # "exited") \/ RestartLaunches
    <3>1. sup' = "spawn" /\ frames' = <<>> /\ healthy' = FALSE
      BY <2>1 DEF Production, RestartLaunches, Launch, Starting
    <3> QED
      BY <1>2, <1>4, <3>1
  <2>2. CASE Production /\ loop' = "exited"
    BY <1>1, <1>2, <1>3, <2>2 DEF Production, worker
  <2>3. CASE StartEnds \/ StartGivesUp \/ Stopping \/ RestartConfirms \/ RestartFails
    BY <1>1, <1>2, <1>3, <2>3 DEF StartEnds, StartGivesUp, Stopping, Stop, RestartConfirms, RestartFails, worker, flags
  <2> QED
    BY <1>5, <2>1, <2>2, <2>3 DEF Starts, Restarts
<1>6. CASE Serves
  BY <1>1, <1>2, <1>3, <1>6 DEF Serves, Admitting, Rejecting, Leaving, Send, Apart, flags, worker
<1>7. CASE Supervise \/ JobTimesOut
  <2>1. CASE Spawn
    <3>1. sup' \in {"startup", "none"} /\ healthy' = FALSE /\ frames' = <<>>
      BY <2>1 DEF Spawn, SupGoes, Starting, Startup
    <3> QED
      BY <1>2, <1>4, <3>1
  <2>2. CASE StartupFrame
    <3>1. frames # <<>> /\ frames' = Tail(frames) /\ Head(frames).type = "ready" /\ child' = child
      BY <2>2 DEF StartupFrame, ReadyFits
    <3> QED
      BY <1>1, <3>1, RipeTail
  <2>3. CASE StartupFails \/ Check \/ Advertise \/ LoopHead \/ TakeJob \/ IdleDisconnected \/ WriteJob \/ JobFails \/ JobTimesOut
    BY <1>1, <1>2, <1>3, <2>3 DEF StartupFails, NotReady, Check, Advertise, LoopHead, TakeJob, IdleDisconnected, WriteJob,
          JobFails, JobTimesOut, Fatal, Reply, SupGoes, worker
  <2>4. CASE IdleCheck
    <3>1. child' = child /\ sup' = "loop" /\ (healthy' = TRUE => healthy = TRUE)
      BY <2>4 DEF IdleCheck, SupGoes, Toggles
    <3>2. frames' = frames \/ (frames # <<>> /\ frames' = Tail(frames))
      BY <2>4 DEF IdleCheck
    <3> QED
      BY <1>1, <1>2, <1>3, <3>1, <3>2, RipeTail
  <2>5. CASE AwaitFrame
    <3>1. child' = child /\ sup' = "loop" /\ (healthy' = TRUE => healthy = TRUE)
      BY <2>5 DEF AwaitFrame, Reply, SupGoes
    <3>2. frames # <<>> /\ frames' = Tail(frames)
      BY <2>5 DEF AwaitFrame
    <3> QED
      BY <1>1, <1>2, <3>1, <3>2, RipeTail
  <2>6. CASE Ending
    BY <2>6 DEF Ending
  <2>7. CASE Reap
    <3>1. sup' = "none" /\ healthy' = FALSE /\ frames' = <<>>
      BY <2>7 DEF Reap, SupGoes, Starting, Startup
    <3> QED
      BY <1>2, <1>4, <3>1
  <2> QED
    BY <1>7, <2>1, <2>2, <2>3, <2>4, <2>5, <2>6, <2>7 DEF Supervise
<1>8. CASE ReaderFaults \/ Idle
  BY <1>1, <1>2, <1>3, <1>8 DEF ReaderFaults, Idle, Apart, flags, worker
<1>9. CASE Emits
  <2>1. \A t \in {"ready", "alien", "result", "error", "other"}, c \in Calls \cup {NoCall} :
           [type |-> t, of |-> c] \in FrameSet /\ [type |-> t, of |-> c].type = t
    BY DEF FrameSet
  <2>2. ASSUME NEW f \in FrameSet, Emit(f), f.type # "ready"
        PROVE  (Ripe' => Ripe) /\ (healthy' = TRUE => healthy = TRUE) /\ sup' = sup
    <3>1. Ripe' => Ripe
      BY <1>3, <2>2, FrameMore, RipeMore
    <3> QED
      BY <2>2, <3>1 DEF Emit, Delivered
  <2>3. CASE WorkerReady
    <3>1. CASE child' = "serving"
      BY <3>1
    <3>2. CASE child' = "foreign" /\ Emit([type |-> "alien", of |-> NoCall])
      <4>1. [type |-> "alien", of |-> NoCall] \in FrameSet /\ [type |-> "alien", of |-> NoCall].type # "ready"
        BY <2>1
      <4>2. healthy' = TRUE \/ sup' \in {"check", "advertise"} \/ Ripe' => child \in {"serving", "dead"}
        BY <1>1, <2>2, <3>2, <4>1
      <4> QED
        BY <1>2, <2>3, <4>2 DEF WorkerReady
    <3> QED
      BY <2>3, <3>1, <3>2 DEF WorkerReady
  <2>4. CASE WorkerAnswers \/ WorkerRepeats \/ WorkerDies
    BY <2>4 DEF WorkerAnswers, WorkerRepeats, WorkerDies
  <2> QED
    BY <1>9, <2>3, <2>4 DEF Emits
<1> QED
  BY <1>5, <1>6, <1>7, <1>8, <1>9 DEF Step

-----------------------------------------------------------------------------
(* Where the job of a call is.                                             *)
LEMMA JobsStep == ASSUME Called, InHand, Starting, Jobs, Step PROVE Jobs'
<1> DEFINE Owned == \A c \in Calls : c = job \/ Queued(c) => answer[c] = Unanswered /\ call[c] \in {"waiting", "dropped"}
           Fresh == \A c \in Calls : call[c] \in {"new", "admitted", "dropped"} => answer[c] = Unanswered
           Apartly == \A c \in Calls : ~(c = job /\ Queued(c))
           Places == /\ tx = "open" => loop = "watch"
                     /\ loop \notin Serving => queue = <<>> /\ job = NoCall
                     /\ job # NoCall <=> sup \in {"write", "await"}
<1>1. Jobs <=> Places /\ Owned /\ Fresh /\ Apartly
  BY Zenon DEF Jobs
<1>2. Places' /\ Owned' /\ Fresh' /\ Apartly' => Jobs'
  BY Zenon DEF Jobs
<1>3. ASSUME UNCHANGED <<queue, job, call, answer>> PROVE Owned' /\ Fresh' /\ Apartly'
  BY <1>1, <1>3 DEF Queued
<1>4. ASSUME queue' = <<>>, job' \in {job, NoCall}, UNCHANGED <<call, answer>> PROVE Owned' /\ Fresh' /\ Apartly'
  BY <1>1, <1>4 DEF Queued, NoCall, Calls
<1>5. CASE Starts
  <2>1. Places'
    BY <1>1, <1>5 DEF Serving, Starts, Production, Launch, StartEnds, StartGivesUp, NoCall, flags
  <2>2. UNCHANGED <<call, answer>> /\ (UNCHANGED <<queue, job>> \/ (queue' = <<>> /\ job' = NoCall))
    BY <1>5 DEF Starts, Production, Launch, StartEnds, StartGivesUp, callers
  <2> QED
    BY <1>2, <1>3, <1>4, <2>1, <2>2
<1>6. CASE Restarts
  <2>1. Places'
    BY <1>1, <1>6 DEF Serving, Restarts, Stopping, Stop, RestartLaunches, RestartConfirms, RestartFails, Launch, NoCall, flags
  <2>2. UNCHANGED <<call, answer>> /\ (UNCHANGED <<queue, job>> \/ (queue' = <<>> /\ job' = NoCall))
    BY <1>6 DEF Restarts, Stopping, RestartLaunches, RestartConfirms, RestartFails, Launch, callers
  <2> QED
    BY <1>2, <1>3, <1>4, <2>1, <2>2
<1>7. CASE Serves
  <2>1. PICK c \in Calls : Admitting(c) \/ Rejecting(c) \/ Send(c) \/ Leaving(c)
    BY <1>7 DEF Serves
  <2>2. call \in [Calls -> CallPC] /\ answer \in [Calls -> Answers]
    BY DEF Called
  <2>3. CASE Admitting(c)
    <3>1. UNCHANGED <<queue, job, answer>> /\ Places'
      BY <1>1, <2>3 DEF Admitting, Apart, flags
    <3>2. call[c] = "new" /\ call'[c] = "admitted" /\ \A b \in Calls \ {c} : call'[b] = call[b]
      BY <2>2, <2>3 DEF Admitting
    <3>3. Owned' /\ Fresh' /\ Apartly'
      BY <1>1, <3>1, <3>2 DEF Queued
    <3> QED
      BY <1>2, <3>1, <3>3
  <2>4. CASE Rejecting(c)
    <3>1. UNCHANGED <<queue, job>> /\ Places'
      BY <1>1, <2>4 DEF Rejecting, Apart, flags
    <3>2. /\ call[c] \in {"new", "admitted"} /\ call'[c] = "returned"
          /\ \A b \in Calls \ {c} : call'[b] = call[b] /\ answer'[b] = answer[b]
      BY <2>2, <2>4 DEF Rejecting, Returns
    <3>3. Owned' /\ Fresh' /\ Apartly'
      BY <1>1, <3>1, <3>2 DEF Queued
    <3> QED
      BY <1>2, <3>1, <3>3
  <2>5. CASE Send(c)
    <3>1. queue' = <<c>> /\ UNCHANGED <<job, answer, sup, tx, loop>> /\ tx = "open"
      BY <2>5 DEF Send, Sendable, flags
    <3>2. Places'
      BY <1>1, <3>1 DEF Serving
    <3>3. call[c] = "admitted" /\ call'[c] = "waiting" /\ \A b \in Calls \ {c} : call'[b] = call[b]
      BY <2>2, <2>5 DEF Send
    <3>4. \A b \in Calls : Queued(b)' => b = c
      BY <3>1 DEF Queued
    <3>5. c # job
      BY <1>1, <3>3
    <3>6. Owned' /\ Fresh' /\ Apartly'
      BY <1>1, <3>1, <3>3, <3>4, <3>5
    <3> QED
      BY <1>2, <3>2, <3>6
  <2>6. CASE Leaving(c)
    <3>1. UNCHANGED <<queue, job, answer>> /\ Places'
      BY <1>1, <2>6 DEF Leaving, Apart, flags
    <3>2. /\ \A b \in Calls \ {c} : call'[b] = call[b]
          /\ call[c] = "waiting"
          /\ \/ call'[c] = "returned" /\ answer[c] # Unanswered
             \/ call'[c] = "dropped" /\ answer[c] = Unanswered
      BY <2>2, <2>6 DEF Leaving
    <3>3. Owned' /\ Fresh' /\ Apartly'
      BY <1>1, <3>1, <3>2 DEF Queued
    <3> QED
      BY <1>2, <3>1, <3>3
  <2> QED
    BY <2>1, <2>3, <2>4, <2>5, <2>6
<1>8. CASE Supervise \/ JobTimesOut
  <2>1. CASE Spawn \/ StartupFrame \/ StartupFails \/ Check \/ Advertise \/ LoopHead \/ IdleCheck \/ IdleDisconnected \/ WriteJob \/ Ending
    <3>1. UNCHANGED <<queue, job, call, answer, tx, loop>> /\ (sup' \in {"write", "await"} <=> sup \in {"write", "await"})
      BY <2>1 DEF Spawn, StartupFrame, StartupFails, NotReady, Check, Advertise, LoopHead, IdleCheck,
                  IdleDisconnected, WriteJob, Ending, SupGoes
    <3>2. Places'
      BY <1>1, <3>1
    <3> QED
      BY <1>2, <1>3, <3>1, <3>2
  <2>2. CASE TakeJob
    <3>1. PICK c \in Calls : queue = <<c>>
      BY <2>2 DEF TakeJob, InHand, Queued
    <3>2. queue' = <<>> /\ UNCHANGED <<call, answer, tx, loop>> /\ sup = "idle" /\ job = NoCall /\ loop \in Serving
      BY <1>1, <2>2, <3>1 DEF TakeJob, SupGoes
    <3>3. (sup' = "loop" /\ job' = NoCall) \/ (sup' = "write" /\ job' = c)
      BY <2>2, <3>1, <3>2 DEF TakeJob, SupGoes
    <3>4. Places'
      BY <1>1, <3>2, <3>3 DEF NoCall, Calls
    <3>5. Queued(c) /\ \A b \in Calls : ~Queued(b)'
      BY <3>1, <3>2 DEF Queued
    <3>6. Owned' /\ Fresh' /\ Apartly'
      BY <1>1, <3>2, <3>3, <3>5 DEF NoCall, Calls
    <3> QED
      BY <1>2, <3>4, <3>6
  <2>3. CASE AwaitFrame \/ JobFails \/ JobTimesOut
    <3>1. PICK a : Answering(a)
      BY <2>3 DEF AwaitFrame, JobFails, JobTimesOut, Fatal, Matches, Reply, SupGoes, Answering
    <3>2. UNCHANGED <<call, tx>>
      BY <2>3 DEF AwaitFrame, JobFails, JobTimesOut, Fatal, Reply, SupGoes
    <3>3. Places'
      BY <1>1, <3>1, <3>2 DEF Answering
    <3>4. job \in Calls /\ answer \in [Calls -> Answers]
      BY <3>1 DEF Answering, InHand, Called
    <3>5. /\ \A c \in Calls \ {job} : answer'[c] = answer[c]
          /\ call[job] = "dropped" => answer' = answer
      BY <3>1, <3>4 DEF Answering
    <3>6. \A c \in Calls : (Queued(c)' <=> Queued(c)) /\ c # job'
      BY <3>1 DEF Queued, Answering, NoCall, Calls
    <3>7. Owned'
      BY <1>1, <3>2, <3>5, <3>6
    <3>8. Fresh'
      <4>1. call[job] \in {"waiting", "dropped"}
        BY <1>1, <3>4
      <4> QED
        BY <1>1, <3>2, <3>5, <4>1
    <3>9. Apartly'
      BY <3>6
    <3> QED
      BY <1>2, <3>3, <3>7, <3>8, <3>9
  <2>4. CASE Reap
    <3>1. queue' = <<>> /\ job' = job /\ UNCHANGED <<call, tx, loop>> /\ sup = "reap" /\ sup' = "none" /\ answer' = DropQueue
      BY <2>4 DEF Reap, SupGoes
    <3>2. job = NoCall /\ Places'
      BY <1>1, <3>1
    <3>3. \A c \in Calls : call[c] # "waiting" => answer'[c] = answer[c]
      BY <3>1 DEF DropQueue
    <3>4. \A c \in Calls : c # job' /\ ~Queued(c)'
      BY <3>1, <3>2 DEF Queued, NoCall, Calls
    <3>5. Owned' /\ Fresh' /\ Apartly'
      BY <1>1, <3>1, <3>3, <3>4
    <3> QED
      BY <1>2, <3>2, <3>5
  <2> QED
    BY <1>8, <2>1, <2>2, <2>3, <2>4 DEF Supervise
<1>9. CASE ReaderFaults \/ Emits \/ Idle
  <2>1. UNCHANGED <<queue, job, call, answer, tx, loop, sup>>
    BY <1>9 DEF ReaderFaults, Emits, WorkerReady, WorkerAnswers, WorkerRepeats, WorkerDies, Emit, Idle, Apart, flags, callers
  <2>2. Places'
    BY <1>1, <2>1
  <2> QED
    BY <1>2, <1>3, <2>1, <2>2
<1> QED
  BY <1>5, <1>6, <1>7, <1>8, <1>9 DEF Step

(* What was answered is not answered again.                                *)
LEMMA AnswersStay ==
  ASSUME Called, InHand, Jobs, Step
  PROVE  \A c \in Calls : answer[c] # Unanswered => answer'[c] = answer[c]
<1>1. CASE answer' = answer
  BY <1>1
<1>2. CASE \E c \in Calls : Rejecting(c)
  <2>1. PICK c \in Calls : Rejecting(c)
    BY <1>2
  <2>2. \A b \in Calls \ {c} : answer'[b] = answer[b]
    BY <2>1 DEF Rejecting, Returns, Called
  <2>3. answer[c] = Unanswered
    BY <2>1 DEF Rejecting, Jobs
  <2> QED
    BY <2>2, <2>3
<1>3. CASE Reap
  <2>1. \A c \in Calls : (\E i \in DOMAIN queue : queue[i] = c) => Queued(c)
    BY DEF InHand, Queued
  <2>2. \A c \in Calls : Queued(c) => answer[c] = Unanswered
    BY DEF Jobs
  <2>3. \A c \in Calls : answer'[c] = IF c \in {queue[i] : i \in DOMAIN queue} /\ call[c] = "waiting" THEN Failed ELSE answer[c]
    BY <1>3 DEF Reap, DropQueue
  <2> QED
    BY <2>1, <2>2, <2>3
<1>4. ASSUME NEW a, Answering(a) PROVE \A c \in Calls : answer[c] # Unanswered => answer'[c] = answer[c]
  <2>1. job \in Calls /\ answer[job] = Unanswered
    BY <1>4 DEF Answering, InHand, Jobs
  <2> QED
    BY <1>4, <2>1 DEF Answering, Called
<1> QED
  BY <1>1, <1>2, <1>3, <1>4, AnswerStep

(* An answer that is good is the job's own.                                *)
LEMMA AnswersOwn == ASSUME Called, InHand, AnswerOwn, Step PROVE AnswerOwn'
<1>1. Failed.res # "ok" /\ Replay.res # "ok" /\ [res |-> "ok", of |-> job].of = job
  BY DEF Failed, Replay
<1>2. CASE answer' = answer
  BY <1>2 DEF AnswerOwn
<1>3. CASE \E c \in Calls : Rejecting(c)
  BY <1>1, <1>3 DEF Rejecting, Returns, AnswerOwn, Called
<1>4. CASE Reap
  BY <1>1, <1>4 DEF Reap, DropQueue, AnswerOwn, Called
<1>5. ASSUME NEW a \in {Failed, [res |-> "ok", of |-> job]}, Answering(a) PROVE AnswerOwn'
  <2>1. job \in Calls
    BY <1>5 DEF Answering, InHand
  <2>2. ASSUME NEW c \in Calls, answer'[c].res = "ok" PROVE answer'[c].of = c
    <3>1. answer'[c] = answer[c] \/ (c = job /\ answer'[c] = a)
      BY <1>5, <2>1 DEF Answering, Called
    <3> QED
      BY <1>1, <1>5, <2>2, <3>1 DEF AnswerOwn
  <2> QED
    BY <2>2 DEF AnswerOwn
<1> QED
  BY <1>2, <1>3, <1>4, <1>5, AnswerStep

-----------------------------------------------------------------------------
(* All that the four engines have in common.                               *)
Common ==
  /\ Threads /\ Toggles /\ Frames /\ InHand /\ Called /\ restarts \in 0 .. MaxRestarts
  /\ Starting /\ Pinned /\ Jobs /\ AnswerOwn

LEMMA CommonInit == Init => Common
<1> SUFFICES ASSUME Init PROVE Common
  OBVIOUS
<1>1. /\ kind \in Kinds /\ healthy = FALSE /\ stopped = FALSE /\ tx = "none" /\ queue = <<>> /\ sup = "none" /\ job = NoCall
      /\ ready = "pending" /\ reader = "closed" /\ frames = <<>> /\ child = "none" /\ loop = "preparing" /\ restarts = 0
      /\ call = [c \in Calls |-> "new"] /\ rid \in [Calls -> RequestIds] /\ answer = [c \in Calls |-> Unanswered]
  BY DEF Init, WorkerInit
<1>2. Threads /\ InHand /\ Frames
  BY <1>1, WorkerAssumption DEF Threads, SupPC, LoopPC, InHand, Frames
<1>3. Toggles
  BY <1>1, Zenon DEF Toggles
<1>4. Called
  BY <1>1, AnswerTypes DEF Called, CallPC
<1>5. restarts \in 0 .. MaxRestarts
  BY <1>1, WorkerAssumption
<1>6. Starting /\ Pinned
  BY <1>1 DEF Starting, Startup, Pinned
<1>7. Jobs
  BY <1>1 DEF Jobs, Queued, NoCall, Calls
<1>8. AnswerOwn
  BY <1>1 DEF AnswerOwn, Unanswered
<1> QED
  BY <1>2, <1>3, <1>4, <1>5, <1>6, <1>7, <1>8 DEF Common

LEMMA CommonStep == Common /\ [Next]_vars => Common'
BY Steps, ThreadStep, ToggleStep, FrameStep, InHandStep, CalledStep, RestartCount, StartingStep, PinnedStep,
   JobsStep, AnswersOwn DEF Common

LEMMA CommonHolds == Spec => []Common
BY CommonInit, CommonStep, PTL DEF Spec

(* A call that succeeds has the worker's answer to that call: run_job      *)
(* compares the id of the frame, and answers no call but the one it holds. *)
THEOREM AnswersAreOwn == Spec => []AnswerOwn
<1>1. Common => AnswerOwn
  BY DEF Common
<1> QED
  BY <1>1, CommonHolds, PTL

(* The engine is advertised only over a worker that named the pinned model:*)
(* supervise raises the flag after validate_ready alone, and every stop and*)
(* every end of the supervisor clears it.                                  *)
THEOREM OnlyPinned == Spec => []AdvertisedIsPinned
<1>1. Common => AdvertisedIsPinned
  BY DEF Common, Pinned, AdvertisedIsPinned, IsHealthy, Toggles
<1> QED
  BY <1>1, CommonHolds, PTL

(* The answer a call was given is never changed: a late frame, the end of  *)
(* the supervisor or a restart does not answer it again.                   *)
AnsweredOnce == [][\A c \in Calls : answer[c] # Unanswered => answer'[c] = answer[c]]_vars
THEOREM AnswersAreFinal == Spec => AnsweredOnce
<1>1. Common /\ [Next]_vars => [\A c \in Calls : answer[c] # Unanswered => answer'[c] = answer[c]]_vars
  BY Steps, AnswersStay DEF Common
<1> QED
  BY <1>1, CommonHolds, PTL DEF Spec, AnsweredOnce

-----------------------------------------------------------------------------
(* The image engine's faults.                                              *)
Marks == timedOut \in BOOLEAN /\ parked \in BOOLEAN
Numbers == consecutive \in 0 .. MaxConsecutive /\ late \in Nat

(* A step that leaves the faults alone stops no service for which one is   *)
(* due, or that is parked.                                                 *)
Untouched ==
  /\ UNCHANGED <<timedOut, consecutive, parked, late>>
  /\ kind = "image" /\ (timedOut = TRUE \/ parked = TRUE) /\ loop = "watch" => loop' = "watch"

Counting == Park \/ AfterTimeout \/ ImageTimesOut \/ (\E c \in Calls : ImageFinish(c))

LEMMA KindStays == [Next]_vars => kind' = kind
BY Steps DEF Step, Starts, Production, StartEnds, StartGivesUp, Idle, Apart,
         Restarts, Stopping, RestartLaunches, RestartConfirms, RestartFails,
         Serves, Admitting, Rejecting, Leaving, Send, Apart,
         Supervise, JobTimesOut, JobFails, Fatal, Spawn, StartupFrame, StartupFails, NotReady, Check,
         Advertise, LoopHead, TakeJob, IdleCheck, IdleDisconnected, WriteJob, AwaitFrame, Ending, Reap, Reply, SupGoes,
         ReaderFaults, Emits, WorkerReady, WorkerAnswers, WorkerRepeats, WorkerDies, Emit

LEMMA FaultSteps ==
  ASSUME Marks, [Next]_vars
  PROVE  Untouched \/ (kind = "image" /\ Counting)
<1>1. CASE kind # "image" /\ UNCHANGED imageVars
  BY <1>1 DEF Untouched, imageVars, faults
<1>2. CASE Worker \/ UNCHANGED vars \/ (TimePasses /\ UNCHANGED imageVars)
  BY <1>2 DEF Untouched, imageVars, faults, vars, wvars, TimePasses, Worker, WorkerReady, WorkerAnswers, WorkerRepeats, WorkerDies, Emit
<1>3. CASE kind = "image" /\ ImageNext
  <2>1. CASE ImageProduction \/ ImageStart \/ ImageReader
    BY <2>1 DEF ImageProduction, ImageStart, ImageReader, Production, StartEnds, StartGivesUp, ReaderFaults,
                Untouched, imageVars, faults
  <2>2. CASE Generate
    BY <2>2 DEF Generate, Unhealthy, Refused, ImageReplayed, ImageAdmit, Untouched, imageVars, faults
  <2>3. CASE Dispatch
    <3>1. PICK c \in Calls : (Send(c) /\ UNCHANGED imageVars) \/ ImageSendFails(c) \/ ImageFinish(c) \/ ImageDrop(c)
      BY <2>3 DEF Dispatch
    <3>2. CASE ImageFinish(c)
      BY <1>3, <3>2 DEF Counting
    <3>3. CASE ~ImageFinish(c)
      BY <3>1, <3>3 DEF Send, ImageSendFails, ImageDrop, Untouched, imageVars, faults
    <3> QED
      BY <3>2, <3>3
  <2>4. CASE ImageRestart
    <3>1. CASE Park \/ AfterTimeout
      BY <1>3, <3>1 DEF Counting
    <3>2. CASE AfterCrash
      BY <3>2, Zenon DEF AfterCrash, Untouched, imageVars, faults, Marks
    <3>3. CASE (RestartLaunches \/ RestartConfirms \/ RestartFails) /\ UNCHANGED imageVars
      BY <3>3 DEF RestartLaunches, RestartConfirms, RestartFails, Untouched, imageVars, faults
    <3> QED
      BY <2>4, <3>1, <3>2, <3>3 DEF ImageRestart
  <2>5. CASE ImageSupervise
    <3>1. CASE ImageTimesOut
      BY <1>3, <3>1 DEF Counting
    <3>2. CASE ~ImageTimesOut
      <4>1. UNCHANGED imageVars
        BY <2>5, <3>2 DEF ImageSupervise
      <4>2. Supervise
        BY <2>5, <3>2 DEF ImageSupervise, ImageSpawn, ImageReady, ImageAdvertise, ImageLoop, ImageWrite, ImageReply,
                          ImageGivesUp, Supervise
      <4>3. loop' = loop
        BY <4>2 DEF Supervise, JobFails, Fatal, Spawn, StartupFrame, StartupFails, NotReady, Check,
             Advertise, LoopHead, TakeJob, IdleCheck, IdleDisconnected, WriteJob, AwaitFrame, Ending, Reap, Reply, SupGoes
      <4> QED
        BY <4>1, <4>3 DEF Untouched, imageVars, faults
    <3> QED
      BY <3>1, <3>2
  <2> QED
    BY <1>3, <2>1, <2>2, <2>3, <2>4, <2>5 DEF ImageNext
<1> QED
  BY <1>1, <1>2, <1>3 DEF Next

(* A service that was stopped over a fault is not started again by itself, *)
(* and one that is parked not at all.                                      *)
Halted == healthy = FALSE /\ loop = "watch" /\ sup \in {"loop", "ending", "reap", "none"}
Shut == stopped = TRUE /\ loop \in {"watch", "failing"}

LEMMA HaltedStays == ASSUME Toggles, Halted, Step, loop' = "watch" PROVE Halted'
<1>1. CASE Starts \/ Restarts
  BY <1>1 DEF Halted, Starts, Production, StartEnds, StartGivesUp, flags,
              Restarts, Stopping, Stop, RestartLaunches, RestartConfirms, RestartFails
<1>2. CASE Serves \/ Idle
  BY <1>2 DEF Halted, Serves, Admitting, Rejecting, Leaving, Send, Apart, flags, Idle, Apart
<1>3. CASE Supervise \/ JobTimesOut
  BY <1>3 DEF Halted, Toggles, Supervise, JobTimesOut, JobFails, Fatal, Spawn, StartupFrame, StartupFails, NotReady, Check,
              Advertise, LoopHead, GoOn, TakeJob, IdleCheck, IdleDisconnected, WriteJob, AwaitFrame, Ending, Reap, Reply, SupGoes
<1>4. CASE ReaderFaults \/ Emits
  BY <1>4 DEF Halted, ReaderFaults, Emits, WorkerReady, WorkerAnswers, WorkerRepeats, WorkerDies, Emit, Delivered, flags
<1> QED
  BY <1>1, <1>2, <1>3, <1>4 DEF Step

LEMMA ShutStays == ASSUME Shut, Step, loop = "watch" => loop' = "watch" PROVE Shut'
<1>1. CASE Starts \/ Restarts
  BY <1>1 DEF Shut, Starts, Production, StartEnds, StartGivesUp, flags,
              Restarts, Stopping, Stop, RestartLaunches, RestartConfirms, RestartFails
<1>2. CASE Serves \/ Idle
  BY <1>2 DEF Shut, Serves, Admitting, Rejecting, Leaving, Send, Apart, flags, Idle, Apart
<1>3. CASE Supervise \/ JobTimesOut
  BY <1>3 DEF Shut, Supervise, JobTimesOut, JobFails, Fatal, Spawn, StartupFrame, StartupFails, NotReady, Check,
              Advertise, LoopHead, TakeJob, IdleCheck, IdleDisconnected, WriteJob, AwaitFrame, Ending, Reap, Reply, SupGoes
<1>4. CASE ReaderFaults \/ Emits
  BY <1>4 DEF Shut, ReaderFaults, Emits, WorkerReady, WorkerAnswers, WorkerRepeats, WorkerDies, Emit, flags
<1> QED
  BY <1>1, <1>2, <1>3, <1>4 DEF Step

(* Every timeout since the last picture left a call without one.           *)
LEMMA CallsCounted ==
  ASSUME NEW S \in SUBSET Calls
  PROVE  IsFiniteSet(S) /\ Cardinality(S) \in Nat /\ Cardinality(S) <= MaxCalls
<1>1. IsFiniteSet(Calls) /\ Cardinality(Calls) = MaxCalls
  <2>1. 1 \in Int /\ MaxCalls \in Int /\ 1 <= MaxCalls
    BY WorkerAssumption
  <2>2. IsFiniteSet(1 .. MaxCalls) /\ Cardinality(1 .. MaxCalls) = MaxCalls - 1 + 1
    BY <2>1, FS_Interval
  <2> QED
    BY <2>1, <2>2 DEF Calls
<1>2. IsFiniteSet(S) /\ Cardinality(S) <= Cardinality(Calls)
  BY <1>1, FS_Subset
<1> QED
  BY <1>1, <1>2, FS_CardinalityType

LEMMA UnservedCounted ==
  /\ IsFiniteSet(Unserved) /\ Cardinality(Unserved) \in Nat /\ Cardinality(Unserved) <= MaxCalls
  /\ IsFiniteSet(Unserved') /\ Cardinality(Unserved') \in Nat
<1>1. Unserved \in SUBSET Calls /\ Unserved' \in SUBSET Calls
  BY DEF Unserved
<1> QED
  BY <1>1, CallsCounted

LEMMA UnservedGrows ==
  ASSUME Called, InHand, Jobs, Step
  PROVE  Unserved \subseteq Unserved' /\ Cardinality(Unserved) <= Cardinality(Unserved')
<1>1. Failed # Unanswered
  BY DEF Failed, Unanswered
<1>2. Unserved \subseteq Unserved'
  BY <1>1, AnswersStay DEF Unserved
<1> QED
  BY <1>2, UnservedCounted, FS_Subset

LEMMA UnservedGains ==
  ASSUME Called, InHand, Jobs, JobTimesOut
  PROVE  Cardinality(Unserved') >= Cardinality(Unserved) + 1
<1>1. Failed # Unanswered
  BY DEF Failed, Unanswered
<1>2. job \in Calls /\ call[job] # "dropped" /\ answer' = [answer EXCEPT ![job] = Failed]
  BY DEF JobTimesOut, Fatal, Reply, InHand
<1>3. answer[job] = Unanswered /\ answer'[job] = Failed
  BY <1>2 DEF Called, Jobs
<1>4. job \notin Unserved /\ job \in Unserved' /\ Unserved \subseteq Unserved'
  BY <1>1, <1>2, <1>3 DEF Unserved, Called
<1>5. IsFiniteSet(Unserved \cup {job}) /\ Cardinality(Unserved \cup {job}) = Cardinality(Unserved) + 1
  BY <1>4, UnservedCounted, FS_AddElement
<1>6. Cardinality(Unserved \cup {job}) <= Cardinality(Unserved')
  BY <1>4, UnservedCounted, FS_Subset
<1> QED
  BY <1>5, <1>6, UnservedCounted

(* What the heartbeat loop and the supervisor know of the faults.          *)
Stalled ==
  /\ kind # "image" => timedOut = FALSE /\ parked = FALSE
  /\ timedOut = TRUE => Halted
  /\ parked = TRUE => Shut /\ timedOut = FALSE
Tally ==
  /\ parked = FALSE => consecutive < MaxConsecutive
  /\ late <= IF timedOut = TRUE THEN consecutive + 1 ELSE consecutive

LEMMA Faulty == Faulted <=> Stalled /\ Tally /\ late <= Cardinality(Unserved)
BY DEF Faulted, Stalled, Tally, Halted, Shut

LEMMA StalledStep ==
  ASSUME Marks, Toggles, Starting, Jobs, Stalled, [Next]_vars
  PROVE  Stalled' /\ Marks'
<1>1. Step /\ kind' = kind
  BY Steps, KindStays
<1>2. CASE Untouched
  <2>1. Marks' /\ timedOut' = timedOut /\ parked' = parked
    BY <1>2, Zenon DEF Marks, Untouched
  <2>2. ASSUME timedOut = TRUE PROVE Halted'
    <3>1. loop' = "watch"
      BY <1>2, <2>2, Zenon DEF Untouched, Stalled, Halted
    <3> QED
      BY <1>1, <2>2, <3>1, HaltedStays DEF Stalled
  <2>3. ASSUME parked = TRUE PROVE Shut'
    <3>1. loop = "watch" => loop' = "watch"
      BY <1>2, <2>3, Zenon DEF Untouched, Stalled
    <3> QED
      BY <1>1, <2>3, <3>1, ShutStays DEF Stalled
  <2> QED
    BY <1>1, <2>1, <2>2, <2>3 DEF Stalled
<1>3. CASE kind = "image" /\ Park
  <2>1. timedOut' = FALSE /\ parked' = TRUE /\ stopped' = TRUE /\ loop' = "failing"
    BY <1>3 DEF Park, Stop
  <2> QED
    BY <1>1, <1>3, <2>1 DEF Stalled, Shut, Marks
<1>4. CASE kind = "image" /\ AfterTimeout
  <2>1. timedOut' = FALSE /\ parked' = FALSE
    BY <1>4, Zenon DEF AfterTimeout, Marks
  <2> QED
    BY <1>1, <1>4, <2>1 DEF Stalled, Marks
<1>5. CASE kind = "image" /\ ImageTimesOut
  <2>1. /\ timedOut' = TRUE /\ parked' = parked /\ stopped = FALSE /\ healthy' = FALSE /\ sup' = "loop" /\ loop' = loop
        /\ sup \in {"write", "await"}
    BY <1>5, Zenon DEF ImageTimesOut, JobTimesOut, Fatal, Reply, SupGoes, Toggles
  <2>2. loop = "watch"
    <3>1. loop \in Serving
      BY <2>1 DEF Jobs
    <3> QED
      BY <2>1, <3>1 DEF Serving, Starting
  <2>3. parked = FALSE
    BY <2>1, Zenon DEF Stalled, Shut, Marks
  <2> QED
    BY <1>1, <1>5, <2>1, <2>2, <2>3 DEF Stalled, Halted, Marks
<1>6. CASE kind = "image" /\ \E c \in Calls : ImageFinish(c)
  <2>1. UNCHANGED <<timedOut, parked, healthy, stopped, loop, sup, kind>>
    BY <1>6 DEF ImageFinish, flags
  <2> QED
    BY <2>1, Zenon DEF Stalled, Halted, Shut, Marks
<1> QED
  BY <1>2, <1>3, <1>4, <1>5, <1>6, FaultSteps DEF Counting

LEMMA TallyStep ==
  ASSUME Marks, Numbers, Called, InHand, Stalled, Tally, late <= Cardinality(Unserved), Jobs, [Next]_vars
  PROVE  Numbers' /\ Tally' /\ late' <= Cardinality(Unserved')
<1> DEFINE n == Cardinality(Unserved)
           m == Cardinality(Unserved')
<1>1. n \in Nat /\ m \in Nat /\ n <= m
  BY Steps, UnservedCounted, UnservedGrows
<1>2. late <= n
  OBVIOUS
<1>3. Tally' <=> /\ parked' = FALSE => consecutive' < MaxConsecutive
                 /\ timedOut' = TRUE => late' <= consecutive' + 1
                 /\ timedOut' # TRUE => late' <= consecutive'
  BY DEF Tally
<1>4. /\ parked = FALSE => consecutive < MaxConsecutive
      /\ timedOut = TRUE => late <= consecutive + 1
      /\ timedOut # TRUE => late <= consecutive
  BY DEF Tally
<1>5. consecutive \in Nat /\ late \in Nat /\ consecutive <= MaxConsecutive /\ MaxConsecutive \in Nat \ {0}
  BY ImageAssumption DEF Numbers
<1>6. Numbers' <=> consecutive' \in 0 .. MaxConsecutive /\ late' \in Nat
  BY DEF Numbers
<1>7. Unserved' = Unserved => m = n
  OBVIOUS
<1> HIDE DEF n, m
<1>13. ASSUME consecutive' \in Nat, consecutive' <= MaxConsecutive, late' \in Nat, late' <= m,
              parked' = FALSE => consecutive' < MaxConsecutive,
              (timedOut' = TRUE /\ late' <= consecutive' + 1) \/ (timedOut' # TRUE /\ late' <= consecutive')
       PROVE  Numbers' /\ Tally' /\ late' <= m
  <2>1. consecutive' \in 0 .. MaxConsecutive
    BY <1>5, <1>13
  <2> QED
    BY <1>3, <1>6, <1>13, <2>1, Zenon
<1>8. SUFFICES Numbers' /\ Tally' /\ late' <= m
  BY DEF m
<1>9. CASE Untouched
  <2>1. consecutive' = consecutive /\ late' = late /\ timedOut' = timedOut /\ parked' = parked
    BY <1>9 DEF Untouched
  <2>2. late <= m
    BY <1>1, <1>2, <1>5
  <2>3. (timedOut' = TRUE /\ late' <= consecutive' + 1) \/ (timedOut' # TRUE /\ late' <= consecutive')
    BY <1>4, <2>1, Zenon
  <2> QED
    BY <1>4, <1>5, <1>13, <2>1, <2>2, <2>3, Zenon
<1>10. CASE Park \/ AfterTimeout
  <2>1. timedOut = TRUE /\ timedOut' = FALSE /\ consecutive' = consecutive + 1 /\ late' = late /\ parked = FALSE
    BY <1>10, Zenon DEF Park, AfterTimeout, Marks
  <2>2. parked' = FALSE => consecutive + 1 < MaxConsecutive
    BY <1>10 DEF Park, AfterTimeout
  <2>3. consecutive < MaxConsecutive /\ late <= consecutive + 1
    BY <1>4, <2>1, Zenon
  <2>4. consecutive + 1 \in Nat /\ consecutive + 1 <= MaxConsecutive /\ late <= m
    BY <1>1, <1>2, <1>5, <2>3
  <2> QED
    BY <1>5, <1>13, <2>1, <2>2, <2>3, <2>4, Zenon
<1>11. CASE ImageTimesOut
  <2>1. timedOut' = TRUE /\ late' = late + 1 /\ consecutive' = consecutive /\ parked' = parked /\ sup \in {"write", "await"} /\ JobTimesOut
    BY <1>11 DEF ImageTimesOut, JobTimesOut
  <2>2. timedOut = FALSE
    BY <2>1 DEF Stalled, Halted, Marks
  <2>3. late <= consecutive
    BY <1>4, <2>2, Zenon
  <2>4. m >= n + 1
    BY <2>1, UnservedGains DEF n, m
  <2>5. late + 1 \in Nat /\ late + 1 <= consecutive + 1 /\ late + 1 <= m
    BY <1>1, <1>2, <1>5, <2>3, <2>4
  <2> QED
    BY <1>4, <1>5, <1>13, <2>1, <2>5, Zenon
<1>12. CASE \E c \in Calls : ImageFinish(c)
  <2>1. /\ UNCHANGED <<timedOut, parked>>
        /\ (consecutive' = 0 /\ late' = 0) \/ (consecutive' = consecutive /\ late' = late)
    BY <1>12 DEF ImageFinish
  <2>2. late <= m /\ 0 \in Nat /\ 0 <= m /\ 0 <= MaxConsecutive /\ 0 < MaxConsecutive /\ 0 <= 0 /\ 0 <= 0 + 1
    BY <1>1, <1>2, <1>5
  <2>3. ASSUME consecutive' = 0, late' = 0 PROVE Numbers' /\ Tally' /\ late' <= m
    BY <1>13, <2>2, <2>3, Zenon
  <2>4. ASSUME consecutive' = consecutive, late' = late PROVE Numbers' /\ Tally' /\ late' <= m
    <3>1. (timedOut' = TRUE /\ late' <= consecutive' + 1) \/ (timedOut' # TRUE /\ late' <= consecutive')
      BY <1>4, <2>1, <2>4, Zenon
    <3> QED
      BY <1>4, <1>5, <1>13, <2>1, <2>2, <2>4, <3>1, Zenon
  <2> QED
    BY <2>1, <2>3, <2>4
<1> QED
  BY <1>9, <1>10, <1>11, <1>12, FaultSteps DEF Counting

(* The faults, and all they are counted by.                                *)
Blamed == Common /\ Marks /\ Numbers /\ Faulted

LEMMA BlamedInit == Init => Blamed
<1> SUFFICES ASSUME Init PROVE Blamed
  OBVIOUS
<1>1. timedOut = FALSE /\ consecutive = 0 /\ parked = FALSE /\ late = 0
  BY DEF Init, ImageInit
<1>2. Marks
  BY <1>1, Zenon DEF Marks
<1>3. Numbers /\ Faulted
  BY <1>1, UnservedCounted, ImageAssumption DEF Numbers, Faulted
<1> QED
  BY <1>2, <1>3, CommonInit DEF Blamed

LEMMA BlamedStep == Blamed /\ [Next]_vars => Blamed'
<1> SUFFICES ASSUME Blamed, [Next]_vars PROVE Blamed'
  OBVIOUS
<1>1. Common /\ Marks /\ Numbers /\ Stalled /\ Tally /\ late <= Cardinality(Unserved)
  BY Faulty DEF Blamed
<1>2. Called /\ InHand /\ Jobs /\ Toggles /\ Starting
  BY <1>1 DEF Common
<1>3. Stalled' /\ Marks' /\ Numbers' /\ Tally' /\ late' <= Cardinality(Unserved')
  BY <1>1, <1>2, StalledStep, TallyStep
<1>4. Faulted'
  BY <1>3 DEF Faulted, Stalled, Tally, Halted, Shut
<1>5. Common'
  BY <1>1, CommonStep
<1> QED
  BY <1>3, <1>4, <1>5 DEF Blamed

LEMMA BlamedHolds == Spec => []Blamed
BY BlamedInit, BlamedStep, PTL DEF Spec

(* At most MaxConsecutive requests time out between two pictures, and a    *)
(* worker that was parked for it is not advertised: restart() reads and    *)
(* clears the flag before it decides, so no fault is counted twice or lost.*)
THEOREM HangsAreParked == Spec => []HangsParked
<1>1. Blamed => HangsParked
  <2> SUFFICES ASSUME Blamed PROVE HangsParked
    OBVIOUS
  <2>1. parked = TRUE => stopped = TRUE
    BY DEF Blamed, Faulted
  <2>2. late <= MaxConsecutive
    <3>1. consecutive \in Nat /\ late \in Nat /\ consecutive <= MaxConsecutive /\ MaxConsecutive \in Nat
      BY ImageAssumption DEF Blamed, Numbers
    <3>2. /\ timedOut = TRUE => consecutive < MaxConsecutive /\ late <= consecutive + 1
          /\ timedOut # TRUE => late <= consecutive
      BY DEF Blamed, Faulted, Marks
    <3>3. (consecutive < MaxConsecutive /\ late <= consecutive + 1) \/ late <= consecutive
      BY <3>2, Zenon
    <3> QED
      BY <3>1, <3>3
  <2> QED
    BY <2>1, <2>2, Zenon DEF HangsParked, IsHealthy, Blamed, Marks
<1> QED
  BY <1>1, BlamedHolds, PTL

-----------------------------------------------------------------------------
(* A replay cache: a bounded sequence of different ids in the order of the *)
(* times at which they were put there.                                     *)
Distinct(s) == \A i, j \in DOMAIN s : s[i].id = s[j].id => i = j
Ordered(s) == \A i, j \in DOMAIN s : i <= j => s[i].at <= s[j].at
Past(s) == \A i \in DOMAIN s : s[i].at <= clock
Cache(s) == s \in Seq(Entries) /\ Len(s) <= ReplayCap /\ Distinct(s) /\ Ordered(s) /\ Past(s)
Holds(s, e) == \E i \in DOMAIN s : s[i] = e

(* What is left of it when the first k are dropped.                        *)
LEMMA SuffixMade ==
  ASSUME NEW s, Cache(s), NEW k \in 0 .. Len(s), NEW t \in Seq(Entries),
         Len(t) = Len(s) - k, \A i \in 1 .. Len(t) : t[i] = s[i + k]
  PROVE  /\ Cache(t)
         /\ \A e : Holds(t, e) => Holds(s, e)
         /\ \A e : Holds(s, e) => Holds(t, e) \/ \E i \in 1 .. k : s[i] = e
<1>1. /\ s \in Seq(Entries) /\ Len(s) \in Nat /\ DOMAIN s = 1 .. Len(s) /\ Len(s) <= ReplayCap /\ ReplayCap \in Nat
      /\ Distinct(s) /\ Ordered(s) /\ Past(s)
  BY LenProperties, WorkerAssumption DEF Cache
<1>2. k \in Nat /\ k <= Len(s) /\ Len(t) \in Nat /\ DOMAIN t = 1 .. Len(s) - k
  BY <1>1, LenProperties
<1>3. \A i \in DOMAIN t : i \in Nat /\ i + k \in DOMAIN s /\ t[i] = s[i + k]
  BY <1>1, <1>2
<1>4. Len(t) <= ReplayCap
  BY <1>1, <1>2
<1>5. Distinct(t)
  <2> SUFFICES ASSUME NEW i \in DOMAIN t, NEW j \in DOMAIN t, t[i].id = t[j].id PROVE i = j
    BY DEF Distinct
  <2>1. i + k = j + k
    BY <1>1, <1>3, Zenon DEF Distinct
  <2> QED
    BY <1>2, <1>3, <2>1
<1>6. Ordered(t)
  <2> SUFFICES ASSUME NEW i \in DOMAIN t, NEW j \in DOMAIN t, i <= j PROVE t[i].at <= t[j].at
    BY DEF Ordered
  <2>1. i + k <= j + k
    BY <1>2, <1>3
  <2> QED
    BY <1>1, <1>3, <2>1 DEF Ordered
<1>7. Past(t)
  BY <1>1, <1>3, Zenon DEF Past
<1>8. \A e : Holds(t, e) => Holds(s, e)
  BY <1>3, Zenon DEF Holds
<1>9. ASSUME NEW e, Holds(s, e) PROVE Holds(t, e) \/ \E i \in 1 .. k : s[i] = e
  <2>1. PICK i \in DOMAIN s : s[i] = e
    BY <1>9 DEF Holds
  <2>2. i \in 1 .. k \/ (i - k \in DOMAIN t /\ i - k + k = i)
    BY <1>1, <1>2
  <2> QED
    BY <1>3, <2>1, <2>2 DEF Holds
<1> QED
  BY <1>4, <1>5, <1>6, <1>7, <1>8, <1>9 DEF Cache

(* Expiry drops only what is old, and all of it.                           *)
LEMMA ExpiryMade ==
  ASSUME Memory, Cache(seen), NEW t \in Unexpired
  PROVE  /\ Cache(t)
         /\ \A e : Holds(t, e) => Holds(seen, e) /\ ~Old(e)
         /\ \A e : Holds(seen, e) => Holds(t, e) \/ Old(e)
<1>1. PICK k \in 0 .. Len(seen) :
        /\ t = SubSeq(seen, k + 1, Len(seen))
        /\ \A i \in 1 .. k : Old(seen[i])
        /\ k < Len(seen) => ~Old(seen[k + 1])
  BY DEF Unexpired, Expired
<1>2. seen \in Seq(Entries) /\ Len(seen) \in Nat /\ DOMAIN seen = 1 .. Len(seen) /\ k \in Nat /\ k <= Len(seen)
  BY LenProperties DEF Memory
<1>3. t \in Seq(Entries) /\ Len(t) = Len(seen) - k /\ \A i \in 1 .. Len(t) : t[i] = seen[i + k]
  <2>1. k + 1 \in Int /\ Len(seen) \in Int /\ \A i \in k + 1 .. Len(seen) : seen[i] \in Entries
    BY <1>2, ElementOfSeq
  <2>2. /\ t \in Seq(Entries)
        /\ Len(t) = IF k + 1 <= Len(seen) THEN Len(seen) - (k + 1) + 1 ELSE 0
        /\ \A i \in 1 .. Len(seen) - (k + 1) + 1 : t[i] = seen[k + 1 + i - 1]
    BY <1>1, <2>1, SubSeqProperties
  <2>3. Len(t) = Len(seen) - k
    <3> DEFINE n == Len(seen)
               m == Len(t)
    <3>1. n \in Nat /\ k \in Nat /\ k <= n
      BY <1>2
    <3>2. m = IF k + 1 <= n THEN n - (k + 1) + 1 ELSE 0
      BY <2>2
    <3> HIDE DEF m, n
    <3>3. m = n - k
      BY <3>1, <3>2
    <3> QED
      BY <3>3 DEF m, n
  <2>4. ASSUME NEW i \in 1 .. Len(t) PROVE t[i] = seen[i + k]
    <3>1. i \in 1 .. Len(seen) - (k + 1) + 1 /\ k + 1 + i - 1 = i + k
      BY <1>2, <2>3
    <3> QED
      BY <2>2, <3>1
  <2> QED
    BY <2>2, <2>3, <2>4
<1>4. /\ Cache(t)
      /\ \A e : Holds(t, e) => Holds(seen, e)
      /\ \A e : Holds(seen, e) => Holds(t, e) \/ \E i \in 1 .. k : seen[i] = e
  BY <1>3, SuffixMade
<1>5. \A e : Holds(seen, e) => Holds(t, e) \/ Old(e)
  BY <1>1, <1>4
<1>6. ASSUME NEW i \in DOMAIN t PROVE ~Old(t[i])
  <2>1. DOMAIN t = 1 .. Len(t) /\ i \in 1 .. Len(seen) - k
    BY <1>3, LenProperties
  <2>2. k < Len(seen) /\ k + 1 <= i + k /\ k + 1 \in DOMAIN seen /\ i + k \in DOMAIN seen
    BY <1>2, <2>1
  <2>3. t[i] = seen[i + k]
    BY <1>3, <2>1
  <2>4. seen[k + 1].at <= seen[i + k].at
    BY <2>2 DEF Cache, Ordered
  <2>5. seen[k + 1].at \in Int /\ seen[i + k].at \in Int /\ clock \in Int /\ ReplayWindow \in Int
    <3>1. seen[k + 1] \in Entries /\ seen[i + k] \in Entries
      BY <1>2, <2>2, ElementOfSeq
    <3> QED
      BY <3>1, WorkerAssumption DEF Entries, Memory
  <2>6. ~(clock - seen[k + 1].at >= ReplayWindow)
    BY <1>1, <2>2 DEF Old
  <2>7. ~(clock - seen[i + k].at >= ReplayWindow)
    BY <2>4, <2>5, <2>6
  <2> QED
    BY <2>3, <2>7 DEF Old
<1> QED
  BY <1>4, <1>5, <1>6 DEF Holds

(* Room for one more.                                                      *)
LEMMA RoomMade ==
  ASSUME NEW s, Cache(s), NEW t, t = Room(s)
  PROVE  /\ Cache(t) /\ Len(t) + 1 <= ReplayCap
         /\ \A e : Holds(t, e) => Holds(s, e)
         /\ Len(t) + 1 = ReplayCap \/ \A e : Holds(s, e) => Holds(t, e)
<1>1. s \in Seq(Entries) /\ Len(s) \in Nat /\ DOMAIN s = 1 .. Len(s) /\ Len(s) <= ReplayCap /\ ReplayCap \in Nat \ {0}
  BY LenProperties, WorkerAssumption DEF Cache
<1>2. CASE Len(s) < ReplayCap
  <2>1. ~(Len(s) >= ReplayCap) /\ Len(s) + 1 <= ReplayCap
    BY <1>1, <1>2
  <2>2. t = s
    BY <2>1 DEF Room
  <2> QED
    BY <2>1, <2>2
<1>3. CASE Len(s) = ReplayCap
  <2>1. s # <<>> /\ t = Tail(s)
    BY <1>1, <1>3 DEF Room
  <2>2. t \in Seq(Entries) /\ Len(t) = Len(s) - 1 /\ \A i \in 1 .. Len(t) : t[i] = s[i + 1]
    BY <1>1, <2>1, HeadTailProperties
  <2>3. 1 \in 0 .. Len(s) /\ Len(t) + 1 = ReplayCap
    BY <1>1, <1>3, <2>2
  <2>4. Cache(t) /\ \A e : Holds(t, e) => Holds(s, e)
    BY <2>2, <2>3, SuffixMade
  <2> QED
    BY <1>1, <2>3, <2>4
<1>4. Len(s) < ReplayCap \/ Len(s) = ReplayCap
  <2>1. \A a, b \in Nat : a <= b => a < b \/ a = b
    OBVIOUS
  <2> QED
    BY <1>1, <2>1, Zenon
<1> QED
  BY <1>2, <1>3, <1>4

LEMMA PutIn ==
  ASSUME Memory, NEW s, Cache(s), NEW r \in RequestIds, ~Remembers(s, r), NEW t, t = Append(s, Entry(r))
  PROVE  /\ t \in Seq(Entries) /\ Len(t) = Len(s) + 1 /\ Distinct(t) /\ Ordered(t) /\ Past(t)
         /\ \A e : Holds(t, e) <=> Holds(s, e) \/ e = Entry(r)
<1> DEFINE n == Len(s) + 1
<1>1. s \in Seq(Entries) /\ Entry(r) \in Entries /\ Entry(r).id = r /\ Entry(r).at = clock /\ clock \in Int
  BY DEF Cache, Memory, Entries, Entry
<1>2. /\ Len(s) \in Nat /\ DOMAIN s = 1 .. Len(s)
      /\ t \in Seq(Entries) /\ Len(t) = n
      /\ \A i \in 1 .. Len(s) : t[i] = s[i]
      /\ t[n] = Entry(r)
  BY <1>1, AppendProperties, LenProperties
<1>3. DOMAIN t = 1 .. n
  BY <1>2, LenProperties
<1>4. n \in DOMAIN t /\ \A i \in DOMAIN t : i \in DOMAIN s \/ i = n
  BY <1>2, <1>3
<1>5. \A i \in DOMAIN s : i \in DOMAIN t /\ i < n /\ t[i] = s[i]
  BY <1>2, <1>3
<1>6. n \in Nat /\ t \in Seq(Entries) /\ Len(t) = n /\ t[n] = Entry(r)
  BY <1>2
<1> HIDE DEF n
<1>7. \A e : Holds(t, e) <=> Holds(s, e) \/ e = Entry(r)
  BY <1>4, <1>5, <1>6, Zenon DEF Holds
<1>8. Distinct(t)
  <2> SUFFICES ASSUME NEW i \in DOMAIN t, NEW j \in DOMAIN t, t[i].id = t[j].id PROVE i = j
    BY DEF Distinct
  <2>1. CASE i \in DOMAIN s /\ j \in DOMAIN s
    BY <1>5, <2>1, Zenon DEF Cache, Distinct
  <2>2. CASE i = n /\ j \in DOMAIN s
    BY <1>1, <1>5, <1>6, <2>2 DEF Remembers
  <2>3. CASE i \in DOMAIN s /\ j = n
    BY <1>1, <1>5, <1>6, <2>3 DEF Remembers
  <2> QED
    BY <1>4, <2>1, <2>2, <2>3
<1>9. Past(t)
  <2> SUFFICES ASSUME NEW i \in DOMAIN t PROVE t[i].at <= clock
    BY DEF Past
  <2>1. CASE i \in DOMAIN s
    BY <1>5, <2>1, Zenon DEF Cache, Past
  <2>2. CASE i = n
    BY <1>1, <1>6, <2>2
  <2> QED
    BY <1>4, <2>1, <2>2
<1>10. Ordered(t)
  <2> SUFFICES ASSUME NEW i \in DOMAIN t, NEW j \in DOMAIN t, i <= j PROVE t[i].at <= t[j].at
    BY DEF Ordered
  <2>1. CASE j \in DOMAIN s
    <3>1. i \in DOMAIN s
      BY <1>2, <1>4, <1>5, <1>6, <2>1
    <3> QED
      BY <1>5, <2>1, <3>1 DEF Cache, Ordered
  <2>2. CASE j = n
    BY <1>1, <1>6, <1>9, <2>2 DEF Past
  <2> QED
    BY <1>4, <2>1, <2>2
<1> QED
  BY <1>6, <1>7, <1>8, <1>9, <1>10 DEF n

(* finish() and insert(): after expiry room is made, and the id put last.  *)
Put(s, r) == IF Remembers(Room(s), r) THEN Room(s) ELSE Append(Room(s), Entry(r))

LEMMA HeldRemembered == ASSUME NEW s, NEW r PROVE Remembers(s, r) <=> \E e : Holds(s, e) /\ e.id = r
BY Zenon DEF Remembers, Holds

LEMMA PutMade ==
  ASSUME Memory, NEW s, Cache(s), NEW r \in RequestIds, NEW t, t = Put(s, r)
  PROVE  /\ Cache(t)
         /\ \A e : Holds(t, e) => Holds(s, e) \/ e = Entry(r)
         /\ ~Remembers(s, r) => /\ Holds(t, Entry(r))
                                /\ Len(t) = ReplayCap \/ \A e : Holds(s, e) => Holds(t, e)
<1> DEFINE u == Room(s)
<1>1. /\ Cache(u) /\ Len(u) + 1 <= ReplayCap
      /\ \A e : Holds(u, e) => Holds(s, e)
      /\ Len(u) + 1 = ReplayCap \/ \A e : Holds(s, e) => Holds(u, e)
  BY RoomMade, Zenon
<1>2. t = IF Remembers(u, r) THEN u ELSE Append(u, Entry(r))
  BY DEF Put
<1> HIDE DEF u
<1>3. Remembers(u, r) => Remembers(s, r)
  BY <1>1, HeldRemembered, Zenon
<1>4. CASE Remembers(u, r)
  BY <1>1, <1>2, <1>3, <1>4
<1>5. CASE ~Remembers(u, r)
  <2>1. t = Append(u, Entry(r))
    BY <1>2, <1>5
  <2>2. /\ t \in Seq(Entries) /\ Len(t) = Len(u) + 1 /\ Distinct(t) /\ Ordered(t) /\ Past(t)
        /\ \A e : Holds(t, e) <=> Holds(u, e) \/ e = Entry(r)
    BY <1>1, <1>5, <2>1, PutIn
  <2>3. Cache(t)
    BY <1>1, <2>2 DEF Cache
  <2> QED
    BY <1>1, <2>2, <2>3, Zenon
<1> QED
  BY <1>4, <1>5

(* A full cache holds ReplayCap different ids.                             *)
LEMMA Full ==
  ASSUME NEW s \in Seq(Entries), Distinct(s), Len(s) = ReplayCap,
         NEW T, IsFiniteSet(T), \A i \in DOMAIN s : s[i].id \in T
  PROVE  Cardinality(T) >= ReplayCap
<1> DEFINE f == [i \in 1 .. ReplayCap |-> s[i].id]
<1>1. DOMAIN s = 1 .. ReplayCap /\ ReplayCap \in Nat \ {0}
  BY LenProperties, WorkerAssumption
<1>2. IsFiniteSet(1 .. ReplayCap) /\ Cardinality(1 .. ReplayCap) = ReplayCap
  <2>1. 1 \in Int /\ ReplayCap \in Int /\ 1 <= ReplayCap
    BY <1>1
  <2>2. IsFiniteSet(1 .. ReplayCap) /\ Cardinality(1 .. ReplayCap) = ReplayCap - 1 + 1
    BY <2>1, FS_Interval
  <2> QED
    BY <2>1, <2>2
<1>3. f \in [1 .. ReplayCap -> T] /\ \A i, j \in 1 .. ReplayCap : f[i] = f[j] => i = j
  BY <1>1 DEF Distinct
<1>4. Cardinality(T) \in Nat
  BY FS_CardinalityType
<1> HIDE DEF f
<1>5. ~(Cardinality(T) < ReplayCap)
  BY <1>1, <1>2, <1>3, FS_PigeonHole
<1> QED
  BY <1>1, <1>4, <1>5

-----------------------------------------------------------------------------
(* What a step does to the replay caches: nothing but that ids expire and  *)
(* time passes; an id is remembered when its call is admitted, or claimed  *)
(* then and let go when the call returns.                                  *)
Ages ==
  \/ clock' = clock /\ (seen' = seen \/ seen' \in Unexpired)
  \/ clock' = clock + 1 /\ clock' \in 0 .. MaxClock /\ seen' = seen

Keeps ==
  /\ Ages /\ begun' = begun /\ kept' = kept
  /\ kind # "embed" => \A c \in Calls : Live(c)' => Live(c)
  /\ kind = "image" => /\ pending' = pending
                       /\ \A c \in Calls : Live(c) => Live(c)'
                       /\ \A c \in Calls : call'[c] = "returned" /\ Done(c)' => call[c] = "returned"

Enters(c) ==
  /\ kind \in {"stt", "tts"} /\ Admitting(c) /\ clock' = clock
  /\ \E s \in Unexpired : ~Remembers(s, rid[c]) /\ seen' = Put(s, rid[c])
  /\ begun' = [begun EXCEPT ![c] = clock] /\ kept' = [kept EXCEPT ![c] = clock]

Claiming(c) ==
  /\ kind = "image" /\ Admitting(c) /\ clock' = clock
  /\ seen' \in Unexpired /\ ~Remembers(seen', rid[c])
  /\ rid[c] \notin pending /\ pending' = pending \cup {rid[c]}
  /\ begun' = [begun EXCEPT ![c] = clock] /\ kept' = kept

Stores(c) == \E s \in Unexpired : seen' = Put(s, rid[c])

Releasing(c) ==
  /\ kind = "image" /\ Live(c) /\ call'[c] \in {"returned", "dropped"} /\ clock' = clock
  /\ \A b \in Calls \ {c} : call'[b] = call[b]
  /\ pending' = pending \ {rid[c]} /\ begun' = begun
  /\ \/ seen' = seen /\ kept' = kept /\ ~(call'[c] = "returned" /\ Done(c)')
     \/ /\ call[c] = "waiting" /\ call'[c] = "returned" /\ Done(c) /\ answer' = answer
        /\ Stores(c) /\ kept' = [kept EXCEPT ![c] = clock]

LEMMA Quiet ==
  ASSUME call' = call, UNCHANGED memory, kind = "image" => pending' = pending
  PROVE  Keeps
BY DEF Keeps, Ages, Live, memory

LEMMA QuietSteps ==
  ASSUME Starts \/ Restarts \/ Supervise \/ JobTimesOut \/ ReaderFaults \/ Emits \/ UNCHANGED wvars
  PROVE  call' = call /\ UNCHANGED memory
BY DEF Starts, Production, StartEnds, StartGivesUp, callers, wvars,
       Restarts, Stopping, RestartLaunches, RestartConfirms, RestartFails,
       Supervise, JobTimesOut, JobFails, Fatal, Spawn, StartupFrame, StartupFails, NotReady, Check,
       Advertise, LoopHead, TakeJob, IdleCheck, IdleDisconnected, WriteJob, AwaitFrame, Ending, Reap, Reply, SupGoes,
       ReaderFaults, Emits, WorkerReady, WorkerAnswers, WorkerRepeats, WorkerDies, Emit

LEMMA TimeSteps ==
  ASSUME Memory, TimePasses /\ UNCHANGED imageVars
  PROVE  Keeps
<1>1. clock' = clock + 1 /\ seen' = seen /\ begun' = begun /\ kept' = kept /\ call' = call /\ answer' = answer /\ pending' = pending
  BY DEF TimePasses, imageVars
<1>2. clock' \in 0 .. MaxClock
  BY WorkerAssumption DEF TimePasses, Memory
<1> QED
  BY <1>1, <1>2 DEF Keeps, Ages, Live, Done

LEMMA ServiceSteps ==
  ASSUME Called, NEW c \in Calls, Unhealthy(c) \/ Refused(c) \/ Send(c)
  PROVE  /\ UNCHANGED memory
         /\ \A b \in Calls : Live(b)' <=> Live(b)
         /\ \A b \in Calls : call'[b] = "returned" /\ Done(b)' => call[b] = "returned"
<1>1. CASE Send(c)
  <2>1. call[c] = "admitted" /\ call'[c] = "waiting" /\ UNCHANGED memory /\ \A b \in Calls \ {c} : call'[b] = call[b]
    BY <1>1 DEF Send, Called
  <2> QED
    BY <2>1 DEF Live
<1>2. CASE Unhealthy(c) \/ Refused(c)
  <2>1. /\ call[c] = "new" /\ call'[c] = "returned" /\ UNCHANGED memory /\ answer'[c].res # "ok"
        /\ \A b \in Calls \ {c} : call'[b] = call[b]
    BY <1>2 DEF Unhealthy, Refused, Begins, Returns, Called, Failed
  <2> QED
    BY <2>1 DEF Live, Done
<1> QED
  BY <1>1, <1>2

LEMMA GuestSteps ==
  ASSUME Called, NEW c \in Calls, SendFails(c) \/ Finish(c) \/ Drop(c)
  PROVE  UNCHANGED memory /\ \A b \in Calls : Live(b)' => Live(b)
<1>1. /\ call'[c] \in {"returned", "dropped"} /\ UNCHANGED memory
      /\ \A b \in Calls \ {c} : call'[b] = call[b]
  BY DEF SendFails, Finish, Drop, Returns, Called
<1> QED
  BY <1>1 DEF Live

LEMMA Unput == ASSUME Memory, Cache(seen), NEW s \in Unexpired, NEW r \in RequestIds, ~Remembers(s, r)
               PROVE  Put(s, r) = Append(Room(s), Entry(r))
<1>1. Cache(s)
  BY ExpiryMade
<1>2. ~Remembers(Room(s), r)
  <2>1. \A e : Holds(Room(s), e) => Holds(s, e)
    BY <1>1, RoomMade
  <2> QED
    BY <2>1, HeldRemembered, Zenon
<1> QED
  BY <1>2 DEF Put

LEMMA HiddenSteps ==
  ASSUME Called, Memory, Cache(seen), [Next]_vars, kind \in {"stt", "tts"}
  PROVE  Keeps \/ \E c \in Calls : Enters(c)
<1>1. ASSUME Starts \/ Restarts \/ Supervise \/ JobTimesOut \/ ReaderFaults \/ Emits \/ UNCHANGED wvars PROVE Keeps
  BY <1>1, QuietSteps, Quiet
<1>2. ASSUME NEW c \in Calls, Unhealthy(c) \/ Refused(c) \/ Send(c) \/ SendFails(c) \/ Finish(c) \/ Drop(c) PROVE Keeps
  BY <1>2, ServiceSteps, GuestSteps DEF Keeps, Ages, memory
<1>3. ASSUME NEW c \in Calls, SttReplayed(c) \/ TtsReplayed(c) PROVE Keeps
  <2>1. /\ call'[c] = "returned" /\ \A b \in Calls \ {c} : call'[b] = call[b]
        /\ clock' = clock /\ seen' \in Unexpired /\ begun' = begun /\ kept' = kept
    BY <1>3 DEF SttReplayed, TtsReplayed, Returns, Called
  <2> QED
    BY <2>1 DEF Keeps, Ages, Live
<1>4. ASSUME NEW c \in Calls, SttAdmit(c) \/ TtsAdmit(c) PROVE Enters(c)
  <2>1. rid[c] \in RequestIds
    BY DEF Called
  <2>2. \E s \in Unexpired : ~Remembers(s, rid[c]) /\ seen' = Append(Room(s), Entry(rid[c]))
    BY <1>4 DEF SttAdmit, TtsAdmit, SttRemember, TtsRemember
  <2>3. \E s \in Unexpired : ~Remembers(s, rid[c]) /\ seen' = Put(s, rid[c])
    BY <2>1, <2>2, Unput
  <2> QED
    BY <1>4, <2>3, CallSteps DEF SttAdmit, TtsAdmit, Enters
<1>5. CASE kind = "stt" /\ SttNext
  <2>1. CASE SttProduction \/ SttStart \/ SttRestart \/ SttSupervise \/ SttReader
    <3>1. RestartStops /\ Charged => Restarts
      BY DEF RestartStops, Restarts, Stopping
    <3>2. Starts \/ Restarts \/ Supervise \/ JobTimesOut \/ ReaderFaults \/ UNCHANGED wvars
      BY <2>1, <3>1 DEF SttProduction, SttStart, SttRestart, SttSupervise, SttReader, RestartRefused, Starts, Restarts,
           SttSpawn, SttReady, SttAdvertise, SttLoop, SttWrite, SttResult, SttGivesUp, Supervise
    <3> QED
      BY <1>1, <3>2
  <2>2. CASE Transcribe
    BY <1>2, <1>3, <1>4, <2>2 DEF Transcribe
  <2> QED
    BY <1>5, <2>1, <2>2 DEF SttNext
<1>6. CASE kind = "tts" /\ TtsNext
  <2>1. CASE TtsProduction \/ TtsStart \/ TtsRestart \/ TtsSupervise \/ TtsReader
    <3>1. RestartStops /\ Charged => Restarts
      BY DEF RestartStops, Restarts, Stopping
    <3>2. Starts \/ Restarts \/ Supervise \/ JobTimesOut \/ ReaderFaults \/ UNCHANGED wvars
      BY <2>1, <3>1 DEF TtsProduction, TtsStart, TtsRestart, TtsSupervise, TtsReader, RestartRefused, Starts, Restarts,
           TtsSpawn, TtsReady, TtsAdvertise, TtsLoop, TtsWrite, TtsResult, TtsGivesUp, Supervise
    <3> QED
      BY <1>1, <3>2
  <2>2. CASE Speak
    BY <1>2, <1>3, <1>4, <2>2 DEF Speak
  <2> QED
    BY <1>6, <2>1, <2>2 DEF TtsNext
<1>7. CASE Worker \/ UNCHANGED vars
  BY <1>1, <1>7 DEF Worker, Emits, vars
<1>8. CASE TimePasses /\ UNCHANGED imageVars
  BY <1>8, TimeSteps
<1> QED
  BY <1>5, <1>6, <1>7, <1>8 DEF Next

LEMMA OpenSteps ==
  ASSUME [Next]_vars, kind = "embed"
  PROVE  Keeps
<1>1. UNCHANGED memory
  <2>1. CASE EmbedNext
    BY <2>1, QuietSteps DEF EmbedNext, EmbedRestart, RestartRefused, RestartStops, Starts, Restarts, callers,
       Embed, Unhealthy, Refused, Admit, Send, SendFails, Finish, Drop
  <2>2. CASE Worker \/ UNCHANGED vars
    BY <2>2, QuietSteps DEF Worker, Emits, vars
  <2>3. ~TimePasses
    BY DEF TimePasses
  <2> QED
    BY <2>1, <2>2, <2>3 DEF Next
<1> QED
  BY <1>1 DEF Keeps, Ages, memory

LEMMA ClaimedSteps ==
  ASSUME Called, Memory, [Next]_vars, kind = "image"
  PROVE  Keeps \/ \E c \in Calls : Claiming(c) \/ Releasing(c)
<1>1. ASSUME Starts \/ Restarts \/ Supervise \/ JobTimesOut \/ ReaderFaults \/ Emits \/ UNCHANGED wvars, pending' = pending
      PROVE  Keeps
  BY <1>1, QuietSteps, Quiet
<1>2. ASSUME NEW c \in Calls, Unhealthy(c) \/ Refused(c) \/ Send(c), pending' = pending PROVE Keeps
  BY <1>2, ServiceSteps DEF Keeps, Ages, memory
<1>3. ASSUME NEW c \in Calls, ImageReplayed(c) PROVE Keeps
  <2>1. /\ call[c] = "new" /\ call'[c] = "returned" /\ pending' = pending /\ answer'[c].res # "ok"
        /\ clock' = clock /\ seen' \in Unexpired /\ begun' = begun /\ kept' = kept
        /\ \A b \in Calls \ {c} : call'[b] = call[b]
    BY <1>3 DEF ImageReplayed, Begins, Returns, Called, Replay, imageVars
  <2> QED
    BY <2>1 DEF Keeps, Ages, Live, Done
<1>4. ASSUME NEW c \in Calls, ImageAdmit(c) PROVE Claiming(c)
  <2>1. seen' \in Unexpired /\ ~Remembers(seen', rid[c]) /\ rid[c] \notin pending
    BY <1>4 DEF ImageAdmit, Taken
  <2> QED
    BY <1>4, <2>1, CallSteps DEF ImageAdmit, Claiming
<1>5. ASSUME NEW c \in Calls, NEW s \in BOOLEAN, Release(c, s)
      PROVE  /\ pending' = pending \ {rid[c]}
             /\ ~s => seen' = seen /\ kept' = kept
             /\ s => Stores(c) /\ kept' = [kept EXCEPT ![c] = clock]
  BY <1>5, Zenon DEF Release, Stores, Put
<1>6. ASSUME NEW c \in Calls, ImageSendFails(c) PROVE Releasing(c)
  <2>1. /\ call[c] = "admitted" /\ call'[c] = "returned" /\ answer'[c].res # "ok" /\ clock' = clock /\ begun' = begun
        /\ \A b \in Calls \ {c} : call'[b] = call[b]
    BY <1>6 DEF ImageSendFails, Returns, Called, Failed
  <2>2. pending' = pending \ {rid[c]} /\ seen' = seen /\ kept' = kept
    BY <1>5, <1>6 DEF ImageSendFails
  <2> QED
    BY <2>1, <2>2 DEF Releasing, Live, Done
<1>7. ASSUME NEW c \in Calls, ImageDrop(c) PROVE Releasing(c)
  <2>1. /\ call[c] = "waiting" /\ call'[c] = "dropped" /\ clock' = clock /\ begun' = begun
        /\ \A b \in Calls \ {c} : call'[b] = call[b]
    BY <1>7 DEF ImageDrop, Called
  <2>2. pending' = pending \ {rid[c]} /\ seen' = seen /\ kept' = kept
    BY <1>5, <1>7 DEF ImageDrop
  <2> QED
    BY <2>1, <2>2 DEF Releasing, Live, Done
<1>8. ASSUME NEW c \in Calls, ImageFinish(c) PROVE Releasing(c)
  <2>1. /\ call[c] = "waiting" /\ call'[c] = "returned" /\ answer' = answer /\ clock' = clock /\ begun' = begun
        /\ \A b \in Calls \ {c} : call'[b] = call[b]
    BY <1>8 DEF ImageFinish, Called
  <2>2. Release(c, answer[c].res = "ok")
    BY <1>8 DEF ImageFinish
  <2>3. CASE answer[c].res = "ok"
    <3>1. Release(c, TRUE)
      BY <2>2, <2>3, Zenon
    <3>2. pending' = pending \ {rid[c]} /\ Stores(c) /\ kept' = [kept EXCEPT ![c] = clock]
      BY <1>5, <3>1, Zenon
    <3> QED
      BY <2>1, <2>3, <3>2 DEF Releasing, Live, Done
  <2>4. CASE answer[c].res # "ok"
    <3>1. Release(c, FALSE)
      BY <2>2, <2>4, Zenon
    <3>2. pending' = pending \ {rid[c]} /\ seen' = seen /\ kept' = kept
      BY <1>5, <3>1, Zenon
    <3> QED
      BY <2>1, <2>4, <3>2 DEF Releasing, Live, Done
  <2> QED
    BY <2>3, <2>4
<1>9. CASE ImageNext
  <2>1. CASE ImageProduction \/ ImageStart \/ ImageReader
    BY <1>1, <2>1 DEF ImageProduction, ImageStart, ImageReader, Starts, imageVars
  <2>2. CASE Generate
    BY <1>2, <1>3, <1>4, <2>2 DEF Generate, imageVars
  <2>3. CASE Dispatch
    BY <1>2, <1>6, <1>7, <1>8, <2>3 DEF Dispatch, imageVars
  <2>4. CASE ImageRestart
    <3>1. (Restarts \/ UNCHANGED wvars) /\ pending' = pending
      BY <2>4 DEF ImageRestart, Park, AfterTimeout, AfterCrash, RestartStops, Restarts, Stopping, imageVars
    <3> QED
      BY <1>1, <3>1
  <2>5. CASE ImageSupervise
    <3>1. (Supervise \/ JobTimesOut) /\ pending' = pending
      BY <2>5 DEF ImageSupervise, ImageSpawn, ImageReady, ImageAdvertise, ImageLoop, ImageWrite, ImageReply,
                  ImageGivesUp, ImageTimesOut, Supervise, imageVars
    <3> QED
      BY <1>1, <3>1
  <2> QED
    BY <1>9, <2>1, <2>2, <2>3, <2>4, <2>5 DEF ImageNext
<1>10. CASE Worker \/ UNCHANGED vars
  BY <1>1, <1>10 DEF Worker, Emits, vars, imageVars
<1>11. CASE TimePasses /\ UNCHANGED imageVars
  BY <1>11, TimeSteps
<1> QED
  BY <1>9, <1>10, <1>11 DEF Next

LEMMA CacheSteps ==
  ASSUME kind \in Kinds, Called, Memory, Cache(seen), [Next]_vars
  PROVE  Keeps \/ \E c \in Calls : Enters(c) \/ Claiming(c) \/ Releasing(c)
BY HiddenSteps, OpenSteps, ClaimedSteps DEF Kinds

(* What becomes of the cache in a step, whatever the engine.               *)
LEMMA CacheMoves ==
  ASSUME kind \in Kinds, Called, Memory, Cache(seen), [Next]_vars
  PROVE  Ages \/ \E c \in Calls : Stores(c) /\ clock' = clock
<1>1. ASSUME NEW c \in Calls, Enters(c) \/ Claiming(c) \/ Releasing(c)
      PROVE  Ages \/ (Stores(c) /\ clock' = clock)
  BY <1>1 DEF Enters, Claiming, Releasing, Stores, Ages
<1> QED
  BY <1>1, CacheSteps DEF Keeps

(* The cache keeps its type, its order, and no id twice.                   *)
LEMMA CacheStep ==
  ASSUME kind \in Kinds, Called, Memory, Cache(seen), [Next]_vars
  PROVE  Cache(seen)'
<1>1. ASSUME Cache(seen'), clock' = clock PROVE Cache(seen)'
  BY <1>1 DEF Cache, Past, Distinct, Ordered
<1>2. CASE clock' = clock /\ (seen' = seen \/ seen' \in Unexpired)
  BY <1>1, <1>2, ExpiryMade
<1>3. CASE clock' = clock + 1 /\ seen' = seen
  <2>1. seen \in Seq(Entries) /\ DOMAIN seen = 1 .. Len(seen) /\ clock \in Int /\ \A i \in DOMAIN seen : seen[i].at \in Int
    <3>1. seen \in Seq(Entries) /\ DOMAIN seen = 1 .. Len(seen)
      BY LenProperties DEF Memory
    <3>2. \A i \in DOMAIN seen : seen[i] \in Entries
      BY <3>1, ElementOfSeq
    <3> QED
      BY <3>1, <3>2 DEF Memory, Entries
  <2>2. Past(seen)'
    <3> SUFFICES ASSUME NEW i \in DOMAIN seen PROVE seen[i].at <= clock + 1
      BY <1>3 DEF Past
    <3>1. seen[i].at <= clock
      BY DEF Cache, Past
    <3> QED
      BY <2>1, <3>1
  <2>3. (seen \in Seq(Entries) /\ Len(seen) <= ReplayCap /\ Distinct(seen) /\ Ordered(seen))'
    BY <1>3 DEF Cache, Distinct, Ordered
  <2> QED
    BY <2>2, <2>3 DEF Cache
<1>4. ASSUME NEW c \in Calls, Stores(c), clock' = clock PROVE Cache(seen)'
  <2>1. PICK s \in Unexpired : seen' = Put(s, rid[c])
    BY <1>4 DEF Stores
  <2>2. Cache(s) /\ rid[c] \in RequestIds
    BY ExpiryMade DEF Called
  <2>3. Cache(seen')
    BY <2>1, <2>2, PutMade
  <2> QED
    BY <1>1, <1>4, <2>3
<1> QED
  BY <1>2, <1>3, <1>4, CacheMoves DEF Ages

LEMMA MemoryStep ==
  ASSUME kind \in Kinds, Called, Memory, Cache(seen), [Next]_vars
  PROVE  Memory'
<1>1. seen' \in Seq(Entries) /\ Len(seen') <= ReplayCap
  BY CacheStep DEF Cache
<1>2. clock' \in 0 .. MaxClock
  BY CacheMoves DEF Ages, Memory
<1>3. /\ begun' = begun \/ \E c \in Calls : begun' = [begun EXCEPT ![c] = clock]
      /\ kept' = kept \/ \E c \in Calls : kept' = [kept EXCEPT ![c] = clock]
  BY CacheSteps DEF Keeps, Enters, Claiming, Releasing
<1>4. clock \in Never .. MaxClock
  BY DEF Memory, Never
<1>5. begun' \in [Calls -> Never .. MaxClock] /\ kept' \in [Calls -> Never .. MaxClock]
  BY <1>3, <1>4 DEF Memory
<1> QED
  BY <1>1, <1>2, <1>5 DEF Memory

LEMMA PendingStep ==
  ASSUME kind \in Kinds, Called, Memory, pending \subseteq RequestIds, [Next]_vars
  PROVE  pending' \subseteq RequestIds
<1>1. CASE kind # "image"
  <2>1. pending' = pending
    BY <1>1 DEF Next, Worker, vars, imageVars
  <2> QED
    BY <2>1
<1>2. CASE kind = "image"
  <2>1. pending' = pending \/ \E c \in Calls : pending' = pending \cup {rid[c]} \/ pending' = pending \ {rid[c]}
    BY <1>2, ClaimedSteps DEF Keeps, Claiming, Releasing
  <2> QED
    BY <2>1 DEF Called
<1> QED
  BY <1>1, <1>2

-----------------------------------------------------------------------------
(* The types, and with them the faults and the bounded memory.             *)
Typed == Blamed /\ Memory /\ Cache(seen) /\ pending \subseteq RequestIds

LEMMA TypedInit == Init => Typed
<1> SUFFICES ASSUME Init PROVE Typed
  OBVIOUS
<1>1. /\ seen = <<>> /\ pending = {} /\ clock = 0
      /\ begun = [c \in Calls |-> Never] /\ kept = [c \in Calls |-> Never]
  BY DEF Init, WorkerInit, ImageInit
<1>2. Len(<<>>) = 0 /\ DOMAIN <<>> = {} /\ <<>> \in Seq(Entries)
  OBVIOUS
<1>3. Never \in Never .. MaxClock /\ 0 \in 0 .. MaxClock /\ ReplayCap \in Nat
  BY WorkerAssumption DEF Never
<1>4. Memory
  BY <1>1, <1>2, <1>3 DEF Memory
<1>5. Cache(seen)
  BY <1>1, <1>2, <1>3 DEF Cache, Distinct, Ordered, Past
<1> QED
  BY <1>1, <1>4, <1>5, BlamedInit DEF Typed

LEMMA TypedStep == Typed /\ [Next]_vars => Typed'
<1> SUFFICES ASSUME Typed, [Next]_vars PROVE Typed'
  OBVIOUS
<1>1. kind \in Kinds /\ Called /\ Memory /\ Cache(seen) /\ pending \subseteq RequestIds
  BY DEF Typed, Blamed, Common, Threads
<1>2. Memory' /\ Cache(seen)' /\ pending' \subseteq RequestIds
  BY <1>1, MemoryStep, CacheStep, PendingStep
<1>3. Blamed'
  BY BlamedStep DEF Typed
<1> QED
  BY <1>2, <1>3 DEF Typed

LEMMA TypedHolds == Spec => []Typed
BY TypedInit, TypedStep, PTL DEF Spec

(* Every variable keeps to its type: the channel holds one job at most, a  *)
(* reader no more frames than fit, the cache no more ids, and no more      *)
(* restarts or consecutive timeouts are counted than are allowed.          *)
THEOREM TypeCorrect == Spec => []TypeOK
<1>1. Typed => TypeOK
  <2> SUFFICES ASSUME Typed PROVE TypeOK
    OBVIOUS
  <2>1. WorkerTypeOK
    BY WorkerTypes DEF Typed, Blamed, Common
  <2>2. late \in 0 .. MaxCalls
    <3>1. late \in Nat /\ late <= Cardinality(Unserved) /\ MaxCalls \in Nat
      BY WorkerAssumption DEF Typed, Blamed, Numbers, Faulted
    <3> QED
      BY <3>1, UnservedCounted
  <2>3. ImageTypeOK
    BY <2>2 DEF ImageTypeOK, Typed, Blamed, Marks, Numbers
  <2> QED
    BY <2>1, <2>3 DEF TypeOK
<1> QED
  BY <1>1, TypedHolds, PTL

-----------------------------------------------------------------------------
(* The life of a call, in one step.                                        *)
LEMMA CallMoves ==
  ASSUME Called, Step, NEW c \in Calls
  PROVE  /\ rid' = rid
         /\ Live(c)' => Live(c) \/ Admitting(c)
         /\ call'[c] = "dropped" => call[c] = "dropped" \/ Live(c)
         /\ call[c] # "new" => call'[c] # "new"
         /\ call[c] = "returned" => call'[c] = "returned"
         /\ call[c] = "waiting" /\ answer[c] # Unanswered => call'[c] \in {"waiting", "returned"}
<1>1. rid' = rid /\ (call' = call \/ \E b \in Calls : Admitting(b) \/ Rejecting(b) \/ Send(b) \/ Leaving(b))
  BY CallStep
<1>2. CASE call' = call
  BY <1>1, <1>2 DEF Live
<1>3. ASSUME NEW b \in Calls, Admitting(b) \/ Rejecting(b) \/ Send(b) \/ Leaving(b)
      PROVE  /\ Live(c)' => Live(c) \/ Admitting(c)
             /\ call'[c] = "dropped" => call[c] = "dropped" \/ Live(c)
             /\ call[c] # "new" => call'[c] # "new"
             /\ call[c] = "returned" => call'[c] = "returned"
             /\ call[c] = "waiting" /\ answer[c] # Unanswered => call'[c] \in {"waiting", "returned"}
  <2>1. b # c => call'[c] = call[c]
    BY <1>3 DEF Admitting, Rejecting, Send, Leaving, Returns, Called
  <2>2. /\ Admitting(b) => call[b] = "new" /\ call'[b] = "admitted"
        /\ Rejecting(b) => call[b] \in {"new", "admitted"} /\ call'[b] = "returned"
        /\ Send(b) => call[b] = "admitted" /\ call'[b] = "waiting"
        /\ Leaving(b) => call[b] = "waiting" /\ call'[b] \in {"returned", "dropped"}
                         /\ (answer[b] # Unanswered => call'[b] = "returned")
    BY <1>3 DEF Admitting, Rejecting, Send, Leaving, Returns, Called
  <2> QED
    BY <1>3, <2>1, <2>2 DEF Live
<1> QED
  BY <1>1, <1>2, <1>3

(* A call is served while it waits.                                        *)
LEMMA ServedMoves ==
  ASSUME Called, InHand, Jobs, Step, NEW c \in Calls
  PROVE  /\ Done(c) => Done(c)' /\ answer[c] # Unanswered
         /\ Done(c)' => Done(c) \/ (call[c] = "waiting" /\ call'[c] = "waiting")
<1>1. Unanswered.res # "ok" /\ Failed.res # "ok" /\ Replay.res # "ok"
  BY DEF Unanswered, Failed, Replay
<1>2. Done(c) => Done(c)' /\ answer[c] # Unanswered
  BY <1>1, AnswersStay DEF Done
<1>3. ASSUME Done(c)', ~Done(c) PROVE call[c] = "waiting" /\ call'[c] = "waiting"
  <2>1. answer' # answer
    BY <1>3 DEF Done
  <2>2. ~Reap
    BY <1>1, <1>3 DEF Reap, DropQueue, Done, Called
  <2>3. ASSUME NEW b \in Calls, Rejecting(b) PROVE FALSE
    BY <1>1, <1>3, <2>3 DEF Rejecting, Returns, Done, Called
  <2>4. PICK a : Answering(a)
    BY <2>1, <2>2, <2>3, AnswerStep
  <2>5. c = job /\ call[c] # "dropped"
    BY <1>3, <2>1, <2>4 DEF Answering, Done, Called, InHand
  <2>6. call[c] = "waiting"
    BY <2>5 DEF Jobs
  <2>7. call' = call
    <3>1. ASSUME NEW b \in Calls, Admitting(b) \/ Rejecting(b) \/ Send(b) \/ Leaving(b) PROVE FALSE
      BY <2>1, <2>3, <3>1 DEF Admitting, Send, Leaving
    <3> QED
      BY <3>1, CallStep
  <2> QED
    BY <2>6, <2>7
<1> QED
  BY <1>2, <1>3

(* The image engine's claims: what it is busy with, and only that; and no  *)
(* claimed id is remembered.                                               *)
LEMMA ClaimsStep ==
  ASSUME kind \in Kinds, Called, Memory, Cache(seen), InHand, Jobs, Claims, [Next]_vars
  PROVE  Claims'
<1> SUFFICES ASSUME kind = "image"
             PROVE  /\ \A r \in pending' : \E c \in Calls : Live(c)' /\ rid'[c] = r
                    /\ \A r \in pending' : ~Remembers(seen', r)
                    /\ \A c \in Calls : Live(c)' => rid'[c] \in pending'
                    /\ \A b, c \in Calls : Live(b)' /\ Live(c)' /\ rid'[b] = rid'[c] => b = c
                    /\ \A c \in Calls : Done(c)' => call'[c] \in {"waiting", "returned"}
  BY KindStays DEF Claims
<1>1. Step
  BY Steps
<1>2. /\ \A r \in pending : \E c \in Calls : Live(c) /\ rid[c] = r
      /\ \A r \in pending : ~Remembers(seen, r)
      /\ \A c \in Calls : Live(c) => rid[c] \in pending
      /\ \A b, c \in Calls : Live(b) /\ Live(c) /\ rid[b] = rid[c] => b = c
      /\ \A c \in Calls : Done(c) => call[c] \in {"waiting", "returned"}
  BY DEF Claims
<1>3. \A c \in Calls : Done(c)' => call'[c] \in {"waiting", "returned"}
  BY <1>1, <1>2, CallMoves, ServedMoves
<1>4. rid' = rid
  BY <1>1, CallStep
<1>5. ASSUME NEW s \in Unexpired, NEW r, Remembers(s, r) PROVE Remembers(seen, r)
  BY <1>5, ExpiryMade, HeldRemembered, Zenon
<1>6. CASE Keeps
  <2>1. pending' = pending /\ \A c \in Calls : Live(c)' <=> Live(c)
    BY <1>6 DEF Keeps
  <2>2. \A r \in pending' : ~Remembers(seen', r)
    BY <1>2, <1>5, <1>6, <2>1 DEF Keeps, Ages
  <2> QED
    BY <1>2, <1>3, <1>4, <2>1, <2>2
<1>7. ASSUME NEW c \in Calls, Claiming(c)
      PROVE  /\ \A r \in pending' : \E b \in Calls : Live(b)' /\ rid'[b] = r
             /\ \A r \in pending' : ~Remembers(seen', r)
             /\ \A b \in Calls : Live(b)' => rid'[b] \in pending'
             /\ \A a, b \in Calls : Live(a)' /\ Live(b)' /\ rid'[a] = rid'[b] => a = b
  <2>1. /\ pending' = pending \cup {rid[c]} /\ rid[c] \notin pending
        /\ seen' \in Unexpired /\ ~Remembers(seen', rid[c])
    BY <1>7 DEF Claiming
  <2>2. Live(c)' /\ ~Live(c) /\ \A b \in Calls \ {c} : Live(b)' <=> Live(b)
    BY <1>7 DEF Claiming, Admitting, Live, Called
  <2>3. \A r \in pending' : ~Remembers(seen', r)
    BY <1>2, <1>5, <2>1
  <2> QED
    BY <1>2, <1>4, <2>1, <2>2, <2>3
<1>8. ASSUME NEW c \in Calls, Releasing(c)
      PROVE  /\ \A r \in pending' : \E b \in Calls : Live(b)' /\ rid'[b] = r
             /\ \A r \in pending' : ~Remembers(seen', r)
             /\ \A b \in Calls : Live(b)' => rid'[b] \in pending'
             /\ \A a, b \in Calls : Live(a)' /\ Live(b)' /\ rid'[a] = rid'[b] => a = b
  <2>1. pending' = pending \ {rid[c]} /\ Live(c) /\ ~Live(c)' /\ \A b \in Calls \ {c} : Live(b)' <=> Live(b)
    BY <1>8 DEF Releasing, Live
  <2>2. ASSUME NEW r \in pending', Remembers(seen', r) PROVE FALSE
    <3>1. r \in pending /\ r # rid[c]
      BY <2>1
    <3>2. CASE seen' = seen
      BY <1>2, <2>2, <3>1, <3>2
    <3>3. ASSUME NEW s \in Unexpired, seen' = Put(s, rid[c]) PROVE FALSE
      <4>1. Cache(s) /\ rid[c] \in RequestIds
        BY ExpiryMade DEF Called
      <4>2. \A e : Holds(seen', e) => Holds(s, e) \/ e = Entry(rid[c])
        BY <3>3, <4>1, PutMade
      <4>3. Entry(rid[c]).id = rid[c]
        BY DEF Entry
      <4>4. Remembers(s, r)
        BY <2>2, <3>1, <4>2, <4>3, HeldRemembered, Zenon
      <4> QED
        BY <1>2, <1>5, <3>1, <4>4
    <3> QED
      BY <1>8, <3>2, <3>3 DEF Releasing, Stores
  <2> QED
    BY <1>2, <1>4, <2>1, <2>2
<1> QED
  BY <1>3, <1>6, <1>7, <1>8, ClaimedSteps

-----------------------------------------------------------------------------
(* The history of the caches: a call got past when it was admitted, and its*)
(* id was put there then, or in the image engine when it was served.       *)
Filed ==
  /\ \A c \in Calls : begun[c] # Never => call[c] # "new"
  /\ \A c \in Calls : kept[c] # Never => IF kind = "image" THEN call[c] = "returned" /\ Done(c) ELSE call[c] # "new"
  /\ \A c \in Calls : kept[c] # Never => kept[c] <= clock

(* What is remembered was put there; what was is remembered until a window *)
(* has passed, or so many others were put there that there is no more room;*)
(* and a second call came then.                                            *)
Known == \A e : Holds(seen, e) => \E d \in Calls : kept[d] = e.at /\ rid[d] = e.id
Crowded(r) == Cardinality(Others(r)) >= ReplayCap
Gone(c) == clock >= kept[c] + ReplayWindow
Recalled ==
  \A c \in Calls : Once(c) =>
    kept[c] # Never /\ (Gone(c) \/ Crowded(rid[c]) \/ Holds(seen, [id |-> rid[c], at |-> kept[c]]))
Spaced(b, c) == Crowded(rid[b]) \/ WindowPassed(b, c) \/ WindowPassed(c, b)
Aged == \A b, c \in Calls : b # c /\ rid[b] = rid[c] /\ Once(b) /\ (Live(c) \/ Done(c)) => Spaced(b, c)
Recollection == kind # "embed" => Filed /\ Known /\ Recalled /\ Aged

LEMMA OthersFinite ==
  ASSUME NEW S \in SUBSET Calls, NEW f \in [Calls -> RequestIds], NEW r
  PROVE  IsFiniteSet({f[d] : d \in S} \ {r})
<1> DEFINE T == {f[d] : d \in S}
           g == [d \in S |-> f[d]]
<1>1. g \in Surjection(S, T)
  BY DEF Surjection
<1>2. IsFiniteSet(S)
  BY CallsCounted
<1>3. IsFiniteSet(T)
  BY <1>1, <1>2, FS_Surjection
<1> HIDE DEF T
<1>4. T \ {r} \in SUBSET T
  OBVIOUS
<1>5. IsFiniteSet(T \ {r})
  BY <1>3, <1>4, FS_Subset
<1> QED
  BY <1>5 DEF T

LEMMA OthersCounted ==
  ASSUME Called, Called', NEW r
  PROVE  IsFiniteSet(Others(r)) /\ IsFiniteSet(Others(r)') /\ Cardinality(Others(r)) \in Nat
         /\ Cardinality(Others(r)') \in Nat
<1>1. Entered \in SUBSET Calls /\ Entered' \in SUBSET Calls
  BY DEF Entered
<1>2. rid \in [Calls -> RequestIds] /\ rid' \in [Calls -> RequestIds]
  BY DEF Called
<1>3. IsFiniteSet(Others(r)) /\ IsFiniteSet(Others(r)')
  BY <1>1, <1>2, OthersFinite DEF Others
<1> QED
  BY <1>3, FS_CardinalityType

(* The history is written once.                                            *)
LEMMA HistoryStays ==
  ASSUME kind \in Kinds, kind # "embed", Called, Memory, Cache(seen), Filed, [Next]_vars, NEW c \in Calls
  PROVE  /\ rid'[c] = rid[c]
         /\ kept[c] # Never => kept'[c] = kept[c]
         /\ begun[c] # Never => begun'[c] = begun[c]
<1>1. rid' = rid
  BY Steps, CallStep
<1>2. ASSUME Keeps PROVE (kept[c] # Never => kept'[c] = kept[c]) /\ (begun[c] # Never => begun'[c] = begun[c])
  BY <1>2 DEF Keeps
<1>3. ASSUME NEW a \in Calls, Enters(a) PROVE (kept[c] # Never => kept'[c] = kept[c]) /\ (begun[c] # Never => begun'[c] = begun[c])
  <2>1. call[a] = "new" /\ kept' = [kept EXCEPT ![a] = clock] /\ begun' = [begun EXCEPT ![a] = clock] /\ kind # "image"
    BY <1>3 DEF Enters, Admitting
  <2>2. kept[a] = Never /\ begun[a] = Never
    BY <2>1 DEF Filed
  <2> QED
    BY <2>1, <2>2 DEF Memory
<1>4. ASSUME NEW a \in Calls, Claiming(a) PROVE (kept[c] # Never => kept'[c] = kept[c]) /\ (begun[c] # Never => begun'[c] = begun[c])
  <2>1. call[a] = "new" /\ kept' = kept /\ begun' = [begun EXCEPT ![a] = clock]
    BY <1>4 DEF Claiming, Admitting
  <2>2. begun[a] = Never
    BY <2>1 DEF Filed
  <2> QED
    BY <2>1, <2>2 DEF Memory
<1>5. ASSUME NEW a \in Calls, Releasing(a) PROVE (kept[c] # Never => kept'[c] = kept[c]) /\ (begun[c] # Never => begun'[c] = begun[c])
  <2>1. kind = "image" /\ Live(a) /\ begun' = begun /\ (kept' = kept \/ kept' = [kept EXCEPT ![a] = clock])
    BY <1>5 DEF Releasing
  <2>2. kept[a] = Never
    BY <2>1 DEF Filed, Live
  <2> QED
    BY <2>1, <2>2 DEF Memory
<1> QED
  BY <1>1, <1>2, <1>3, <1>4, <1>5, CacheSteps

LEMMA EnteredGrows ==
  ASSUME kind \in Kinds, kind # "embed", Called, Memory, Cache(seen), Filed, [Next]_vars
  PROVE  Entered \subseteq Entered' /\ rid' = rid
<1>1. rid' = rid
  BY Steps, CallStep
<1> QED
  BY <1>1, HistoryStays DEF Entered

LEMMA CrowdedStays ==
  ASSUME kind \in Kinds, kind # "embed", Called, InHand, Memory, Cache(seen), Filed, [Next]_vars, NEW r, Crowded(r)
  PROVE  Crowded(r)'
<1>1. Called'
  BY Steps, CalledStep
<1>2. Others(r) \subseteq Others(r)'
  BY EnteredGrows DEF Others
<1>3. Cardinality(Others(r)) <= Cardinality(Others(r)')
  BY <1>1, <1>2, OthersCounted, FS_Subset
<1>4. Cardinality(Others(r)) \in Nat /\ Cardinality(Others(r)') \in Nat /\ ReplayCap \in Nat
  BY <1>1, OthersCounted, WorkerAssumption
<1> QED
  BY <1>3, <1>4 DEF Crowded

(* An id that a full cache does not hold has been displaced by others.     *)
LEMMA Displaced ==
  ASSUME Called, Called', Memory', Cache(seen)', Known', Len(seen') = ReplayCap,
         NEW r, ~Remembers(seen', r)
  PROVE  Crowded(r)'
<1>1. ASSUME NEW i \in DOMAIN seen' PROVE seen'[i].id \in Others(r)'
  <2>1. seen'[i].id # r /\ Holds(seen', seen'[i])
    BY DEF Remembers, Holds
  <2>2. seen'[i] \in Entries
    BY ElementOfSeq, LenProperties DEF Memory
  <2>3. seen'[i].at # Never
    BY <2>2 DEF Entries, Never
  <2>4. PICK d \in Calls : kept'[d] = seen'[i].at /\ rid'[d] = seen'[i].id
    BY <2>1 DEF Known
  <2> QED
    BY <2>1, <2>3, <2>4 DEF Others, Entered
<1>2. IsFiniteSet(Others(r)')
  BY OthersCounted
<1>3. seen' \in Seq(Entries) /\ Len(seen') = ReplayCap /\ Distinct(seen')
  BY DEF Cache, Distinct
<1>4. Cardinality(Others(r)') >= ReplayCap
  BY <1>1, <1>2, <1>3, Full
<1> QED
  BY <1>4 DEF Crowded

LEMMA OneEnters ==
  ASSUME Called, NEW a \in Calls, NEW b \in Calls, Admitting(a), Admitting(b)
  PROVE  a = b
BY DEF Admitting, Called

(* Who entered an id in this step.                                         *)
LEMMA FiledStep ==
  ASSUME kind \in Kinds, kind # "embed", Called, InHand, Jobs, Memory, Cache(seen), Filed, [Next]_vars
  PROVE  Filed'
<1>1. kind' = kind /\ rid' = rid /\ Step
  BY KindStays, Steps, CallStep
<1>2. \A c \in Calls : /\ call[c] # "new" => call'[c] # "new"
                       /\ call[c] = "returned" => call'[c] = "returned"
                       /\ Done(c) => Done(c)'
  BY <1>1, CallMoves, ServedMoves
<1>3. clock \in Int /\ clock' \in Int /\ clock <= clock' /\ \A c \in Calls : kept[c] \in Int
  <2>1. clock' = clock \/ clock' = clock + 1
    BY CacheMoves DEF Ages
  <2>2. clock \in Int /\ \A c \in Calls : kept[c] \in Never .. MaxClock
    BY DEF Memory
  <2> QED
    BY <2>1, <2>2
<1>4. ASSUME NEW c \in Calls, begun'[c] # Never PROVE call'[c] # "new"
  <2>1. CASE begun'[c] = begun[c]
    BY <1>2, <1>4, <2>1 DEF Filed
  <2>2. CASE begun'[c] # begun[c]
    <3>1. PICK a \in Calls : Admitting(a) /\ begun' = [begun EXCEPT ![a] = clock]
      BY <2>2, CacheSteps DEF Keeps, Enters, Claiming, Releasing
    <3>2. a = c
      BY <2>2, <3>1 DEF Memory
    <3> QED
      BY <3>1, <3>2 DEF Admitting, Called
  <2> QED
    BY <2>1, <2>2
<1>5. ASSUME NEW c \in Calls, kept'[c] # Never
      PROVE  (IF kind = "image" THEN call'[c] = "returned" /\ Done(c)' ELSE call'[c] # "new") /\ kept'[c] <= clock'
  <2>1. CASE kept'[c] = kept[c]
    BY <1>2, <1>3, <1>5, <2>1 DEF Filed
  <2>2. CASE kept'[c] # kept[c]
    <3>1. PICK a \in Calls : (Enters(a) \/ Releasing(a)) /\ kept' = [kept EXCEPT ![a] = clock] /\ clock' = clock
      BY <2>2, CacheSteps DEF Keeps, Enters, Claiming, Releasing
    <3>2. a = c /\ kept'[c] = clock
      BY <2>2, <3>1 DEF Memory
    <3>3. CASE Enters(c)
      BY <1>3, <3>1, <3>2, <3>3 DEF Enters, Admitting, Called
    <3>4. CASE Releasing(c)
      <4>1. kind = "image" /\ call'[c] = "returned" /\ Done(c)
        BY <2>2, <3>4 DEF Releasing
      <4> QED
        BY <1>2, <1>3, <3>1, <3>2, <4>1
    <3> QED
      BY <3>1, <3>2, <3>3, <3>4
  <2> QED
    BY <2>1, <2>2
<1> QED
  BY <1>1, <1>4, <1>5 DEF Filed, Done

LEMMA KnownStep ==
  ASSUME kind \in Kinds, kind # "embed", Called, Memory, Cache(seen), Filed, Known, [Next]_vars
  PROVE  Known'
<1> SUFFICES ASSUME NEW e, Holds(seen', e) PROVE \E d \in Calls : kept'[d] = e.at /\ rid'[d] = e.id
  BY DEF Known
<1>1. ASSUME Holds(seen, e) PROVE \E d \in Calls : kept'[d] = e.at /\ rid'[d] = e.id
  <2>1. PICK d \in Calls : kept[d] = e.at /\ rid[d] = e.id
    BY <1>1 DEF Known
  <2>2. e.at # Never
    <3>1. PICK i \in DOMAIN seen : seen[i] = e
      BY <1>1 DEF Holds
    <3>2. e \in Entries
      BY <3>1, ElementOfSeq, LenProperties DEF Memory
    <3> QED
      BY <3>2 DEF Entries, Never
  <2> QED
    BY <2>1, <2>2, HistoryStays
<1>2. CASE Ages
  <2>1. Holds(seen, e)
    BY <1>2, ExpiryMade DEF Ages
  <2> QED
    BY <1>1, <2>1
<1>3. ASSUME NEW c \in Calls, Enters(c) \/ Releasing(c), ~Ages PROVE \E d \in Calls : kept'[d] = e.at /\ rid'[d] = e.id
  <2>1. PICK s \in Unexpired : seen' = Put(s, rid[c])
    BY <1>3 DEF Enters, Releasing, Stores, Ages
  <2>2. Cache(s) /\ rid[c] \in RequestIds
    BY ExpiryMade DEF Called
  <2>3. Holds(s, e) \/ e = Entry(rid[c])
    BY <2>1, <2>2, PutMade
  <2>4. CASE Holds(s, e)
    BY <1>1, <2>4, ExpiryMade
  <2>5. CASE e = Entry(rid[c])
    <3>1. e.at = clock /\ e.id = rid[c] /\ kept'[c] = clock
      BY <1>3, <2>5 DEF Entry, Enters, Releasing, Ages, Memory
    <3> QED
      BY <3>1, HistoryStays
  <2> QED
    BY <2>3, <2>4, <2>5
<1>4. ASSUME NEW c \in Calls, Claiming(c) PROVE Ages
  BY <1>4 DEF Claiming, Ages
<1> QED
  BY <1>2, <1>3, <1>4, CacheSteps DEF Keeps

(* An entry stays, or is old, or has been displaced.                       *)
LEMMA KeptStep ==
  ASSUME kind \in Kinds, kind # "embed", Called, InHand, Jobs, Memory, Cache(seen), Claims, Filed, Known, [Next]_vars,
         NEW e, Holds(seen, e), NEW r, e.id = r
  PROVE  Holds(seen', e) \/ Old(e) \/ Crowded(r)'
<1>1. Called' /\ Memory' /\ Cache(seen)' /\ Known'
  BY Steps, CalledStep, MemoryStep, CacheStep, KnownStep
<1>2. CASE Ages
  BY <1>2, ExpiryMade DEF Ages
<1>3. ASSUME NEW c \in Calls, Enters(c) \/ Releasing(c), ~Ages PROVE Holds(seen', e) \/ Old(e) \/ Crowded(r)'
  <2>1. PICK s \in Unexpired : seen' = Put(s, rid[c]) /\ (Enters(c) => ~Remembers(s, rid[c]))
    BY <1>3 DEF Enters, Releasing, Stores, Ages
  <2>2. Cache(s) /\ rid[c] \in RequestIds
    BY ExpiryMade DEF Called
  <2>3. ~Remembers(s, rid[c])
    <3>1. CASE Releasing(c)
      <4>1. ~Remembers(seen, rid[c])
        BY <3>1 DEF Releasing, Claims
      <4> QED
        BY <4>1, ExpiryMade, HeldRemembered, Zenon
    <3> QED
      BY <1>3, <2>1, <3>1
  <2>4. Len(seen') = ReplayCap \/ \A x : Holds(s, x) => Holds(seen', x)
    BY <2>1, <2>2, <2>3, PutMade
  <2>5. CASE \A x : Holds(s, x) => Holds(seen', x)
    BY <2>5, ExpiryMade
  <2>6. CASE Len(seen') = ReplayCap /\ Holds(s, e) /\ ~Holds(seen', e)
    <3>1. ~Remembers(seen', r)
      <4>1. ASSUME NEW x, Holds(seen', x), x.id = r PROVE FALSE
        <5>1. Holds(s, x) \/ x = Entry(rid[c])
          BY <2>1, <2>2, <4>1, PutMade
        <5>2. CASE Holds(s, x)
          <6>1. PICK i \in DOMAIN s, j \in DOMAIN s : s[i] = x /\ s[j] = e
            BY <2>6, <5>2 DEF Holds
          <6>2. i = j
            BY <2>2, <4>1, <6>1 DEF Cache, Distinct
          <6> QED
            BY <2>6, <4>1, <6>1, <6>2
        <5>3. CASE x = Entry(rid[c])
          <6>1. e.id = rid[c]
            BY <4>1, <5>3 DEF Entry
          <6> QED
            BY <2>3, <2>6, <6>1, HeldRemembered, Zenon
        <5> QED
          BY <5>1, <5>2, <5>3
      <4> QED
        BY <4>1, HeldRemembered, Zenon
    <3> QED
      BY <1>1, <2>6, <3>1, Displaced
  <2>7. CASE ~Holds(s, e)
    BY <2>7, ExpiryMade
  <2> QED
    BY <2>4, <2>5, <2>6, <2>7
<1>4. ASSUME NEW c \in Calls, Claiming(c) PROVE Ages
  BY <1>4 DEF Claiming, Ages
<1> QED
  BY <1>2, <1>3, <1>4, CacheSteps DEF Keeps


LEMMA RecalledStep ==
  ASSUME kind \in Kinds, kind # "embed", Called, InHand, Jobs, Memory, Cache(seen), Claims, Filed, Known, Recalled,
         [Next]_vars, NEW c \in Calls, Once(c)'
  PROVE  kept'[c] # Never /\ (Gone(c)' \/ Crowded(rid[c])' \/ Holds(seen', [id |-> rid[c], at |-> kept'[c]]))
<1>1. Step /\ rid' = rid /\ kind' = kind
  BY Steps, CallStep, KindStays
<1>2. rid[c] \in RequestIds /\ kept[c] \in Never .. MaxClock /\ clock \in 0 .. MaxClock /\ clock # Never
  BY DEF Called, Memory, Never
<1>3. CASE Once(c)
  <2>1. kept[c] # Never /\ (Gone(c) \/ Crowded(rid[c]) \/ Holds(seen, [id |-> rid[c], at |-> kept[c]]))
    BY <1>3 DEF Recalled
  <2>2. kept'[c] = kept[c]
    BY <2>1, HistoryStays
  <2>3. Gone(c) => Gone(c)'
    <3>1. clock' = clock \/ clock' = clock + 1
      BY CacheMoves DEF Ages
    <3>2. ReplayWindow \in Int /\ clock \in Int /\ kept[c] \in Int
      BY <1>2, WorkerAssumption
    <3> QED
      BY <2>2, <3>1, <3>2 DEF Gone
  <2>4. ASSUME Holds(seen, [id |-> rid[c], at |-> kept[c]])
        PROVE  Gone(c) \/ Crowded(rid[c])' \/ Holds(seen', [id |-> rid[c], at |-> kept[c]])
    <3> DEFINE e == [id |-> rid[c], at |-> kept[c]]
    <3>1. Holds(seen', e) \/ Old(e) \/ Crowded(rid[c])'
      <4>1. PICK r \in RequestIds : r = rid[c]
        BY <1>2
      <4>2. e.id = r /\ Holds(seen, e)
        BY <2>4, <4>1
      <4> HIDE DEF e
      <4>3. Holds(seen', e) \/ Old(e) \/ Crowded(r)'
        BY <4>2, KeptStep
      <4> QED
        BY <1>1, <4>1, <4>3 DEF Crowded
    <3>2. Old([id |-> rid[c], at |-> kept[c]]) => Gone(c)
      <4>1. ReplayWindow \in Int /\ clock \in Int /\ kept[c] \in Int
        BY <1>2, WorkerAssumption
      <4> QED
        BY <4>1 DEF Old, Gone
    <3> QED
      BY <1>1, <3>1, <3>2 DEF Crowded
  <2>5. Crowded(rid[c]) => Crowded(rid[c])'
    BY <1>1, CrowdedStays DEF Crowded
  <2> QED
    BY <2>1, <2>2, <2>3, <2>4, <2>5
<1>4. ASSUME Enters(c) \/ (Releasing(c) /\ call'[c] = "returned" /\ Done(c)')
      PROVE  kept'[c] # Never /\ Holds(seen', [id |-> rid[c], at |-> kept'[c]])
  <2>1. kept'[c] = clock
    BY <1>4 DEF Enters, Releasing, Memory
  <2>2. PICK s \in Unexpired : seen' = Put(s, rid[c]) /\ (Enters(c) => ~Remembers(s, rid[c]))
    BY <1>4 DEF Enters, Releasing, Stores
  <2>3. Cache(s)
    BY ExpiryMade
  <2>4. ~Remembers(s, rid[c])
    <3>1. CASE Releasing(c)
      <4>1. ~Remembers(seen, rid[c])
        BY <3>1 DEF Releasing, Claims
      <4> QED
        BY <4>1, ExpiryMade, HeldRemembered, Zenon
    <3> QED
      BY <1>4, <2>2, <3>1
  <2>5. Holds(seen', Entry(rid[c]))
    BY <1>2, <2>2, <2>3, <2>4, PutMade
  <2> QED
    BY <1>2, <2>1, <2>5 DEF Entry
<1>5. CASE ~Once(c) /\ kind # "image"
  <2>1. ~Live(c) /\ call[c] # "dropped" /\ ~Done(c) /\ (Live(c)' \/ call'[c] = "dropped" \/ Done(c)')
    BY <1>1, <1>5 DEF Once, Done
  <2>2. Admitting(c) /\ Live(c)'
    BY <1>1, <2>1, CallMoves, ServedMoves DEF Live
  <2>3. Enters(c)
    <3>1. ~Keeps
      BY <2>1, <2>2 DEF Keeps
    <3>2. PICK a \in Calls : Enters(a)
      BY <1>5, <3>1, CacheSteps DEF Claiming, Releasing
    <3> QED
      BY <2>2, <3>2, OneEnters DEF Enters
  <2> QED
    BY <1>4, <2>3
<1>6. CASE ~Once(c) /\ kind = "image"
  <2>1. call'[c] = "returned" /\ Done(c)' /\ ~(call[c] = "returned" /\ Done(c))
    BY <1>1, <1>6 DEF Once, Done
  <2>2. Done(c) /\ call[c] # "returned"
    BY <1>1, <2>1, ServedMoves
  <2>3. PICK a \in Calls : Claiming(a) \/ Releasing(a)
    BY <1>6, <2>1, <2>2, ClaimedSteps DEF Keeps
  <2>4. a = c /\ Releasing(c)
    <3>1. Claiming(a) => call'[c] = call[c] \/ call'[c] = "admitted"
      BY DEF Claiming, Admitting, Called
    <3>2. Releasing(a) /\ a # c => call'[c] = call[c]
      BY DEF Releasing
    <3> QED
      BY <2>1, <2>2, <2>3, <3>1, <3>2
  <2> QED
    BY <1>4, <2>1, <2>4
<1> QED
  BY <1>3, <1>4, <1>5, <1>6

(* A call that is admitted finds its id expired, or displaced.             *)
LEMMA AdmittedLate ==
  ASSUME kind \in Kinds, kind # "embed", Called, Memory, Cache(seen), Filed, Recalled, [Next]_vars,
         NEW b \in Calls, NEW c \in Calls, rid[b] = rid[c], Once(b), Enters(c) \/ Claiming(c)
  PROVE  Crowded(rid[b]) \/ WindowPassed(b, c)'
<1>1. kept[b] # Never /\ (Gone(b) \/ Crowded(rid[b]) \/ Holds(seen, [id |-> rid[b], at |-> kept[b]]))
  BY DEF Recalled
<1>2. begun'[c] = clock
  BY DEF Enters, Claiming, Memory
<1>3. kept'[b] = kept[b]
  BY <1>1, HistoryStays
<1>4. PICK s \in Unexpired : ~Remembers(s, rid[c])
  BY DEF Enters, Claiming
<1>5. ASSUME Holds(seen, [id |-> rid[b], at |-> kept[b]]) PROVE Gone(b)
  <2>1. ~Holds(s, [id |-> rid[b], at |-> kept[b]])
    BY <1>4, HeldRemembered
  <2>2. Old([id |-> rid[b], at |-> kept[b]])
    BY <1>5, <2>1, ExpiryMade
  <2>3. ReplayWindow \in Int /\ clock \in Int /\ kept[b] \in Int
    BY WorkerAssumption DEF Memory
  <2> QED
    BY <2>2, <2>3 DEF Old, Gone
<1> QED
  BY <1>1, <1>2, <1>3, <1>5 DEF Gone, WindowPassed

LEMMA SpacedStays ==
  ASSUME kind \in Kinds, kind # "embed", Called, InHand, Memory, Cache(seen), Filed, [Next]_vars,
         NEW b \in Calls, NEW c \in Calls, Spaced(b, c)
  PROVE  Spaced(b, c)'
<1>1. ASSUME NEW x \in Calls, NEW y \in Calls, WindowPassed(x, y) PROVE WindowPassed(x, y)'
  <2>1. kept[x] # Never /\ begun[y] >= kept[x] + ReplayWindow
    BY <1>1 DEF WindowPassed
  <2>2. begun[y] # Never
    BY <2>1, WorkerAssumption DEF Memory, Never
  <2> QED
    BY <2>1, <2>2, HistoryStays DEF WindowPassed
<1>2. Crowded(rid[b]) => Crowded(rid[b])'
  BY CrowdedStays, HistoryStays DEF Crowded
<1> QED
  BY <1>1, <1>2 DEF Spaced

(* A second call under the same id comes when the first was forgotten.     *)
LEMMA AgedStep ==
  ASSUME kind \in Kinds, kind # "embed", Called, InHand, Jobs, Memory, Cache(seen), Claims, Filed, Recalled, Aged,
         [Next]_vars,
         NEW b \in Calls, NEW c \in Calls, b # c, rid'[b] = rid'[c], Once(b)', Live(c)' \/ Done(c)'
  PROVE  Spaced(b, c)'
<1>1. Step /\ rid' = rid /\ kind' = kind /\ rid[b] = rid[c]
  BY Steps, CallStep, KindStays
<1>2. Once(b) /\ (Live(c) \/ Done(c)) => Spaced(b, c)'
  BY <1>1, SpacedStays DEF Aged
<1>3. ASSUME NEW x \in Calls, NEW y \in Calls, rid[x] = rid[y], Once(x), Enters(y) \/ Claiming(y)
      PROVE  Spaced(x, y)'
  <2>1. Crowded(rid[x]) \/ WindowPassed(x, y)'
    BY <1>3, AdmittedLate
  <2>2. Crowded(rid[x]) => Crowded(rid[x])'
    BY <1>1, CrowdedStays DEF Crowded
  <2> QED
    BY <2>1, <2>2 DEF Spaced
<1>4. Spaced(c, b)' => Spaced(b, c)'
  BY <1>1 DEF Spaced
<1>5. Live(c) \/ Done(c) \/ Admitting(c)
  BY <1>1, CallMoves, ServedMoves DEF Live
<1>6. CASE kind # "image"
  <2>1. Once(b) \/ Admitting(b)
    BY <1>1, <1>6, CallMoves, ServedMoves DEF Once, Live, Done
  <2>2. ASSUME NEW a \in Calls, Admitting(a) PROVE Enters(a)
    <3>1. Live(a)' /\ ~Live(a)
      BY <2>2 DEF Admitting, Live, Called
    <3>2. ~Keeps
      BY <3>1 DEF Keeps
    <3>3. PICK e \in Calls : Enters(e)
      BY <1>6, <3>2, CacheSteps DEF Claiming, Releasing
    <3> QED
      BY <2>2, <3>3, OneEnters DEF Enters
  <2>3. CASE Admitting(c)
    <3>1. Once(b)
      BY <2>1, <2>3, OneEnters
    <3> QED
      BY <1>1, <1>3, <2>2, <2>3, <3>1
  <2>4. CASE Admitting(b) /\ ~Admitting(c)
    <3>1. Once(c)
      BY <1>5, <1>6, <2>4 DEF Once
    <3> QED
      BY <1>1, <1>3, <1>4, <2>2, <2>4, <3>1
  <2> QED
    BY <1>2, <1>5, <2>1, <2>3, <2>4
<1>7. CASE kind = "image"
  <2>1. Done(b)' /\ call'[b] = "returned"
    BY <1>1, <1>7 DEF Once, Done
  <2>2. Done(b)
    BY <1>1, <2>1, ServedMoves
  <2>3. call[b] \in {"waiting", "returned"}
    BY <1>7, <2>2 DEF Claims
  <2>4. CASE call[b] = "returned"
    <3>1. Once(b)
      BY <1>7, <2>2, <2>4 DEF Once
    <3>2. CASE Admitting(c) /\ ~Live(c) /\ ~Done(c)
      <4>1. Live(c)' /\ ~Live(c)
        BY <3>2 DEF Admitting, Live, Called
      <4>2. PICK a \in Calls : Claiming(a) \/ Releasing(a)
        BY <1>7, <4>1, ClaimedSteps DEF Keeps
      <4>3. ~Releasing(a)
        BY <4>1, <4>2 DEF Releasing, Live
      <4>4. a = c /\ Claiming(c)
        BY <3>2, <4>2, <4>3, OneEnters DEF Claiming
      <4> QED
        BY <1>1, <1>3, <3>1, <4>4
    <3> QED
      BY <1>2, <1>5, <3>1, <3>2
  <2>5. CASE call[b] = "waiting"
    <3>1. call'[c] = call[c]
      <4>1. PICK a \in Calls : Claiming(a) \/ Releasing(a)
        BY <1>7, <2>1, <2>5, ClaimedSteps DEF Keeps
      <4>2. ~Claiming(a)
        BY <2>1, <2>5 DEF Claiming, Admitting, Called
      <4>3. a = b
        BY <2>1, <2>5, <4>1, <4>2 DEF Releasing
      <4> QED
        BY <4>1, <4>2, <4>3 DEF Releasing
    <3>2. ~Live(c)
      BY <1>1, <1>7, <2>5 DEF Claims, Live
    <3>3. Done(c)
      BY <1>5, <3>1, <3>2 DEF Admitting, Live, Called
    <3>4. call[c] = "returned"
      BY <1>7, <3>2, <3>3 DEF Claims, Live
    <3>5. Once(c) /\ Live(b)
      BY <1>7, <2>5, <3>3, <3>4 DEF Once, Live
    <3>6. Spaced(c, b)'
      BY <1>1, <3>5, SpacedStays DEF Aged
    <3> QED
      BY <1>4, <3>6
  <2> QED
    BY <2>3, <2>4, <2>5
<1> QED
  BY <1>6, <1>7

(* All of the invariant.                                                   *)
Served == Typed /\ Claims /\ Recollection

LEMMA ServedHolds == Spec => []Served
<1>1. Init => Served
  <2> SUFFICES ASSUME Init PROVE Served
    OBVIOUS
  <2>1. /\ seen = <<>> /\ pending = {} /\ call = [c \in Calls |-> "new"] /\ answer = [c \in Calls |-> Unanswered]
        /\ begun = [c \in Calls |-> Never] /\ kept = [c \in Calls |-> Never]
        /\ \A c \in Calls : ~Live(c) /\ ~Done(c) /\ ~Once(c)
    BY DEF Init, WorkerInit, ImageInit, Live, Done, Once, Unanswered
  <2>2. ~\E e : Holds(<<>>, e)
    BY DEF Holds
  <2>3. Claims
    BY <2>1 DEF Claims
  <2>4. Recollection
    BY <2>1, <2>2 DEF Recollection, Filed, Known, Recalled, Aged
  <2> QED
    BY <2>3, <2>4, TypedInit DEF Served
<1>2. Served /\ [Next]_vars => Served'
  <2> SUFFICES ASSUME Served, [Next]_vars PROVE Served'
    OBVIOUS
  <2>1. kind \in Kinds /\ Called /\ InHand /\ Jobs /\ Memory /\ Cache(seen) /\ Claims
    BY DEF Served, Typed, Blamed, Common, Threads
  <2>2. Typed' /\ Claims'
    BY <2>1, TypedStep, ClaimsStep DEF Served
  <2>3. Recollection'
    <3> SUFFICES ASSUME kind # "embed" PROVE Filed' /\ Known' /\ Recalled' /\ Aged'
      BY KindStays DEF Recollection
    <3>1. Filed /\ Known /\ Recalled /\ Aged
      BY DEF Served, Recollection
    <3>2. Filed' /\ Known'
      BY <2>1, <3>1, FiledStep, KnownStep
    <3>3. Recalled'
      BY <2>1, <3>1, RecalledStep, HistoryStays DEF Recalled
    <3>4. Aged'
      BY <2>1, <3>1, AgedStep DEF Aged
    <3> QED
      BY <3>2, <3>3, <3>4
  <2> QED
    BY <2>2, <2>3 DEF Served
<1> QED
  BY <1>1, <1>2, PTL DEF Spec

(* A request id is served twice only when the first entry in the replay    *)
(* cache was a window old as the second call was admitted, or when so many *)
(* others were put there that it had no room left: no call slips past the  *)
(* cache between the check and the entry, nor while the first one still    *)
(* runs, and expiry takes nothing too early.                               *)
THEOREM ReplaysAreFar == Spec => []ReplaysAreOld
<1>1. Served => ReplaysAreOld
  <2> SUFFICES ASSUME Served, NEW b \in Calls, NEW c \in Calls, kind # "embed", b # c, rid[b] = rid[c], Done(b), Done(c)
               PROVE  Spaced(b, c)
    BY DEF ReplaysAreOld, Spaced, Crowded, Others, Entered, Done
  <2>1. Aged
    BY DEF Served, Recollection
  <2>2. CASE kind # "image"
    BY <2>1, <2>2 DEF Aged, Once
  <2>3. CASE kind = "image"
    <3>1. Once(b) \/ Once(c)
      BY <2>3 DEF Served, Claims, Live, Once
    <3>2. Spaced(b, c) \/ Spaced(c, b)
      BY <2>1, <3>1 DEF Aged
    <3> QED
      BY <3>2 DEF Spaced
  <2> QED
    BY <2>2, <2>3
<1> QED
  BY <1>1, ServedHolds, PTL

LEMMA RefusedAs ==
  ASSUME Called, InHand, Jobs, [Next]_vars, kind = "image",
         NEW c \in Calls, answer[c] # Replay, answer'[c] = Replay
  PROVE  ImageReplayed(c)
<1>1. Replay # Failed /\ Replay # [res |-> "ok", of |-> job]
  BY DEF Replay, Failed
<1>2. ~Reap
  BY <1>1 DEF Reap, DropQueue, Called
<1>3. ASSUME NEW a \in {Failed, [res |-> "ok", of |-> job]}, Answering(a) PROVE FALSE
  BY <1>1, <1>3 DEF Answering, Called, InHand
<1>4. PICK b \in Calls : Rejecting(b)
  BY <1>2, <1>3, AnswerStep, Steps
<1>5. b = c /\ call[c] \in {"new", "admitted"} /\ call'[c] = "returned"
  BY <1>4 DEF Rejecting, Returns, Called
<1>6. ~(Starts \/ Restarts \/ Supervise \/ JobTimesOut \/ ReaderFaults \/ Emits \/ UNCHANGED wvars)
  BY <1>5, QuietSteps
<1>7. ImageNext
  <2>1. ~TimePasses
    BY <1>5 DEF TimePasses
  <2> QED
    BY <1>6, <2>1 DEF Next, Worker, Emits, vars
<1>8. Generate \/ Dispatch
  BY <1>6, <1>7 DEF ImageNext, ImageProduction, ImageStart, ImageReader, Starts, Restarts, Stopping,
     ImageRestart, Park, AfterTimeout, AfterCrash, RestartStops, ImageSupervise, ImageSpawn, ImageReady,
     ImageAdvertise, ImageLoop, ImageWrite, ImageReply, ImageGivesUp, ImageTimesOut, Supervise
<1>9. ASSUME NEW a \in Calls, Unhealthy(a) \/ Refused(a) \/ ImageSendFails(a) PROVE FALSE
  <2>1. answer' = [answer EXCEPT ![a] = Failed]
    BY <1>9 DEF Unhealthy, Refused, ImageSendFails, Returns
  <2> QED
    BY <1>1, <2>1 DEF Called
<1>10. ASSUME NEW a \in Calls, Send(a) \/ ImageAdmit(a) \/ ImageFinish(a) \/ ImageDrop(a) PROVE FALSE
  BY <1>10 DEF Send, ImageAdmit, ImageFinish, ImageDrop
<1>11. PICK a \in Calls : ImageReplayed(a)
  BY <1>8, <1>9, <1>10 DEF Generate, Dispatch
<1>12. a = c
  BY <1>11 DEF ImageReplayed, Returns, Called
<1> QED
  BY <1>11, <1>12

(* A request is turned away as a replay only when its id was served within *)
(* the window or is being served: begin() claims, finish() gives the claim *)
(* up on every way out, only a picture is remembered, and no longer than a *)
(* window.                                                                 *)
THEOREM RefusalsAreJustified == Spec => RefusalJustified
<1> DEFINE Justified(c) ==
      (kind = "image" /\ answer[c] # Replay /\ answer'[c] = Replay)
        => \E b \in Calls \ {c} : /\ rid[b] = rid[c]
                                  /\ \/ call[b] \in {"admitted", "waiting"}
                                     \/ answer[b].res = "ok" /\ clock < kept[b] + ReplayWindow
<1>1. Served /\ [Next]_vars => \A c \in Calls : Justified(c)
  <2> SUFFICES ASSUME Served, [Next]_vars, NEW c \in Calls, kind = "image", answer[c] # Replay, answer'[c] = Replay
               PROVE  \E b \in Calls \ {c} : rid[b] = rid[c] /\ (Live(b) \/ (Done(b) /\ clock < kept[b] + ReplayWindow))
    BY DEF Live, Done
  <2>1. Called /\ InHand /\ Jobs /\ Memory /\ Cache(seen) /\ Claims /\ Filed /\ Known
    BY DEF Served, Recollection, Typed, Blamed, Common
  <2>2. ImageReplayed(c)
    BY <2>1, RefusedAs
  <2>3. call[c] = "new"
    BY <2>2 DEF ImageReplayed, Begins
  <2>4. PICK s \in Unexpired : Remembers(s, rid[c]) \/ rid[c] \in pending
    BY <2>2 DEF ImageReplayed, Taken
  <2>5. ~Live(c) /\ ~Done(c)
    BY <2>1, <2>3 DEF Live, Jobs, Done, Unanswered
  <2>6. CASE Remembers(s, rid[c])
    <3>1. PICK e : Holds(s, e) /\ e.id = rid[c]
      BY <2>6, HeldRemembered
    <3>2. Holds(seen, e) /\ ~Old(e)
      BY <2>1, <3>1, ExpiryMade
    <3>3. PICK d \in Calls : kept[d] = e.at /\ rid[d] = e.id
      BY <2>1, <3>2 DEF Known
    <3>4. e.at # Never
      <4>1. PICK i \in DOMAIN seen : seen[i] = e
        BY <3>2 DEF Holds
      <4>2. e \in Entries
        BY <2>1, <4>1, ElementOfSeq, LenProperties DEF Memory
      <4> QED
        BY <4>2 DEF Entries, Never
    <3>5. Done(d)
      BY <2>1, <3>3, <3>4 DEF Filed
    <3>6. clock < kept[d] + ReplayWindow
      <4>1. ReplayWindow \in Int /\ clock \in Int /\ kept[d] \in Int
        BY <2>1, WorkerAssumption DEF Memory
      <4> QED
        BY <3>2, <3>3, <4>1 DEF Old
    <3> QED
      BY <2>5, <3>1, <3>3, <3>5, <3>6
  <2>7. CASE rid[c] \in pending
    BY <2>1, <2>5, <2>7 DEF Claims
  <2> QED
    BY <2>4, <2>6, <2>7
<1>2. Served /\ [Next]_vars => [\A c \in Calls : Justified(c)]_vars
  BY <1>1
<1> QED
  BY <1>2, ServedHolds, PTL DEF Spec, RefusalJustified
=============================================================================
