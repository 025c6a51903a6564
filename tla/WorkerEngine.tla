---------------------------- MODULE WorkerEngine ----------------------------
(***************************************************************************)
(* What the four dedicated engines have in common: eg2.rs, stt.rs, tts.rs  *)
(* and image.rs each own one worker process and supervise it in the same   *)
(* way.  The definitions follow eg2.rs; SttEngine, TtsEngine and           *)
(* ImageEngine say where theirs differ.                                    *)
(*                                                                         *)
(* Five parties touch the shared state.  Callers check the health flags and*)
(* put their job in a channel that holds one.  The supervisor thread takes *)
(* it, writes it to the worker through a writer thread, and waits for the  *)
(* frame that answers.  The reader thread turns the worker's output into   *)
(* frames.  The worker may answer, answer wrongly, hang or die.  The       *)
(* heartbeat loop restarts the engine: it stops the supervisor, joins it,  *)
(* and starts another one.                                                 *)
(***************************************************************************)
EXTENDS Integers, Sequences

CONSTANTS
  MaxCalls,     \* how many calls of the engine are made (bound of the model)
  RequestIds,   \* the request ids they carry, 1 .. n
  FrameCap,     \* frames read and not yet taken (2)
  MaxRestarts,  \* restarts in the life of an engine (3)
  ReplayCap,    \* request ids remembered (65536)
  ReplayWindow, \* for how long (24 h)
  MaxClock      \* how far the clock of the replay caches runs (bound of the model)

ASSUME WorkerAssumption ==
  /\ MaxCalls \in Nat \ {0} /\ RequestIds \subseteq Nat
  /\ FrameCap \in Nat \ {0} /\ MaxRestarts \in Nat
  /\ ReplayCap \in Nat \ {0} /\ ReplayWindow \in Nat \ {0} /\ MaxClock \in Nat

VARIABLES
  kind,              \* which engine this process runs
  healthy, stopped,  \* the two flags every party sees
  tx,                \* the sending half of the job channel, as callers see it
  queue,             \* jobs in the channel of the running supervisor
  sup, job,          \* the supervisor: where, and with which call
  ready,             \* what it told the one that started it
  reader, frames,    \* the reader thread, and the frames it passed on
  child,             \* the worker process
  loop, restarts,    \* where start() or restart() is, and the restarts asked for
  call, rid, answer, \* the calls: where, with which request id, and the answer
  seen, clock,       \* the request ids remembered, oldest first, and the time
  begun, kept        \* when a call got past the cache, and when its id was put there (history)

flags  == <<healthy, stopped, tx>>
worker == <<reader, frames, child>>
memory == <<seen, clock, begun, kept>>
callers == <<call, rid, answer, memory>>
wvars  == <<kind, flags, queue, sup, job, ready, worker, loop, restarts, callers>>

Kinds == {"embed", "stt", "tts", "image"}
Calls == 1 .. MaxCalls
NoCall == 0
Never == -1
Entries == [id : RequestIds, at : 0 .. MaxClock]

SupPC    == {"none", "spawn", "startup", "check", "advertise", "loop", "idle",
             "write", "await", "ending", "reap"}
CallPC   == {"new", "admitted", "waiting", "returned", "dropped"}
LoopPC   == {"preparing", "starting", "aborting", "exited", "watch", "joining", "confirm", "failing"}
FrameSet == [type : {"ready", "alien", "result", "error", "other"}, of : Calls \cup {NoCall}]
Answers  == [res : {"none", "ok", "replay", "failed"}, of : Calls \cup {NoCall}]

Failed   == [res |-> "failed", of |-> NoCall]
Replay   == [res |-> "replay", of |-> NoCall]
Unanswered == [res |-> "none", of |-> NoCall]

WorkerTypeOK ==
  /\ kind \in Kinds
  /\ healthy \in BOOLEAN /\ stopped \in BOOLEAN /\ tx \in {"open", "held", "none"}
  /\ queue \in Seq(Calls) /\ Len(queue) <= 1
  /\ sup \in SupPC /\ job \in Calls \cup {NoCall}
  /\ sup \in {"write", "await"} => job \in Calls
  /\ ready \in {"pending", "ok", "err"}
  /\ reader \in {"reading", "closed"}
  /\ frames \in Seq(FrameSet) /\ Len(frames) <= FrameCap
  /\ child \in {"none", "loading", "serving", "foreign", "dead"}
  /\ loop \in LoopPC /\ restarts \in 0 .. MaxRestarts
  /\ call \in [Calls -> CallPC] /\ rid \in [Calls -> RequestIds] /\ answer \in [Calls -> Answers]
  /\ seen \in Seq(Entries) /\ Len(seen) <= ReplayCap /\ clock \in 0 .. MaxClock
  /\ begun \in [Calls -> Never .. MaxClock] /\ kept \in [Calls -> Never .. MaxClock]

(* is_healthy                                                              *)
IsHealthy == healthy /\ ~stopped

-----------------------------------------------------------------------------
(* Starting.  A launch makes a new channel and a new supervisor thread.    *)
Launch ==
  /\ stopped' = FALSE
  /\ queue' = <<>> /\ sup' = "spawn" /\ job' = NoCall /\ ready' = "pending"
  /\ reader' = "reading" /\ frames' = <<>> /\ child' = "none"

WorkerInit ==
  /\ kind \in Kinds
  /\ healthy = FALSE /\ stopped = FALSE /\ tx = "none"
  /\ queue = <<>> /\ sup = "none" /\ job = NoCall /\ ready = "pending"
  /\ reader = "closed" /\ frames = <<>> /\ child = "none"
  /\ loop = "preparing" /\ restarts = 0
  /\ seen = <<>> /\ clock = 0 /\ begun = [c \in Calls |-> Never] /\ kept = [c \in Calls |-> Never]
  /\ call = [c \in Calls |-> "new"]
  /\ rid \in [Calls -> RequestIds] /\ \A c \in Calls : rid[c] <= c
  /\ answer = [c \in Calls |-> Unanswered]

(* production(): the pinned files and the interpreter are there, or the    *)
(* node does not start.                                                    *)
Production ==
  /\ loop = "preparing"
  /\ \/ Launch /\ tx' = "held" /\ loop' = "starting"
     \/ loop' = "exited" /\ UNCHANGED <<stopped, tx, queue, sup, job, ready, worker>>
  /\ UNCHANGED <<kind, healthy, restarts, callers>>

(* start() awaits the supervisor's word: without it there is no engine.    *)
StartEnds ==
  /\ loop = "starting" /\ ready # "pending"
  /\ \/ ready = "ok" /\ tx' = "open" /\ loop' = "watch" /\ UNCHANGED stopped
     \/ ready = "err" /\ stopped' = TRUE /\ tx' = "none" /\ loop' = "aborting"
  /\ UNCHANGED <<kind, healthy, queue, sup, job, ready, worker, restarts, callers>>

StartGivesUp ==
  /\ loop = "aborting" /\ sup = "none" /\ loop' = "exited"
  /\ UNCHANGED <<kind, flags, queue, sup, job, ready, worker, restarts, callers>>

-----------------------------------------------------------------------------
(* restart().  stop() clears the flags and the channel, then joins.        *)
Stop == healthy' = FALSE /\ stopped' = TRUE /\ tx' = "none"

(* The lifetime budget.  A refused restart leaves the engine as it is.  The *)
(* mutant charges and never refuses.                                       *)
NeverRefused == restarts' = restarts + 1
Charged == restarts < MaxRestarts /\ restarts' = restarts + 1

RestartRefused == loop = "watch" /\ restarts = MaxRestarts /\ UNCHANGED wvars

RestartStops ==
  /\ loop = "watch" /\ Stop /\ loop' = "joining"
  /\ UNCHANGED <<kind, queue, sup, job, ready, worker, callers>>

RestartLaunches ==
  /\ loop = "joining" /\ sup = "none"
  /\ Launch /\ tx' = "held" /\ loop' = "confirm"
  /\ UNCHANGED <<kind, healthy, restarts, callers>>

RestartConfirms ==
  /\ loop = "confirm" /\ ready # "pending"
  /\ \/ ready = "ok" /\ IsHealthy /\ tx' = "open" /\ loop' = "watch" /\ UNCHANGED <<healthy, stopped>>
     \/ ~(ready = "ok" /\ IsHealthy) /\ Stop /\ loop' = "failing"
  /\ UNCHANGED <<kind, queue, sup, job, ready, worker, restarts, callers>>

RestartFails ==
  /\ loop = "failing" /\ sup = "none" /\ loop' = "watch"
  /\ UNCHANGED <<kind, flags, queue, sup, job, ready, worker, restarts, callers>>

-----------------------------------------------------------------------------
(* SeenRequestIds, which eg2.rs does without.  Before it is asked, the ids *)
(* at its front that were put there a window ago or more are dropped:      *)
(* Unexpired holds the one sequence that is left.                          *)
Remembers(s, r) == \E i \in DOMAIN s : s[i].id = r
Old(e) == clock - e.at >= ReplayWindow
Expired == {k \in 0 .. Len(seen) : /\ \A i \in 1 .. k : Old(seen[i])
                                   /\ k < Len(seen) => ~Old(seen[k + 1])}
Unexpired == {SubSeq(seen, k + 1, Len(seen)) : k \in Expired}

(* At the cap the oldest id makes room.                                    *)
Room(s) == IF Len(s) >= ReplayCap THEN Tail(s) ELSE s
Entry(r) == [id |-> r, at |-> clock]

(* Time counts where ids are remembered.                                   *)
TimePasses ==
  /\ kind # "embed" /\ clock < MaxClock /\ clock' = clock + 1
  /\ UNCHANGED <<kind, flags, queue, sup, job, ready, worker, loop, restarts, call, rid, answer,
                 seen, begun, kept>>

-----------------------------------------------------------------------------
(* A call.  Calls begin in the order of their numbers.  Admitted: the      *)
(* engine is healthy and the request valid (the program checks it again    *)
(* here); sent: the channel takes it; finished: the answer has been seen.  *)
Begins(c) == call[c] = "new" /\ \A b \in Calls : b < c => call[b] # "new"

Returns(c, a) ==
  /\ call' = [call EXCEPT ![c] = "returned"]
  /\ answer' = [answer EXCEPT ![c] = a]
  /\ UNCHANGED rid

Unhealthy(c) ==
  /\ Begins(c) /\ ~IsHealthy /\ Returns(c, Failed)
  /\ UNCHANGED <<kind, flags, queue, sup, job, ready, worker, loop, restarts, memory>>

Refused(c) ==
  /\ Begins(c) /\ IsHealthy /\ Returns(c, Failed)
  /\ UNCHANGED <<kind, flags, queue, sup, job, ready, worker, loop, restarts, memory>>

Admit(c) ==
  /\ Begins(c) /\ IsHealthy
  /\ call' = [call EXCEPT ![c] = "admitted"]
  /\ UNCHANGED <<kind, flags, queue, sup, job, ready, worker, loop, restarts, rid, answer, memory>>

(* try_send: the channel is open, its receiver alive, and it is empty.     *)
Sendable == tx = "open" /\ sup # "none" /\ queue = <<>>

Send(c) ==
  /\ call[c] = "admitted" /\ Sendable
  /\ queue' = <<c>>
  /\ call' = [call EXCEPT ![c] = "waiting"]
  /\ UNCHANGED <<kind, flags, sup, job, ready, worker, loop, restarts, rid, answer, memory>>

SendFails(c) ==
  /\ call[c] = "admitted" /\ ~Sendable /\ Returns(c, Failed)
  /\ UNCHANGED <<kind, flags, queue, sup, job, ready, worker, loop, restarts, memory>>

Finish(c) ==
  /\ call[c] = "waiting" /\ answer[c] # Unanswered
  /\ call' = [call EXCEPT ![c] = "returned"]
  /\ UNCHANGED <<kind, flags, queue, sup, job, ready, worker, loop, restarts, rid, answer, memory>>

(* The caller drops the future: the reply is closed.                       *)
Drop(c) ==
  /\ call[c] = "waiting" /\ answer[c] = Unanswered
  /\ call' = [call EXCEPT ![c] = "dropped"]
  /\ UNCHANGED <<kind, flags, queue, sup, job, ready, worker, loop, restarts, rid, answer, memory>>

-----------------------------------------------------------------------------
(* The supervisor thread.                                                  *)
SupGoes(pc) == sup' = pc /\ UNCHANGED <<kind, tx, loop, restarts, call, rid, memory>>

(* Temporary storage and the worker's process, or neither.                 *)
Spawn ==
  /\ sup = "spawn"
  /\ \/ SupGoes("startup") /\ child' = "loading" /\ UNCHANGED ready
     \/ SupGoes("none") /\ ready' = "err" /\ UNCHANGED child
  /\ UNCHANGED <<healthy, stopped, queue, job, reader, frames, answer>>

(* validate_ready: the first frame names the pinned runtime and model.  The *)
(* mutant reads only the frame's type.                                     *)
AnyReady(f) == f.type \in {"ready", "alien"}
ReadyFits(f) == f.type = "ready"

StartupFrame ==
  /\ sup = "startup" /\ frames # <<>> /\ ReadyFits(Head(frames))
  /\ frames' = Tail(frames) /\ SupGoes("check")
  /\ UNCHANGED <<healthy, stopped, queue, job, ready, reader, child, answer>>

NotReady ==
  /\ SupGoes("loop") /\ ready' = "err" /\ stopped' = TRUE
  /\ UNCHANGED <<healthy, queue, job, worker, answer>>

(* Another frame, a timeout, the end of output, or a stop.                 *)
StartupFails == sup = "startup" /\ NotReady

Check ==
  /\ sup = "check"
  /\ \/ reader # "closed" /\ ~stopped /\ child # "dead" /\ SupGoes("advertise")
        /\ UNCHANGED <<healthy, stopped, queue, job, ready, worker, answer>>
     \/ ~(reader # "closed" /\ ~stopped /\ child # "dead") /\ NotReady

Advertise ==
  /\ sup = "advertise" /\ SupGoes("loop")
  /\ healthy' = TRUE /\ ready' = "ok"
  /\ UNCHANGED <<stopped, queue, job, worker, answer>>

(* The loop's condition.  The mutant trusts the health flag alone.         *)
GoOnWhileHealthy == healthy /\ ~stopped
GoOn == reader # "closed" /\ healthy /\ ~stopped

LoopHead ==
  /\ sup = "loop" /\ SupGoes(IF GoOn THEN "idle" ELSE "ending")
  /\ UNCHANGED <<healthy, stopped, queue, job, ready, worker, answer>>

TakeJob ==
  /\ sup = "idle" /\ queue # <<>>
  /\ queue' = <<>>
  /\ \/ call[Head(queue)] = "dropped" /\ SupGoes("loop") /\ UNCHANGED job
     \/ call[Head(queue)] # "dropped" /\ SupGoes("write") /\ job' = Head(queue)
  /\ UNCHANGED <<healthy, stopped, ready, worker, answer>>

(* 25 ms without a job: a frame nobody asked for, or a dead worker.        *)
IdleCheck ==
  /\ sup = "idle" /\ queue = <<>> /\ tx # "none"
  /\ healthy' = (healthy /\ frames = <<>> /\ child # "dead")
  /\ frames' = (IF frames = <<>> THEN frames ELSE Tail(frames))
  /\ SupGoes("loop")
  /\ UNCHANGED <<stopped, queue, job, ready, reader, child, answer>>

IdleDisconnected ==
  /\ sup = "idle" /\ queue = <<>> /\ tx = "none" /\ SupGoes("ending")
  /\ UNCHANGED <<healthy, stopped, queue, job, ready, worker, answer>>

(* run_job.  The request is written; the frame that comes next must be its *)
(* result.  The mutant does not compare the ids.                           *)
WriteJob ==
  /\ sup = "write" /\ child # "dead" /\ SupGoes("await")
  /\ UNCHANGED <<healthy, stopped, queue, job, ready, worker, answer>>

Accepts(f) == f.type = "result"
Matches(f) == f.type = "result" /\ f.of = job
RequestError(f) == f.type = "error" /\ f.of = job

(* reply.send, which does nothing when the caller has gone.                *)
Reply(a) ==
  /\ answer' = IF call[job] = "dropped" THEN answer ELSE [answer EXCEPT ![job] = a]
  /\ job' = NoCall
  /\ SupGoes("loop")

AwaitFrame ==
  /\ sup = "await" /\ frames # <<>>
  /\ frames' = Tail(frames)
  /\ LET f == Head(frames)
     IN  \/ Matches(f) /\ Reply([res |-> "ok", of |-> f.of]) /\ UNCHANGED healthy
         \/ RequestError(f) /\ Reply(Failed) /\ UNCHANGED healthy
         \/ ~Matches(f) /\ ~RequestError(f) /\ Reply(Failed) /\ healthy' = FALSE
  /\ UNCHANGED <<stopped, queue, ready, reader, child>>

Fatal ==
  /\ Reply(Failed) /\ healthy' = FALSE
  /\ UNCHANGED <<stopped, queue, ready, worker>>

(* The writer failed, the output ended, the engine is being stopped or the *)
(* caller has gone.                                                        *)
JobFails ==
  /\ \/ sup = "write" /\ child = "dead"
     \/ sup = "await" /\ frames = <<>> /\ reader = "closed"
     \/ sup \in {"write", "await"} /\ (stopped \/ call[job] = "dropped")
  /\ Fatal

JobTimesOut == sup \in {"write", "await"} /\ ~stopped /\ call[job] # "dropped" /\ Fatal

(* The worker is killed before the reader is joined.  The mutant leaves it *)
(* running.                                                                *)
EndingWithoutKill ==
  /\ sup = "ending" /\ healthy' = FALSE /\ SupGoes("reap")
  /\ UNCHANGED <<stopped, queue, job, ready, worker, answer>>

Ending ==
  /\ sup = "ending" /\ healthy' = FALSE /\ child' = "dead" /\ SupGoes("reap")
  /\ UNCHANGED <<stopped, queue, job, ready, reader, frames, answer>>

(* With the thread ends the channel's receiver: a job still in it is lost, *)
(* and its caller told so.  The mutant keeps the receiver alive.           *)
LeaveQueue == answer
DropQueue == [c \in Calls |-> IF c \in {queue[i] : i \in DOMAIN queue} /\ call[c] = "waiting"
                              THEN Failed ELSE answer[c]]

Reap ==
  /\ sup = "reap" /\ reader = "closed" /\ SupGoes("none")
  /\ answer' = DropQueue /\ queue' = <<>> /\ frames' = <<>> /\ child' = "none"
  /\ UNCHANGED <<healthy, stopped, job, ready, reader>>

Supervise ==
  \/ Spawn \/ StartupFrame \/ StartupFails \/ Check \/ Advertise
  \/ LoopHead \/ TakeJob \/ IdleCheck \/ IdleDisconnected
  \/ WriteJob \/ AwaitFrame \/ JobFails \/ Ending \/ Reap

-----------------------------------------------------------------------------
(* The reader thread, and with it the worker's output.  An idle worker may *)
(* repeat an answer; one that is asked may answer as it should, refuse, or *)
(* send something else.                                                    *)
Delivered(f) ==
  \/ Len(frames) < FrameCap /\ frames' = Append(frames, f) /\ UNCHANGED <<healthy, reader>>
  \/ Len(frames) >= FrameCap /\ healthy' = FALSE /\ reader' = "closed" /\ UNCHANGED frames

Emit(f) ==
  /\ reader = "reading" /\ Delivered(f)
  /\ UNCHANGED <<kind, stopped, tx, queue, sup, job, ready, loop, restarts, callers>>

WorkerReady ==
  /\ child = "loading"
  /\ \/ child' = "serving" /\ \E t \in {"ready", "other"} : Emit([type |-> t, of |-> NoCall])
     \/ child' = "foreign" /\ Emit([type |-> "alien", of |-> NoCall])

WorkerAnswers ==
  /\ child = "serving" /\ sup = "await" /\ UNCHANGED child
  /\ \E t \in {"result", "error", "other"} : Emit([type |-> t, of |-> job])

WorkerRepeats ==
  /\ child = "serving" /\ UNCHANGED child
  /\ \E c \in Calls : /\ answer[c].res = "ok"
                      /\ Emit([type |-> "result", of |-> c])

(* The process ends.                                                       *)
WorkerDies ==
  /\ child \in {"loading", "serving", "foreign"} /\ child' = "dead"
  /\ UNCHANGED <<kind, flags, queue, sup, job, ready, reader, frames, loop, restarts, callers>>

(* End of output, a frame too long or of no known type: the flag first,    *)
(* then output_open and the frames' channel.                               *)
ReaderFaults ==
  /\ reader = "reading" /\ child # "none"
  /\ healthy' = FALSE /\ reader' = "closed"
  /\ UNCHANGED <<kind, stopped, tx, queue, sup, job, ready, frames, child, loop, restarts, callers>>
=============================================================================
