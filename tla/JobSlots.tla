------------------------------ MODULE JobSlots ------------------------------
(***************************************************************************)
(* Admission and release of jobs in the node agent (src/src/node.rs).      *)
(*                                                                         *)
(* A job reaches the node by WebSocket push or in the answer to a REST     *)
(* heartbeat; both transports call maybe_spawn_job.  Three pieces of shared*)
(* state decide what happens: the capacity counter active_jobs (an atomic  *)
(* u32), the set inflight of the ids being run, and the bounded            *)
(* de-duplication list seen.  Each accepted job becomes a task that gives  *)
(* its slot back when it ends.  The heartbeat loop meanwhile may decide    *)
(* that the engine is wedged, or returns only empty replies; it then       *)
(* restarts it, clears inflight and takes the slots of the cleared jobs    *)
(* back itself, racing the tasks that still run.                           *)
(*                                                                         *)
(* An atomic step is one access to shared state: what lies between two of  *)
(* them is local to the thread.  A program counter names what comes next.  *)
(***************************************************************************)
EXTENDS Integers, Sequences, FiniteSets

CONSTANTS
  Jobs,              \* job ids the orchestrator may send
  NoJob,             \* the absence of a job
  Tasks,             \* names for the job tasks alive at one time
  MaxJobs,           \* effective_slots: how many jobs may hold a slot
  SeenCap,           \* ids the de-duplication list remembers (1024)
  MaxWedgeRestarts,  \* restarts without progress before abort (3)
  CounterModulus     \* active_jobs wraps here (2^32)

ASSUME SetsAssumption == NoJob \notin Jobs /\ IsFiniteSet(Jobs) /\ IsFiniteSet(Tasks)
ASSUME BoundsAssumption ==
  /\ MaxJobs \in Nat \ {0} /\ SeenCap \in Nat \ {0} /\ MaxWedgeRestarts \in Nat
  /\ CounterModulus \in Nat /\ MaxJobs < CounterModulus

VARIABLES
  activeJobs,     \* the capacity counter
  inflight,       \* ids being run, as the heartbeat reports them
  seen,           \* ids already handled, oldest first
  stale,          \* no accept and no job end for longer than wedge_ms
  progressed,     \* completions > last_completions
  quarantined,    \* EmptyHealth.quarantined
  tripped,        \* EmptyHealth.consecutive has reached its threshold
  hung,           \* tasks whose engine call does not return
  wedgeRestarts,  \* wedge restarts since the last completion
  hb,             \* where the heartbeat loop is
  cause,          \* why the loop is restarting the engine
  abandoned,      \* ids cleared from inflight whose slots are still held
  reported,       \* active_job_ids of the heartbeat being prepared
  dpc, djob,      \* the two dispatch paths: where, and with which job
  inProcess,      \* the engine they dispatch to: its restart is an abort()
  tpc, tjob,      \* the job tasks: where, and with which job
  starts          \* history: tasks spawned for a job by this process (0..2)

health   == <<stale, progressed, quarantined, tripped, hung>>
loop     == <<wedgeRestarts, hb, cause, abandoned, reported>>
dispatch == <<dpc, djob, inProcess>>
tasks    == <<tpc, tjob, starts>>
vars     == <<activeJobs, inflight, seen, health, loop, dispatch, tasks>>

Dispatchers == {"ws", "rest"}
DispatchPC  == {"idle", "gate", "reserve", "dedup", "track", "spawn"}
TaskPC      == {"none", "engine", "complete", "fail", "untrack", "release", "count", "stamp"}
HeartbeatPC == {"watch", "restart", "clear", "release", "heal", "canary",
                "snapshot", "health", "post", "dispatch"}

SeenIds == {seen[i] : i \in DOMAIN seen}

(* An id is tracked from the moment it is noted until it leaves inflight.  *)
Tracked(j) == j \in inflight \/ \E d \in Dispatchers : dpc[d] = "track" /\ djob[d] = j

FlagsOK == /\ stale \in BOOLEAN /\ progressed \in BOOLEAN
           /\ quarantined \in BOOLEAN /\ tripped \in BOOLEAN

TypeOK ==
  /\ FlagsOK
  /\ activeJobs \in 0 .. CounterModulus - 1
  /\ inflight \subseteq Jobs
  /\ seen \in Seq(Jobs) /\ Len(seen) <= SeenCap
  /\ hung \subseteq {t \in Tasks : tpc[t] = "engine"}
  /\ wedgeRestarts \in 0 .. MaxWedgeRestarts
  /\ hb \in HeartbeatPC
  /\ cause \in {"wedge", "empty"}
  /\ abandoned \in Nat
  /\ reported \subseteq Jobs
  /\ dpc \in [Dispatchers -> DispatchPC] /\ djob \in [Dispatchers -> Jobs \cup {NoJob}]
  /\ \A d \in Dispatchers : dpc[d] # "idle" => djob[d] \in Jobs
  /\ tpc \in [Tasks -> TaskPC] /\ tjob \in [Tasks -> Jobs \cup {NoJob}]
  /\ \A t \in Tasks : tpc[t] # "none" => tjob[t] \in Jobs
  /\ starts \in [Jobs -> 0 .. 2]

-----------------------------------------------------------------------------
(* A process that has just started: every counter and set is fresh.        *)
Init ==
  /\ activeJobs = 0 /\ inflight = {} /\ seen = <<>>
  /\ stale = FALSE /\ progressed = FALSE /\ quarantined = FALSE /\ tripped = FALSE
  /\ hung = {}
  /\ wedgeRestarts = 0 /\ hb = "watch" /\ cause = "wedge" /\ abandoned = 0 /\ reported = {}
  /\ dpc = [d \in Dispatchers |-> "idle"] /\ djob = [d \in Dispatchers |-> NoJob]
  /\ inProcess \in BOOLEAN
  /\ tpc = [t \in Tasks |-> "none"] /\ tjob = [t \in Tasks |-> NoJob]
  /\ starts = [j \in Jobs |-> 0]

(* std::process::abort() and the relaunch by the service manager: all this *)
(* state is in memory, so nothing of it survives.                          *)
Relaunch ==
  /\ activeJobs' = 0 /\ inflight' = {} /\ seen' = <<>>
  /\ stale' = FALSE /\ progressed' = FALSE /\ quarantined' = FALSE /\ tripped' = FALSE
  /\ hung' = {}
  /\ wedgeRestarts' = 0 /\ hb' = "watch" /\ cause' = "wedge" /\ abandoned' = 0 /\ reported' = {}
  /\ dpc' = [d \in Dispatchers |-> "idle"] /\ djob' = [d \in Dispatchers |-> NoJob]
  /\ UNCHANGED inProcess
  /\ tpc' = [t \in Tasks |-> "none"] /\ tjob' = [t \in Tasks |-> NoJob]
  /\ starts' = [j \in Jobs |-> 0]

(* fetch_sub(1) on the u32 counter, and saturating_sub.  The mutant of     *)
(* GiveBack forgets to decrement.                                          *)
SatSub(c, n) == IF n <= c THEN c - n ELSE 0
GiveBackNothing == UNCHANGED activeJobs
GiveBack == activeJobs' = IF activeJobs = 0 THEN CounterModulus - 1 ELSE activeJobs - 1

-----------------------------------------------------------------------------
(* maybe_spawn_job, run by the WebSocket callback and by the REST loop.    *)

DispatcherGoes(d, pc) == dpc' = [dpc EXCEPT ![d] = pc] /\ UNCHANGED <<djob, inProcess>>
DispatcherEnds(d) ==
  /\ dpc' = [dpc EXCEPT ![d] = "idle"] /\ djob' = [djob EXCEPT ![d] = NoJob]
  /\ UNCHANGED inProcess

(* The bound on live tasks, which the program does not have: jobs are      *)
(* offered only while there is a task name for every dispatch under way.   *)
TasksBound == Cardinality({d \in Dispatchers : dpc[d] # "idle"})
                < Cardinality({t \in Tasks : tpc[t] = "none"})

Offer(d, j) ==
  /\ dpc[d] = "idle" /\ TasksBound
  /\ dpc' = [dpc EXCEPT ![d] = "gate"]
  /\ djob' = [djob EXCEPT ![d] = j]
  /\ UNCHANGED <<inProcess, activeJobs, inflight, seen, health, loop, tasks>>

(* A job pushed over the WebSocket, at any moment; a job in pending_jobs   *)
(* of the heartbeat's answer.                                              *)
WsOffer(j) == Offer("ws", j)
RestOffer(j) == hb = "dispatch" /\ Offer("rest", j)

(* Refuse new work while the engine is suspected of empty replies.         *)
Gate(d) ==
  /\ dpc[d] = "gate"
  /\ IF quarantined THEN DispatcherEnds(d) ELSE DispatcherGoes(d, "reserve")
  /\ UNCHANGED <<activeJobs, inflight, seen, health, loop, tasks>>

(* Room for one more job.                                                  *)
Room == activeJobs < MaxJobs

(* What a job turned away at capacity leaves behind: nothing, so that the  *)
(* next poll retries it.  The mutant marks it seen.                        *)
DeferralMarksSeen(j) == seen' = IF j \in SeenIds THEN seen ELSE Append(seen, j)
DeferralLeaves(j) == UNCHANGED seen

(* The capacity check and the increment are one fetch_update.              *)
Reserve(d) ==
  /\ dpc[d] = "reserve"
  /\ \/ Room /\ activeJobs' = activeJobs + 1 /\ DispatcherGoes(d, "dedup") /\ UNCHANGED seen
     \/ ~Room /\ DispatcherEnds(d) /\ DeferralLeaves(djob[d]) /\ UNCHANGED activeJobs
  /\ UNCHANGED <<inflight, health, loop, tasks>>

(* check_and_insert: whether the id is known (the mutant knows only the    *)
(* ids still tracked), and its insertion, before which a full list drops   *)
(* its oldest id (the mutant drops one too early).                         *)
KnownWhileTracked(j) == Tracked(j)
Known(j) == j \in SeenIds
InsertDropsEarly(j) ==
  Append(IF Len(seen) >= SeenCap - 1 /\ seen # <<>> THEN Tail(seen) ELSE seen, j)
Insert(j) == Append(IF Len(seen) >= SeenCap THEN Tail(seen) ELSE seen, j)

(* Under the lock of seen: note the id, or give the slot back.             *)
Dedup(d) ==
  /\ dpc[d] = "dedup"
  /\ \/ ~Known(djob[d]) /\ seen' = Insert(djob[d]) /\ DispatcherGoes(d, "track")
        /\ UNCHANGED activeJobs
     \/ Known(djob[d]) /\ GiveBack /\ DispatcherEnds(d) /\ UNCHANGED seen
  /\ UNCHANGED <<inflight, health, loop, tasks>>

Track(d) ==
  /\ dpc[d] = "track"
  /\ inflight' = inflight \cup {djob[d]}
  /\ DispatcherGoes(d, "spawn")
  /\ UNCHANGED <<activeJobs, seen, health, loop, tasks>>

(* Stamp last_activity and spawn the task.                                 *)
Spawn(d) ==
  /\ dpc[d] = "spawn"
  /\ \E t \in Tasks :
       /\ tpc[t] = "none"
       /\ tpc' = [tpc EXCEPT ![t] = "engine"]
       /\ tjob' = [tjob EXCEPT ![t] = djob[d]]
  /\ stale' = FALSE
  /\ starts' = [starts EXCEPT ![djob[d]] = IF @ < 2 THEN @ + 1 ELSE 2]
  /\ DispatcherEnds(d)
  /\ UNCHANGED <<activeJobs, inflight, seen, progressed, quarantined, tripped, hung, loop>>

MaybeSpawnJob(d) == Gate(d) \/ Reserve(d) \/ Dedup(d) \/ Track(d) \/ Spawn(d)

-----------------------------------------------------------------------------
(* The spawned task: process_job, then the release of the slot.            *)

TaskGoes(t, pc) == tpc' = [tpc EXCEPT ![t] = pc] /\ UNCHANGED <<tjob, starts, loop, dispatch>>

(* The engine stops answering this request (external).                     *)
Hang(t) ==
  /\ tpc[t] = "engine" /\ t \notin hung
  /\ hung' = hung \cup {t}
  /\ UNCHANGED <<activeJobs, inflight, seen, stale, progressed, quarantined, tripped,
                 loop, dispatch, tasks>>

(* The engine call returns: a reply, whose emptiness moves the streak of   *)
(* empty completions, or an error.  After a restart the call may still     *)
(* return a reply, since chat_completion retries failed connections.       *)
EngineReturns(t) ==
  /\ tpc[t] = "engine" /\ t \notin hung
  /\ \/ TaskGoes(t, "complete") /\ tripped' \in BOOLEAN
     \/ TaskGoes(t, "fail") /\ UNCHANGED tripped
  /\ UNCHANGED <<activeJobs, inflight, seen, stale, progressed, quarantined, hung>>

(* post_complete or fail_job has returned, whatever its answer.            *)
Posted(t) ==
  /\ tpc[t] \in {"complete", "fail"}
  /\ TaskGoes(t, "untrack")
  /\ UNCHANGED <<activeJobs, inflight, seen, health>>

(* still_tracked: the slot is this task's to release only if its id is     *)
(* still in inflight.  The mutant releases a slot in any case.             *)
AlwaysTracked(t) == t \in Tasks
StillTracked(t) == tjob[t] \in inflight

Untrack(t) ==
  /\ tpc[t] = "untrack"
  /\ inflight' = inflight \ {tjob[t]}
  /\ TaskGoes(t, IF StillTracked(t) THEN "release" ELSE "stamp")
  /\ UNCHANGED <<activeJobs, seen, health>>

ReleaseSlot(t) ==
  /\ tpc[t] = "release"
  /\ GiveBack
  /\ TaskGoes(t, "count")
  /\ UNCHANGED <<inflight, seen, health>>

CountCompletion(t) ==
  /\ tpc[t] = "count"
  /\ progressed' = TRUE
  /\ TaskGoes(t, "stamp")
  /\ UNCHANGED <<activeJobs, inflight, seen, stale, quarantined, tripped, hung>>

StampEnd(t) ==
  /\ tpc[t] = "stamp"
  /\ stale' = FALSE
  /\ tpc' = [tpc EXCEPT ![t] = "none"]
  /\ tjob' = [tjob EXCEPT ![t] = NoJob]
  /\ UNCHANGED <<activeJobs, inflight, seen, progressed, quarantined, tripped, hung,
                 loop, dispatch, starts>>

TaskStep(t) == \/ EngineReturns(t) \/ Posted(t) \/ Untrack(t)
               \/ ReleaseSlot(t) \/ CountCompletion(t) \/ StampEnd(t)

(* wedge_ms go by without a stamp.                                         *)
GoStale ==
  /\ ~stale /\ stale' = TRUE
  /\ UNCHANGED <<activeJobs, inflight, seen, progressed, quarantined, tripped, hung,
                 loop, dispatch, tasks>>

-----------------------------------------------------------------------------
(* The heartbeat loop of start().                                          *)

LoopGoes(pc) == hb' = pc /\ UNCHANGED <<dispatch, tasks>>

Wedged == activeJobs > 0 /\ stale

(* Restarts since the last real completion, which resets the backstop; and *)
(* whether the backstop is reached (in the mutant it never is).            *)
WedgeCount == IF progressed THEN 0 ELSE wedgeRestarts
NeverExhausted == FALSE
WedgesExhausted == WedgeCount >= MaxWedgeRestarts

WatchQuiet ==
  /\ hb = "watch" /\ ~Wedged
  /\ wedgeRestarts' = WedgeCount /\ progressed' = FALSE
  /\ LoopGoes("heal")
  /\ UNCHANGED <<activeJobs, inflight, seen, stale, quarantined, tripped, hung,
                 cause, abandoned, reported>>

WatchWedged ==
  /\ hb = "watch" /\ Wedged /\ ~WedgesExhausted
  /\ wedgeRestarts' = WedgeCount + 1 /\ progressed' = FALSE
  /\ cause' = "wedge" /\ LoopGoes("restart")
  /\ UNCHANGED <<activeJobs, inflight, seen, stale, quarantined, tripped, hung,
                 abandoned, reported>>

WatchAbort == hb = "watch" /\ Wedged /\ WedgesExhausted /\ Relaunch

(* eng.restart(): a server engine is killed and started again, which ends  *)
(* the calls that hung; an in-process engine aborts the node.              *)
Restart(next) ==
  \/ inProcess /\ Relaunch
  \/ /\ ~inProcess
     /\ hung' = {}
     /\ LoopGoes(next)
     /\ UNCHANGED <<activeJobs, inflight, seen, stale, progressed, quarantined, tripped,
                    wedgeRestarts, cause, abandoned, reported>>

RestartEngine == hb = "restart" /\ Restart("clear")

(* Forget every job in flight, then take back as many slots and stamp      *)
(* last_activity.                                                          *)
Abandon ==
  /\ hb = "clear"
  /\ abandoned' = Cardinality(inflight) /\ inflight' = {}
  /\ LoopGoes("release")
  /\ UNCHANGED <<activeJobs, seen, health, wedgeRestarts, cause, reported>>

ReleaseAbandoned ==
  /\ hb = "release"
  /\ activeJobs' = SatSub(activeJobs, abandoned) /\ abandoned' = 0
  /\ stale' = FALSE
  /\ LoopGoes(IF cause = "wedge" THEN "heal" ELSE "snapshot")
  /\ UNCHANGED <<inflight, seen, progressed, quarantined, tripped, hung,
                 wedgeRestarts, cause, reported>>

(* take_trip, then quarantine before the canary is awaited.                *)
Heal ==
  /\ hb = "heal"
  /\ quarantined' = (quarantined \/ tripped) /\ tripped' = FALSE
  /\ LoopGoes(IF quarantined \/ tripped THEN "canary" ELSE "snapshot")
  /\ UNCHANGED <<activeJobs, inflight, seen, stale, progressed, hung,
                 wedgeRestarts, cause, abandoned, reported>>

(* The canary's answer: quarantine lifted; still parked; or the engine     *)
(* confirmed dead, within the budget, and restarted while quarantined.     *)
CanaryClears ==
  /\ hb = "canary" /\ LoopGoes("snapshot")
  /\ quarantined' = FALSE
  /\ UNCHANGED <<activeJobs, inflight, seen, stale, progressed, tripped, hung,
                 wedgeRestarts, cause, abandoned, reported>>

CanaryParks ==
  /\ hb = "canary" /\ LoopGoes("snapshot")
  /\ UNCHANGED <<activeJobs, inflight, seen, health, wedgeRestarts, cause, abandoned, reported>>

CanaryRestarts ==
  /\ hb = "canary" /\ LoopGoes("restart")
  /\ cause' = "empty"
  /\ UNCHANGED <<activeJobs, inflight, seen, health, wedgeRestarts, abandoned, reported>>

(* active_job_ids is read before the health check is awaited.              *)
Snapshot ==
  /\ hb = "snapshot" /\ LoopGoes("health")
  /\ reported' = inflight
  /\ UNCHANGED <<activeJobs, inflight, seen, health, wedgeRestarts, cause, abandoned>>

(* The /health supervision may restart the engine without abandoning jobs. *)
HealthPasses ==
  /\ hb = "health" /\ LoopGoes("post")
  /\ UNCHANGED <<activeJobs, inflight, seen, health, wedgeRestarts, cause, abandoned, reported>>

HealthRestarts == hb = "health" /\ Restart("post")

(* The heartbeat is answered, with jobs to dispatch, or fails.             *)
Posts(next) ==
  /\ hb = "post" /\ LoopGoes(next)
  /\ reported' = {}
  /\ UNCHANGED <<activeJobs, inflight, seen, health, wedgeRestarts, cause, abandoned>>

HeartbeatAnswered == Posts("dispatch")
HeartbeatFails == Posts("watch")

DispatchEnds ==
  /\ hb = "dispatch" /\ dpc["rest"] = "idle" /\ LoopGoes("watch")
  /\ UNCHANGED <<activeJobs, inflight, seen, health, wedgeRestarts, cause, abandoned, reported>>

Heartbeat ==
  \/ WatchQuiet \/ WatchWedged \/ WatchAbort
  \/ RestartEngine \/ Abandon \/ ReleaseAbandoned
  \/ Heal \/ CanaryClears \/ CanaryParks \/ CanaryRestarts
  \/ Snapshot \/ HealthPasses \/ HealthRestarts
  \/ HeartbeatAnswered \/ HeartbeatFails \/ DispatchEnds

-----------------------------------------------------------------------------
Next ==
  \/ \E j \in Jobs : WsOffer(j) \/ RestOffer(j)
  \/ \E d \in Dispatchers : MaybeSpawnJob(d)
  \/ \E t \in Tasks : TaskStep(t) \/ Hang(t)
  \/ GoStale
  \/ Heartbeat

Spec == Init /\ [][Next]_vars

(***************************************************************************)
(* Fairness.  The runtime polls every ready task, so the heartbeat loop,   *)
(* a dispatch under way and a task whose engine call returns all go on.    *)
(* Time passes: if no stamp is ever set again the activity becomes stale.  *)
(* The orchestrator answers heartbeats again and again, pushes each job    *)
(* finitely often, keeps offering it over REST, and puts finitely many in  *)
(* one answer; a canary that is run for ever is one day answered; and the  *)
(* process is aborted finitely often.                                      *)
(***************************************************************************)
Stamps == \/ \E d \in Dispatchers : Spawn(d)
          \/ \E t \in Tasks : StampEnd(t)
          \/ ReleaseAbandoned

Aborts == WatchAbort \/ (inProcess /\ (RestartEngine \/ HealthRestarts))

Fairness ==
  /\ WF_vars(Heartbeat)
  /\ \A d \in Dispatchers : WF_vars(MaybeSpawnJob(d))
  /\ \A t \in Tasks : WF_vars(TaskStep(t))
  /\ \A j \in Jobs : SF_vars(RestOffer(j)) /\ <>[][~WsOffer(j)]_vars
  /\ SF_vars(HeartbeatAnswered) /\ SF_vars(DispatchEnds) /\ SF_vars(CanaryClears)
  /\ <>[][~Aborts]_vars
  /\ []<>stale \/ []<><<Stamps>>_vars

FairSpec == Spec /\ Fairness

-----------------------------------------------------------------------------
(* Whose slots the counter counts: dispatchers that reserved one and have  *)
(* not yet entered their id in inflight, the ids in flight, tasks about to *)
(* decrement, and ids the heartbeat loop cleared but not yet deducted.     *)
Reserved  == {d \in Dispatchers : dpc[d] \in {"dedup", "track"}}
Releasing == {t \in Tasks : tpc[t] = "release"}
Owed == Cardinality(Reserved) + Cardinality(inflight) + Cardinality(Releasing) + abandoned

(* The counter never exceeds the capacity and always covers every release  *)
(* still to come, so none of the racing decrements (task end, duplicate    *)
(* rollback, abandonment) can wrap the u32: the claim of the comment at    *)
(* node.rs:718-719.                                                        *)
SlotSafety == Owed <= activeJobs /\ activeJobs <= MaxJobs

(* No slot is lost for good: while the de-duplication list forgets nothing,*)
(* every counted slot has exactly one owner that will release it.          *)
NoSlotLeak == activeJobs = Owed

(* A job offered over both transports is run once by a process             *)
(* (node.rs:601-603).                                                      *)
AtMostOnce == \A j \in Jobs : starts[j] <= 1

(* A job the orchestrator keeps offering is run in the end: turning it     *)
(* away for capacity or quarantine does not mark it seen, and slots held   *)
(* by hung jobs come back through the wedge watchdog.                      *)
EveryJobRuns == \A j \in Jobs : <>(starts[j] > 0)

(* "They never completed, so they're never billed" (node.rs:1884-1885): a  *)
(* job about to be posted as completed has not been abandoned.             *)
AbandonedNeverCompletes == \A t \in Tasks : tpc[t] = "complete" => StillTracked(t)

(* "Without ever killing a job we ARE processing" (node.rs:695-697): the   *)
(* heartbeat that is posted names every job in flight.                     *)
HeartbeatNamesInflight == hb = "post" => inflight \subseteq reported

(* What the ledger of accepted jobs says of each id.                       *)
LedgerStatus ==
  [j \in Jobs |-> IF Tracked(j) THEN "running" ELSE IF j \in SeenIds THEN "over" ELSE "new"]

Ledger == INSTANCE JobLedger WITH status <- LedgerStatus

(* Through both transports, the watchdogs and the relaunches, the node     *)
(* tracks at most MaxJobs jobs and never takes one back that it let go.    *)
RefinesLedger == Ledger!Spec

=============================================================================
