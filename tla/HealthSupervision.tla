------------------------- MODULE HealthSupervision -------------------------
(***************************************************************************)
(* The health supervision of the heartbeat loop (src/src/node.rs): one     *)
(* health check per heartbeat decides whether the model is advertised, and *)
(* whether a dead engine is restarted.                                     *)
(*                                                                         *)
(* A server engine that does not answer is restarted a bounded number of   *)
(* times.  An in-process engine cannot be restarted but by aborting the    *)
(* process; when its GPU backend has failed for good, the abort waits for  *)
(* the jobs in flight to report and is limited by a budget kept on disk.   *)
(***************************************************************************)
EXTENDS PersistedBudget

CONSTANTS
  MaxEngineRestarts,  \* MAX_ENGINE_RESTARTS: restarts without a good check
  SettleChecks,       \* FATAL_BACKEND_SETTLE_CHECKS
  MaxSettleChecks     \* FATAL_BACKEND_MAX_SETTLE_CHECKS, where streaks are cut off

ASSUME HealthAssumption ==
  /\ MaxEngineRestarts \in Nat
  /\ SettleChecks \in Nat /\ MaxSettleChecks \in Nat
  /\ 2 <= SettleChecks /\ SettleChecks <= MaxSettleChecks

VARIABLES
  kind,        \* the engine: a server, a dedicated worker, or this process
  health,      \* of the engine: up, down, or its backend failed for good
  busy,        \* active_jobs > 0
  streak,      \* unhealthy_streak, cut off at MaxSettleChecks
  attempts,    \* restart_attempts
  advertised,  \* whether the latest heartbeat named the model
  pc,          \* where the loop is
  burst, quiet \* history: relaunches for a failed backend

budget  == <<mem, disk>>
history == <<burst, quiet>>
vars    == <<kind, health, busy, streak, attempts, advertised, pc, history, budget>>

Kinds   == {"server", "worker", "inprocess"}
Healths == {"up", "down"} \cup (IF kind = "inprocess" THEN {"failed"} ELSE {})
PC      == {"check", "relaunch", "restart", "rest"}

TypeOK ==
  /\ BudgetTypeOK
  /\ kind \in Kinds /\ health \in Healths /\ busy \in BOOLEAN /\ advertised \in BOOLEAN
  /\ streak \in 0 .. MaxSettleChecks /\ attempts \in 0 .. MaxEngineRestarts
  /\ pc \in PC
  /\ burst \in Nat /\ quiet \in 0 .. AgeCap

Init ==
  /\ BudgetInit
  /\ kind \in Kinds /\ health = "up" /\ busy = FALSE /\ advertised = FALSE
  /\ streak = 0 /\ attempts = 0 /\ pc = "check"
  /\ burst = 0 /\ quiet = AgeCap

-----------------------------------------------------------------------------
(* A new process: the engine is loaded again.  The orchestrator still has  *)
(* the latest heartbeat of the old one.                                    *)
Relaunch ==
  /\ Load
  /\ health' \in {"up", "down"} /\ busy' = FALSE
  /\ streak' = 0 /\ attempts' = 0 /\ pc' = "check"
  /\ UNCHANGED <<kind, advertised>>

Advertise(b) == advertised' = b

(* One more failed check.  The mutant sets the streak instead of raising it.*)
StuckAtOne == 1
Streak == IF streak < MaxSettleChecks THEN streak + 1 ELSE streak

CheckHealthy ==
  /\ pc = "check" /\ health = "up"
  /\ streak' = 0 /\ attempts' = 0
  /\ Advertise(TRUE) /\ pc' = "rest"
  /\ UNCHANGED <<kind, health, busy, history, budget>>

(* fatal_backend_action: whether the failed job is still given time to     *)
(* report.  The mutant waits for as long as there are jobs.                *)
SettlingWhileBusy == Streak < SettleChecks \/ busy
Settling == Streak < SettleChecks \/ (busy /\ Streak < MaxSettleChecks)

FailedBackend == pc = "check" /\ health = "failed" /\ streak' = Streak /\ Advertise(FALSE)

(* The window's decay is evaluated before the verdict.                     *)
BackendWaits ==
  /\ FailedBackend
  /\ Settling \/ ~Allowed(0)
  /\ Decay(0)
  /\ pc' = "rest"
  /\ UNCHANGED <<kind, health, busy, attempts, history>>

BackendRelaunches ==
  /\ FailedBackend
  /\ ~Settling /\ Allowed(0)
  /\ Note(0)
  /\ pc' = "relaunch"
  /\ UNCHANGED <<kind, health, busy, attempts, history>>

(* eng.restart() after the budget is on disk: the in-process abort.        *)
RelaunchBackend ==
  /\ pc = "relaunch"
  /\ burst' = (IF quiet > Window THEN 1 ELSE burst + 1) /\ quiet' = 0
  /\ Relaunch

(* An engine that is down: the first failed check may be a blip.           *)
CheckBlip ==
  /\ pc = "check" /\ health = "down" /\ Streak < 2
  /\ streak' = Streak
  /\ Advertise(kind # "worker") /\ pc' = "rest"
  /\ UNCHANGED <<kind, health, busy, attempts, history, budget>>

(* From the second on it is restarted, up to a cap.  The mutant does not   *)
(* count the attempts.                                                     *)
AttemptUncounted == attempts
AttemptCounted == attempts + 1

CheckDown ==
  /\ pc = "check" /\ health = "down" /\ Streak >= 2
  /\ streak' = Streak
  /\ Advertise(FALSE)
  /\ \/ attempts < MaxEngineRestarts /\ attempts' = AttemptCounted /\ pc' = "restart"
     \/ attempts >= MaxEngineRestarts /\ UNCHANGED attempts /\ pc' = "rest"
  /\ UNCHANGED <<kind, health, busy, history, budget>>

RestartEngine ==
  /\ pc = "restart"
  /\ UNCHANGED history
  /\ \/ kind = "inprocess" /\ Relaunch
     \/ /\ kind # "inprocess"
        /\ health' \in Healths /\ pc' = "rest"
        /\ UNCHANGED <<kind, busy, streak, attempts, advertised, budget>>

(* The rest of the heartbeat and the sleep.                                *)
Rest ==
  /\ pc = "rest" /\ pc' = "check"
  /\ UNCHANGED <<kind, health, busy, streak, attempts, advertised, history, budget>>

HeartbeatLoop ==
  \/ CheckHealthy \/ BackendWaits \/ BackendRelaunches \/ RelaunchBackend
  \/ CheckBlip \/ CheckDown \/ RestartEngine \/ Rest

-----------------------------------------------------------------------------
(* The environment.  A failed backend stays failed: the flag is sticky.    *)
EngineChanges ==
  /\ health # "failed" /\ health' \in Healths \ {health}
  /\ UNCHANGED <<kind, busy, streak, attempts, advertised, pc, history, budget>>

JobsChange ==
  /\ busy' = ~busy
  /\ UNCHANGED <<kind, health, streak, attempts, advertised, pc, history, budget>>

Crash == Relaunch /\ UNCHANGED history

(* Nothing is awaited between reading the clock and the abort.             *)
Tick ==
  /\ pc # "relaunch"
  /\ BudgetAges
  /\ quiet' = Older(quiet, AgeCap)
  /\ UNCHANGED <<kind, health, busy, streak, attempts, advertised, pc, burst>>

Next == HeartbeatLoop \/ EngineChanges \/ JobsChange \/ Crash \/ Tick

Spec == Init /\ [][Next]_vars

(* The loop runs for ever, time passes while it sleeps, and the process is *)
(* killed by others finitely often.                                        *)
FairSpec == Spec /\ WF_vars(HeartbeatLoop) /\ SF_vars(Tick) /\ <>[][~Crash]_vars

-----------------------------------------------------------------------------
(* Relaunches for a failed backend keep to the cap and the cooldown across *)
(* the aborts and whatever else kills the process (node.rs:177-181).       *)
Budget == INSTANCE RestartBudget WITH MinGap <- MinInterval, Longest <- AgeCap
RefinesBudget == Budget!Spec

(* A failed backend, which no job can use, does not stay: the process is   *)
(* relaunched in the end, even when a job never reports and however often  *)
(* it was relaunched before ("a stuck report can't hold the node down",    *)
(* node.rs:170-175).                                                       *)
FailedBackendRelaunched == health = "failed" ~> health # "failed"

(* An engine that stays down is withdrawn for good, not offered again by   *)
(* the checks that follow a restart (node.rs:1764-1774).  It is not so of  *)
(* an in-process engine: after each abort one failed check is forgiven.    *)
DownWithdrawn == <>[](health = "down" /\ kind # "inprocess") => <>[]~advertised

(* Nor is an engine that cannot run restarted for ever                     *)
(* (node.rs:1771-1773).                                                    *)
DownNotThrashed == <>[](health = "down" /\ kind # "inprocess") => <>[](pc # "restart")
=============================================================================
