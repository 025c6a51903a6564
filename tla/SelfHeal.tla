------------------------------ MODULE SelfHeal ------------------------------
(***************************************************************************)
(* The empty-completion self-heal of the heartbeat loop (src/src/node.rs). *)
(*                                                                         *)
(* An engine can pass its health check and yet answer every request with   *)
(* nothing.  Job tasks count consecutive empty replies; a long enough      *)
(* streak makes the loop park the node (quarantine) and probe the engine   *)
(* with a canary of its own.  An empty answer restarts the engine, within  *)
(* a persisted budget; real output lifts the quarantine; an inconclusive   *)
(* probe leaves the node parked, up to a time limit.                       *)
(***************************************************************************)
EXTENDS PersistedBudget

CONSTANTS
  Threshold,      \* EMPTY_TRIP_THRESHOLD: empty replies that trip
  StreakBound,    \* bound on the streak of empty replies
  MaxQuarantine   \* MAX_QUARANTINE_MS

ASSUME HealAssumption ==
  /\ Threshold \in Nat \ {0} /\ StreakBound \in Nat /\ Threshold <= StreakBound
  /\ MaxQuarantine \in Nat

VARIABLES
  inProcess,    \* whether restarting the engine aborts the process
  engine,       \* how the engine treats a canary (external)
  streak,       \* EmptyHealth.consecutive
  quarantined,  \* EmptyHealth.quarantined
  parked,       \* time since quarantined_since_ms
  pc,           \* where the loop is
  loaded,       \* the streak take_trip loaded
  delay,        \* time since the loop read the clock
  confirmed,    \* history: in this quarantine a canary came back empty
  burst, quiet  \* history: restarts in a burst, time since the last one

budget  == <<mem, disk>>
park    == <<quarantined, parked, confirmed>>
history == <<burst, quiet>>
vars    == <<inProcess, engine, streak, park, pc, loaded, delay, history, budget>>

Engines   == {"answers", "empty", "slow"}
PC        == {"load", "cas", "park", "canary", "restart", "rest"}
ParkedCap == MaxQuarantine + MaxDelay + 1

TypeOK ==
  /\ BudgetTypeOK
  /\ inProcess \in BOOLEAN /\ engine \in Engines
  /\ streak \in 0 .. StreakBound /\ loaded \in 0 .. StreakBound
  /\ quarantined \in BOOLEAN /\ confirmed \in BOOLEAN
  /\ parked \in 0 .. ParkedCap
  /\ pc \in PC
  /\ delay \in 0 .. MaxDelay
  /\ burst \in Nat /\ quiet \in 0 .. AgeCap

-----------------------------------------------------------------------------
(* A process in which nothing has happened yet; the budget is on disk.     *)
LoadEmptyHealth ==
  /\ streak' = 0 /\ quarantined' = FALSE /\ parked' = 0 /\ confirmed' = FALSE
  /\ pc' = "load" /\ loaded' = 0 /\ delay' = 0

Init ==
  /\ BudgetInit
  /\ inProcess \in BOOLEAN /\ engine \in Engines
  /\ streak = 0 /\ quarantined = FALSE /\ parked = 0 /\ confirmed = FALSE
  /\ pc = "load" /\ loaded = 0 /\ delay = 0
  /\ burst = 0 /\ quiet = AgeCap

-----------------------------------------------------------------------------
(* Job tasks: a reply with output, or one that may be empty, and a reply   *)
(* that should not have been empty.                                        *)
RecordOk ==
  /\ streak' = 0
  /\ UNCHANGED <<inProcess, engine, park, pc, loaded, delay, history, budget>>

RecordEmpty ==
  /\ streak < StreakBound
  /\ streak' = streak + 1
  /\ UNCHANGED <<inProcess, engine, park, pc, loaded, delay, history, budget>>

-----------------------------------------------------------------------------
(* The heartbeat loop.                                                     *)

StickyPC == IF quarantined THEN "park" ELSE "rest"

(* take_trip: load the streak, and if it has reached the threshold (in the *)
(* mutant: passed it) reset it, unless it has moved.                       *)
PassedThreshold(n) == n > Threshold
Tripping(n) == n >= Threshold

LoadStreak ==
  /\ pc = "load"
  /\ loaded' = streak
  /\ pc' = IF Tripping(streak) THEN "cas" ELSE StickyPC
  /\ UNCHANGED <<inProcess, engine, streak, park, delay, history, budget>>

CompareExchange ==
  /\ pc = "cas"
  /\ \/ streak = loaded /\ streak' = 0 /\ pc' = "park"
     \/ streak # loaded /\ UNCHANGED streak /\ pc' = StickyPC
  /\ UNCHANGED <<inProcess, engine, park, loaded, delay, history, budget>>

(* enter_quarantine(now): the time of entry is stamped on the first entry  *)
(* only (in the mutant on every one).                                      *)
StampEveryEntry == 0
ParkedOnEntry == IF quarantined THEN parked ELSE 0

EnterQuarantine ==
  /\ pc = "park" /\ pc' = "canary"
  /\ delay' = 0
  /\ quarantined' = TRUE /\ parked' = ParkedOnEntry
  /\ UNCHANGED <<inProcess, engine, streak, loaded, confirmed, history, budget>>

ClearQuarantine == quarantined' = FALSE /\ parked' = 0 /\ confirmed' = FALSE

CanaryEnds == pc' = "rest" /\ delay' = 0 /\ UNCHANGED <<inProcess, engine, streak, loaded, history>>

(* The canary came back empty: stay parked, or note a restart first.       *)
CanaryEmptyParks ==
  /\ pc = "canary" /\ engine = "empty" /\ ~Allowed(delay)
  /\ Decay(delay)
  /\ confirmed' = TRUE
  /\ CanaryEnds
  /\ UNCHANGED <<quarantined, parked>>

CanaryEmptyRestarts ==
  /\ pc = "canary" /\ engine = "empty" /\ Allowed(delay)
  /\ Note(delay)
  /\ confirmed' = TRUE
  /\ pc' = "restart"
  /\ UNCHANGED <<inProcess, engine, streak, loaded, delay, quarantined, parked, history>>

CanaryNonEmpty ==
  /\ pc = "canary" /\ engine = "answers"
  /\ ClearQuarantine /\ CanaryEnds
  /\ UNCHANGED budget

(* A timeout or an error, which a busy engine of any kind may give.        *)
CanaryInconclusive ==
  /\ pc = "canary"
  /\ IF parked - delay > MaxQuarantine THEN ClearQuarantine ELSE UNCHANGED park
  /\ CanaryEnds
  /\ UNCHANGED budget

(* A process started afresh by the service manager.                        *)
Relaunch == LoadEmptyHealth /\ Load /\ engine' \in Engines /\ UNCHANGED inProcess

(* restart_empty().                                                        *)
RestartEngine ==
  /\ pc = "restart"
  /\ burst' = (IF quiet > Window - MaxDelay THEN 1 ELSE burst + 1) /\ quiet' = 0
  /\ \/ inProcess /\ Relaunch
     \/ /\ ~inProcess
        /\ engine' \in Engines /\ pc' = "rest" /\ delay' = 0
        /\ UNCHANGED <<inProcess, streak, park, loaded, budget>>

(* The rest of the heartbeat and the sleep.                                *)
Rest ==
  /\ pc = "rest" /\ pc' = "load"
  /\ UNCHANGED <<inProcess, engine, streak, park, loaded, delay, history, budget>>

HeartbeatLoop ==
  \/ LoadStreak \/ CompareExchange \/ EnterQuarantine
  \/ CanaryEmptyParks \/ CanaryEmptyRestarts \/ CanaryNonEmpty \/ CanaryInconclusive
  \/ RestartEngine \/ Rest

-----------------------------------------------------------------------------
(* The environment: the process dies for another reason; the engine        *)
(* changes; time passes, bounded by the canary's timeout while one runs.   *)
Crash == Relaunch /\ UNCHANGED history

EngineChanges ==
  /\ engine' \in Engines \ {engine}
  /\ UNCHANGED <<inProcess, streak, park, pc, loaded, delay, history, budget>>

Tick ==
  /\ \/ pc \in {"canary", "restart"} /\ delay < MaxDelay /\ delay' = delay + 1
     \/ pc \notin {"canary", "restart"} /\ UNCHANGED delay
  /\ BudgetAges
  /\ parked' = IF quarantined THEN Older(parked, ParkedCap) ELSE parked
  /\ quiet' = Older(quiet, AgeCap)
  /\ UNCHANGED <<inProcess, engine, streak, quarantined, confirmed, pc, loaded, burst>>

Next ==
  \/ HeartbeatLoop
  \/ RecordOk \/ RecordEmpty
  \/ Crash \/ EngineChanges \/ Tick

Spec == Init /\ [][Next]_vars

(* The loop runs for ever (tokio polls it, and the canary has a timeout),  *)
(* and time passes whenever the loop waits.                                *)
FairSpec == Spec /\ WF_vars(HeartbeatLoop) /\ SF_vars(Tick)

-----------------------------------------------------------------------------
(* However often the process dies, also right after it noted a restart,    *)
(* and although an in-process restart is an abort, restarts keep to the    *)
(* cap and the cooldown (node.rs:38-40, 1910-1912).  Both are measured from*)
(* the clock read before the canary, hence less MaxDelay.                  *)
Budget == INSTANCE RestartBudget
            WITH MinGap <- MinInterval - MaxDelay, Window <- Window - MaxDelay, Longest <- AgeCap
RefinesBudget == Budget!Spec

(* "A canary-confirmed-dead engine stays parked until a canary produces    *)
(* real output" (node.rs:1908-1910): once a canary came back empty, only   *)
(* output lifts the quarantine of the running process.                     *)
ConfirmedDeadStaysParked ==
  [][confirmed /\ quarantined /\ ~quarantined' /\ pc' = "rest" => engine = "answers"]_vars

(* A node does not go dark for ever: with an engine that is not dead,      *)
(* however slow its canaries, quarantine ends again and again              *)
(* (node.rs:33-36).                                                        *)
NeverDarkForever == <>[](engine # "empty") => []<>~quarantined

(* A streak that has reached the threshold is acted upon, although         *)
(* concurrent jobs may make take_trip's compare_exchange fail.             *)
StreakNoticed == streak >= Threshold ~> quarantined \/ streak < Threshold
=============================================================================
