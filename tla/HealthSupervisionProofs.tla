----------------------- MODULE HealthSupervisionProofs -----------------------
(***************************************************************************)
(* Proofs about HealthSupervision, for every value of its constants.       *)
(***************************************************************************)
EXTENDS HealthSupervision, PersistedBudgetProofs

(* Facts about the constants, used all along.                              *)
LEMMA Constants ==
  /\ MaxRestarts \in Nat /\ MaxRestarts > 0
  /\ MinInterval \in Nat /\ Window \in Nat /\ MaxDelay \in Nat
  /\ MinInterval <= Window
  /\ AgeCap \in Nat /\ AgeCap = Window + MaxDelay + 1
  /\ MaxEngineRestarts \in Nat /\ SettleChecks \in Nat /\ MaxSettleChecks \in Nat
  /\ 2 <= SettleChecks /\ SettleChecks <= MaxSettleChecks
BY BudgetConstants, HealthAssumption

-----------------------------------------------------------------------------
LEMMA TypeInit == Init => TypeOK
<1> SUFFICES ASSUME Init PROVE TypeOK
  OBVIOUS
<1>1. busy \in BOOLEAN /\ advertised \in BOOLEAN
  BY Zenon DEF Init
<1>2. BudgetTypeOK
  BY Constants DEF Init, BudgetInit, BudgetTypeOK, Budgets, Fresh
<1> QED
  BY <1>1, <1>2, Constants DEF Init, TypeOK, PC, Healths

LEMMA TypeRelaunch ==
  ASSUME TypeOK, Relaunch, burst' \in Nat, quiet' \in 0 .. AgeCap
  PROVE  TypeOK'
<1>1. busy' \in BOOLEAN /\ advertised' \in BOOLEAN
  BY Zenon DEF Relaunch, TypeOK
<1>2. BudgetTypeOK'
  BY DEF TypeOK, Relaunch, Load, BudgetTypeOK
<1> QED
  BY <1>1, <1>2, Constants DEF TypeOK, Relaunch, PC, Healths

(* The two flags are only ever assigned a truth value or kept.             *)
LEMMA FlagsStep ==
  ASSUME TypeOK, Next PROVE busy' \in BOOLEAN /\ advertised' \in BOOLEAN
<1>1. busy \in BOOLEAN /\ advertised \in BOOLEAN
  BY DEF TypeOK
<1>2. ASSUME Relaunch PROVE busy' \in BOOLEAN /\ advertised' \in BOOLEAN
  BY <1>1, <1>2, Zenon DEF Relaunch
<1>3. CASE CheckHealthy \/ CheckDown \/ Rest
  BY <1>1, <1>3, Zenon DEF CheckHealthy, CheckDown, Rest, Advertise
<1>4. CASE CheckBlip
  BY <1>1, <1>4, Zenon DEF CheckBlip, Advertise
<1>5. CASE BackendWaits \/ BackendRelaunches
  BY <1>1, <1>5, Zenon DEF BackendWaits, BackendRelaunches, FailedBackend, Advertise
<1>6. CASE RelaunchBackend \/ RestartEngine \/ Crash
  BY <1>1, <1>2, <1>6, Zenon DEF RelaunchBackend, RestartEngine, Crash
<1>7. CASE EngineChanges \/ JobsChange \/ Tick
  BY <1>1, <1>7, Zenon DEF EngineChanges, JobsChange, Tick
<1> QED
  BY <1>3, <1>4, <1>5, <1>6, <1>7, Zenon DEF Next, HeartbeatLoop

LEMMA TypeStep == TypeOK /\ [Next]_vars => TypeOK'
<1> SUFFICES ASSUME TypeOK, [Next]_vars PROVE TypeOK'
  OBVIOUS
<1>u. CASE UNCHANGED vars
  BY <1>u DEF vars, budget, history, TypeOK, BudgetTypeOK, Healths
<1> SUFFICES ASSUME Next PROVE TypeOK'
  BY <1>u
<1>f. busy' \in BOOLEAN /\ advertised' \in BOOLEAN
  BY FlagsStep
<1> USE Constants DEF TypeOK
<1>s. Streak \in 0 .. MaxSettleChecks
  BY DEF Streak
<1>0. 0 \in 0 .. MaxDelay /\ mem \in Budgets
  BY DEF BudgetTypeOK
<1>1. CASE CheckHealthy \/ CheckBlip
  <2>1. \/ streak' = 0 /\ attempts' = 0
        \/ streak' = Streak /\ attempts' = attempts
    BY <1>1, Zenon DEF CheckHealthy, CheckBlip
  <2>2. pc' = "rest" /\ UNCHANGED <<kind, health, history, budget>>
    BY <1>1, Zenon DEF CheckHealthy, CheckBlip
  <2> QED
    BY <1>f, <1>s, <2>1, <2>2 DEF PC, Healths, budget, history, BudgetTypeOK
<1>r. CASE Rest
  BY <1>r, <1>f DEF Rest, PC, Healths, budget, history, BudgetTypeOK
<1>2. CASE CheckDown
  BY <1>2, <1>f, <1>s DEF CheckDown, AttemptCounted, PC, Healths, budget, history, BudgetTypeOK
<1>3. CASE BackendWaits
  <2>1. BudgetTypeOK'
    BY <1>0, <1>3, BudgetTypes DEF BackendWaits, Decay, Persist, BudgetTypeOK
  <2> QED
    BY <1>3, <2>1, <1>f, <1>s DEF BackendWaits, FailedBackend, PC, Healths, history
<1>4. CASE BackendRelaunches
  <2>1. BudgetTypeOK'
    BY <1>0, <1>4, BudgetTypes DEF BackendRelaunches, Note, Persist, BudgetTypeOK
  <2> QED
    BY <1>4, <2>1, <1>f, <1>s DEF BackendRelaunches, FailedBackend, PC, Healths, history
<1>5. CASE RelaunchBackend
  <2>1. burst' \in Nat /\ quiet' \in 0 .. AgeCap
    BY <1>5 DEF RelaunchBackend
  <2> QED
    BY <1>5, <2>1, TypeRelaunch DEF RelaunchBackend
<1>6. CASE RestartEngine
  <2>1. burst' \in Nat /\ quiet' \in 0 .. AgeCap
    BY <1>6 DEF RestartEngine, history
  <2> QED
    BY <1>6, <2>1, <1>f, TypeRelaunch DEF RestartEngine, PC, Healths, budget, BudgetTypeOK
<1>7. CASE Crash
  BY <1>7, TypeRelaunch DEF Crash, history
<1>8. CASE EngineChanges \/ JobsChange
  BY <1>8, <1>f DEF EngineChanges, JobsChange, Healths, budget, history, BudgetTypeOK
<1>9. CASE Tick
  <2>1. BudgetTypeOK'
    BY <1>9, BudgetAgesTypes DEF Tick
  <2>2. quiet' \in 0 .. AgeCap
    BY <1>9, OlderStays DEF Tick
  <2> QED
    BY <1>9, <2>1, <2>2, <1>f DEF Tick, Healths
<1> QED
  BY <1>1, <1>r, <1>2, <1>3, <1>4, <1>5, <1>6, <1>7, <1>8, <1>9 DEF Next, HeartbeatLoop

(* Type correctness, for every value of the constants.                     *)
THEOREM HealthTypeCorrect == Spec => []TypeOK
BY TypeInit, TypeStep, PTL DEF Spec

-----------------------------------------------------------------------------
(***************************************************************************)
(* The refinement of RestartBudget, for a disk that does not fail.  The    *)
(* clock is read when the relaunch is noted and does not move before the   *)
(* abort, so the cooldown holds to the tick.                               *)
(***************************************************************************)
Near == quiet <= Window

Mirrored == disk = mem
NotedBefore == mem.age <= quiet
NoneYet == burst = 0 => quiet = AgeCap
Covered == Near => burst <= mem.restarts
Cleared == pc = "relaunch" =>
  /\ mem.age = 0 /\ mem.restarts >= 1
  /\ Near => burst + 1 <= mem.restarts /\ quiet >= MinInterval

BudgetInv == Mirrored /\ NotedBefore /\ NoneYet /\ Covered /\ Cleared

LEMMA BudgetInvInit == Init => BudgetInv
BY Constants DEF Init, BudgetInit, Fresh, BudgetInv, Mirrored, NotedBefore, NoneYet, Covered,
                 Cleared, Near

(* What TypeOK says of the numbers.                                        *)
LEMMA Numbers ==
  ASSUME TypeOK
  PROVE  /\ mem.restarts \in 0 .. MaxRestarts /\ mem.age \in 0 .. AgeCap
         /\ burst \in Nat /\ quiet \in 0 .. AgeCap
BY DEF TypeOK, BudgetTypeOK, Budgets

(* Noting a relaunch makes room for it.                                    *)
LEMMA NoteMakesRoom ==
  ASSUME TypeOK, BudgetInv, Allowed(0)
  PROVE  Near => burst + 1 <= Effective(0) + 1 /\ quiet >= MinInterval
<1> USE Constants, Numbers
<1>0. Effective(0) \in Nat
  BY DEF Effective
<1> SUFFICES ASSUME Near PROVE burst <= Effective(0) /\ quiet >= MinInterval
  BY <1>0
<1>1. mem.age <= Window /\ burst <= mem.restarts
  BY DEF BudgetInv, NotedBefore, Covered, Near
<1>2. Effective(0) = mem.restarts
  BY <1>1 DEF Effective, Since
<1>3. burst > 0
  BY DEF BudgetInv, NoneYet, Near
<1>4. mem.age >= MinInterval
  BY <1>1, <1>2, <1>3 DEF Allowed, CoolingDown, Since
<1> QED
  BY <1>1, <1>2, <1>4 DEF BudgetInv, NotedBefore

LEMMA BudgetInvStep ==
  ASSUME DiskMayFail = FALSE, TypeOK, BudgetInv, [Next]_vars
  PROVE  BudgetInv'
<1> USE Constants, Numbers
<1> USE DEF BudgetInv, Mirrored, NotedBefore, NoneYet, Covered, Cleared, Near
<1>u. CASE UNCHANGED vars
  BY <1>u DEF vars, budget, history
<1>1. CASE CheckHealthy \/ CheckBlip \/ CheckDown \/ Rest
  BY <1>1 DEF CheckHealthy, CheckBlip, CheckDown, Rest, budget, history
<1>2. CASE EngineChanges \/ JobsChange
  BY <1>2 DEF EngineChanges, JobsChange, budget, history
<1>3. CASE BackendWaits
  <2>1. CASE Since(0) > Window
    <3>1. ~Near
      BY <2>1 DEF Since
    <3>2. mem' = [mem EXCEPT !.restarts = 0] /\ disk' = mem' /\ UNCHANGED history /\ pc' = "rest"
      BY <1>3, <2>1 DEF BackendWaits, Decay, Persist
    <3>3. mem'.age = mem.age
      BY <3>2 DEF TypeOK, BudgetTypeOK, Budgets
    <3> QED
      BY <3>1, <3>2, <3>3 DEF history
  <2>2. CASE ~(Since(0) > Window)
    BY <1>3, <2>2 DEF BackendWaits, Decay, history
  <2> QED
    BY <2>1, <2>2
<1>4. CASE BackendRelaunches
  <2>1. mem' = [restarts |-> Effective(0) + 1, age |-> 0] /\ disk' = mem'
    BY <1>4 DEF BackendRelaunches, Note, Persist
  <2>2. Effective(0) \in Nat
    BY DEF Effective
  <2>3. Near => burst + 1 <= Effective(0) + 1 /\ quiet >= MinInterval
    BY <1>4, NoteMakesRoom DEF BackendRelaunches
  <2>4. UNCHANGED <<burst, quiet>>
    BY <1>4 DEF BackendRelaunches, history
  <2> QED
    BY <2>1, <2>2, <2>3, <2>4
<1>5. CASE RelaunchBackend
  <2>1. mem' = disk /\ disk' = disk /\ pc' = "check" /\ pc = "relaunch"
    BY <1>5 DEF RelaunchBackend, Relaunch, Load
  <2>2. quiet' = 0 /\ burst' = IF Near THEN burst + 1 ELSE 1
    BY <1>5 DEF RelaunchBackend
  <2> QED
    BY <2>1, <2>2
<1>6. CASE RestartEngine
  BY <1>6 DEF RestartEngine, Relaunch, Load, budget, history
<1>7. CASE Crash
  BY <1>7 DEF Crash, Relaunch, Load, history
<1>8. CASE Tick
  <2>1. mem' = [mem EXCEPT !.age = Older(mem.age, AgeCap)] /\ disk' = mem'
    BY <1>8 DEF Tick, BudgetAges
  <2>2. mem'.restarts = mem.restarts /\ mem'.age = Older(mem.age, AgeCap)
    BY <2>1 DEF TypeOK, BudgetTypeOK, Budgets
  <2>3. quiet' = Older(quiet, AgeCap) /\ burst' = burst /\ pc' # "relaunch"
    BY <1>8 DEF Tick
  <2>4. NotedBefore' /\ NoneYet'
    BY <2>2, <2>3 DEF Older
  <2>5. Near' => Near
    BY <2>3 DEF Older
  <2> QED
    BY <2>1, <2>2, <2>3, <2>4, <2>5
<1> QED
  BY <1>u, <1>1, <1>2, <1>3, <1>4, <1>5, <1>6, <1>7, <1>8 DEF Next, HeartbeatLoop

LEMMA BudgetStep ==
  ASSUME TypeOK, BudgetInv, [Next]_vars
  PROVE  [Budget!Next]_Budget!vars
<1> USE Constants, Numbers
<1>1. CASE UNCHANGED history
  BY <1>1 DEF history, Budget!vars
<1>2. CASE RelaunchBackend
  <2>1. pc = "relaunch" /\ quiet' = 0 /\ burst' = IF Near THEN burst + 1 ELSE 1
    BY <1>2 DEF RelaunchBackend, Near
  <2> QED
    BY <2>1 DEF Budget!Next, Budget!Restart, BudgetInv, Cleared, Near
<1>3. CASE Tick
  BY <1>3 DEF Tick, Older, Budget!Next, Budget!Tick, Budget!vars
<1>4. ASSUME ~RelaunchBackend, ~Tick PROVE UNCHANGED history
  BY <1>4 DEF Next, HeartbeatLoop, vars, history, CheckHealthy, CheckBlip, CheckDown, BackendWaits,
              BackendRelaunches, RestartEngine, Rest, Crash, EngineChanges, JobsChange
<1> QED
  BY <1>1, <1>2, <1>3, <1>4

(* However often the process aborts or crashes, relaunches for a failed    *)
(* backend keep to the cap and to the cooldown, if the disk does not fail. *)
THEOREM RelaunchesKeepBudget ==
  ASSUME DiskMayFail = FALSE PROVE Spec => RefinesBudget
<1>1. Init => Budget!Init
  BY DEF Init, Budget!Init
<1>2. Init => BudgetInv
  BY BudgetInvInit
<1>3. TypeOK /\ BudgetInv /\ [Next]_vars => BudgetInv'
  BY BudgetInvStep
<1>4. TypeOK /\ BudgetInv /\ [Next]_vars => [Budget!Next]_Budget!vars
  BY BudgetStep
<1> QED
  BY <1>1, <1>2, <1>3, <1>4, HealthTypeCorrect, PTL DEF Spec, RefinesBudget, Budget!Spec
=============================================================================
