--------------------------- MODULE SelfHealProofs ---------------------------
(***************************************************************************)
(* Proofs about SelfHeal, for every value of its constants.                *)
(***************************************************************************)
EXTENDS SelfHeal, PersistedBudgetProofs

(* Facts about the constants, used all along.                              *)
LEMMA Constants ==
  /\ MaxRestarts \in Nat /\ MaxRestarts > 0
  /\ MinInterval \in Nat /\ Window \in Nat /\ MaxDelay \in Nat
  /\ MaxDelay <= MinInterval /\ MinInterval <= Window
  /\ AgeCap \in Nat /\ AgeCap = Window + MaxDelay + 1
  /\ ParkedCap \in Nat /\ ParkedCap = MaxQuarantine + MaxDelay + 1
  /\ Threshold \in Nat /\ StreakBound \in Nat /\ MaxQuarantine \in Nat
BY BudgetAssumption, HealAssumption DEF AgeCap, ParkedCap

-----------------------------------------------------------------------------
LEMMA TypeInit == Init => TypeOK
<1> SUFFICES ASSUME Init PROVE TypeOK
  OBVIOUS
<1>1. inProcess \in BOOLEAN /\ quarantined \in BOOLEAN /\ confirmed \in BOOLEAN
  BY Zenon DEF Init
<1>2. BudgetTypeOK
  BY Constants DEF Init, BudgetInit, BudgetTypeOK, Budgets, Fresh
<1> QED
  BY <1>1, <1>2, Constants DEF Init, TypeOK, PC

LEMMA TypeRelaunch ==
  ASSUME TypeOK, Relaunch, burst' \in Nat, quiet' \in 0 .. AgeCap
  PROVE  TypeOK'
<1>1. inProcess' \in BOOLEAN /\ quarantined' \in BOOLEAN /\ confirmed' \in BOOLEAN
  BY Zenon DEF Relaunch, LoadEmptyHealth, TypeOK
<1>2. BudgetTypeOK'
  BY DEF TypeOK, Relaunch, Load, BudgetTypeOK
<1> QED
  BY <1>1, <1>2, Constants DEF TypeOK, Relaunch, LoadEmptyHealth, PC

LEMMA TypeStep == TypeOK /\ [Next]_vars => TypeOK'
<1> SUFFICES ASSUME TypeOK, [Next]_vars PROVE TypeOK'
  OBVIOUS
<1> USE Constants DEF TypeOK
<1>u. CASE UNCHANGED vars
  BY <1>u DEF vars, budget, park, history, BudgetTypeOK
<1>1. CASE RecordOk \/ RecordEmpty
  BY <1>1 DEF RecordOk, RecordEmpty, budget, park, history, BudgetTypeOK
<1>2. CASE LoadStreak \/ CompareExchange \/ Rest
  BY <1>2 DEF LoadStreak, CompareExchange, Rest, StickyPC, PC, budget, park, history, BudgetTypeOK
<1>3. CASE EnterQuarantine
  BY <1>3 DEF EnterQuarantine, ParkedOnEntry, PC, budget, history, BudgetTypeOK
<1>4. CASE CanaryEmptyParks
  <2>1. BudgetTypeOK'
    BY <1>4, BudgetTypes DEF CanaryEmptyParks, Decay, Persist, BudgetTypeOK
  <2> QED
    BY <1>4, <2>1 DEF CanaryEmptyParks, CanaryEnds, PC, history
<1>5. CASE CanaryEmptyRestarts
  <2>1. BudgetTypeOK'
    BY <1>5, BudgetTypes DEF CanaryEmptyRestarts, Note, Persist, BudgetTypeOK
  <2> QED
    BY <1>5, <2>1 DEF CanaryEmptyRestarts, PC, history
<1>6. CASE CanaryNonEmpty \/ CanaryInconclusive
  <2>1. ClearQuarantine \/ UNCHANGED park
    BY <1>6 DEF CanaryNonEmpty, CanaryInconclusive
  <2>2. quarantined' \in BOOLEAN /\ confirmed' \in BOOLEAN
    BY <2>1, Zenon DEF ClearQuarantine, park
  <2>3. parked' \in 0 .. ParkedCap
    BY <2>1 DEF ClearQuarantine, park
  <2>4. CanaryEnds /\ UNCHANGED budget
    BY <1>6 DEF CanaryNonEmpty, CanaryInconclusive
  <2> QED
    BY <2>2, <2>3, <2>4 DEF CanaryEnds, PC, budget, history, BudgetTypeOK
<1>7. CASE RestartEngine
  <2>1. burst' \in Nat /\ quiet' \in 0 .. AgeCap
    BY <1>7 DEF RestartEngine
  <2> QED
    BY <1>7, <2>1, TypeRelaunch DEF RestartEngine, PC, park, budget, BudgetTypeOK
<1>8. CASE Crash
  BY <1>8, TypeRelaunch DEF Crash, history
<1>9. CASE EngineChanges
  BY <1>9 DEF EngineChanges, budget, park, history, BudgetTypeOK
<1>10. CASE Tick
  <2>1. BudgetTypeOK'
    BY <1>10, BudgetAgesTypes DEF Tick
  <2>2. quiet' \in 0 .. AgeCap /\ parked' \in 0 .. ParkedCap
    BY <1>10, OlderStays DEF Tick
  <2>3. delay' \in 0 .. MaxDelay
    BY <1>10 DEF Tick
  <2> QED
    BY <1>10, <2>1, <2>2, <2>3 DEF Tick
<1> QED
  BY <1>u, <1>1, <1>2, <1>3, <1>4, <1>5, <1>6, <1>7, <1>8, <1>9, <1>10
     DEF Next, HeartbeatLoop

(* Type correctness, for every value of the constants.                     *)
THEOREM SelfHealTypeCorrect == Spec => []TypeOK
BY TypeInit, TypeStep, PTL DEF Spec

-----------------------------------------------------------------------------
(***************************************************************************)
(* The refinement of RestartBudget, for a disk that does not fail.  The    *)
(* file mirrors the memory; the last noted restart is at most MaxDelay     *)
(* older than the last real one; within a window the count covers the      *)
(* burst; and between the note and the restart there is room for one more. *)
(***************************************************************************)
Near == quiet <= Window - MaxDelay

Mirrored == disk = mem
NotedBefore == mem.age <= quiet + MaxDelay
NoneYet == burst = 0 => quiet = AgeCap
Covered == Near => burst <= mem.restarts
Cleared == pc = "restart" =>
  /\ mem.age = delay /\ mem.restarts >= 1
  /\ Near => burst + 1 <= mem.restarts /\ quiet >= MinInterval - MaxDelay

BudgetInv == Mirrored /\ NotedBefore /\ NoneYet /\ Covered /\ Cleared

LEMMA BudgetInvInit == Init => BudgetInv
BY Constants DEF Init, BudgetInit, Fresh, BudgetInv, Mirrored, NotedBefore, NoneYet, Covered,
                 Cleared, Near

(* What TypeOK says of the numbers.                                        *)
LEMMA Numbers ==
  ASSUME TypeOK
  PROVE  /\ mem.restarts \in 0 .. MaxRestarts /\ mem.age \in 0 .. AgeCap
         /\ burst \in Nat /\ quiet \in 0 .. AgeCap /\ delay \in 0 .. MaxDelay
BY DEF TypeOK, BudgetTypeOK, Budgets

(* Noting a restart makes room for it.                                     *)
LEMMA NoteMakesRoom ==
  ASSUME TypeOK, BudgetInv, Allowed(delay)
  PROVE  Near => burst + 1 <= Effective(delay) + 1 /\ quiet >= MinInterval - MaxDelay
<1> USE Constants, Numbers
<1>0. Effective(delay) \in Nat
  BY DEF Effective
<1> SUFFICES ASSUME Near
             PROVE  burst <= Effective(delay) /\ quiet >= MinInterval - MaxDelay
  BY <1>0
<1>1. mem.age <= Window /\ burst <= mem.restarts
  BY DEF BudgetInv, NotedBefore, Covered, Near
<1>2. Effective(delay) = mem.restarts
  BY <1>1 DEF Effective, Since
<1>3. burst > 0
  BY DEF BudgetInv, NoneYet, Near
<1>4. mem.age - delay >= MinInterval
  BY <1>1, <1>2, <1>3 DEF Allowed, CoolingDown, Since
<1> QED
  BY <1>1, <1>2, <1>4 DEF BudgetInv, NotedBefore

(* A lapse of the window leaves nothing to cover.                          *)
LEMMA LapseIsFar ==
  ASSUME TypeOK, BudgetInv, NEW d \in 0 .. MaxDelay, Since(d) > Window
  PROVE  ~Near
BY Constants, Numbers DEF BudgetInv, NotedBefore, Near, Since

LEMMA BudgetInvStep ==
  ASSUME DiskMayFail = FALSE, TypeOK, BudgetInv, [Next]_vars
  PROVE  BudgetInv'
<1> USE Constants, Numbers
<1> USE DEF BudgetInv, Mirrored, NotedBefore, NoneYet, Covered, Cleared, Near
<1>u. CASE UNCHANGED vars
  BY <1>u DEF vars, budget, history
<1>1. CASE RecordOk \/ RecordEmpty \/ EngineChanges
  BY <1>1 DEF RecordOk, RecordEmpty, EngineChanges, budget, history
<1>2. CASE LoadStreak \/ CompareExchange \/ Rest \/ EnterQuarantine
  <2>1. UNCHANGED <<burst, quiet, mem, disk>> /\ pc' # "restart"
    BY <1>2 DEF LoadStreak, CompareExchange, Rest, EnterQuarantine, StickyPC, budget, history
  <2> QED
    BY <2>1
<1>3. CASE CanaryNonEmpty \/ CanaryInconclusive
  BY <1>3 DEF CanaryNonEmpty, CanaryInconclusive, CanaryEnds, budget, history
<1>4. CASE CanaryEmptyParks
  <2>1. CASE Since(delay) > Window
    <3>1. ~Near
      BY <2>1, LapseIsFar
    <3>2. mem' = [mem EXCEPT !.restarts = 0] /\ disk' = mem' /\ UNCHANGED history /\ pc' = "rest"
      BY <1>4, <2>1 DEF CanaryEmptyParks, Decay, Persist, CanaryEnds
    <3>3. mem'.age = mem.age
      BY <3>2 DEF TypeOK, BudgetTypeOK, Budgets
    <3> QED
      BY <3>1, <3>2, <3>3 DEF history
  <2>2. CASE ~(Since(delay) > Window)
    BY <1>4, <2>2 DEF CanaryEmptyParks, Decay, CanaryEnds, history
  <2> QED
    BY <2>1, <2>2
<1>5. CASE CanaryEmptyRestarts
  <2>1. mem' = [restarts |-> Effective(delay) + 1, age |-> delay] /\ disk' = mem'
    BY <1>5 DEF CanaryEmptyRestarts, Note, Persist
  <2>2. Effective(delay) \in Nat
    BY DEF Effective
  <2>3. Near => burst + 1 <= Effective(delay) + 1 /\ quiet >= MinInterval - MaxDelay
    BY <1>5, NoteMakesRoom DEF CanaryEmptyRestarts
  <2>4. UNCHANGED <<burst, quiet, delay>>
    BY <1>5 DEF CanaryEmptyRestarts, history
  <2> QED
    BY <2>1, <2>2, <2>3, <2>4
<1>6. CASE RestartEngine
  <2>1. mem' = mem /\ disk' = disk /\ pc' # "restart" /\ pc = "restart"
    BY <1>6 DEF RestartEngine, Relaunch, Load, LoadEmptyHealth, budget
  <2>2. quiet' = 0 /\ burst' = IF Near THEN burst + 1 ELSE 1
    BY <1>6 DEF RestartEngine
  <2> QED
    BY <2>1, <2>2
<1>7. CASE Crash
  BY <1>7 DEF Crash, Relaunch, Load, LoadEmptyHealth, history
<1>8. CASE Tick
  <2>1. mem' = [mem EXCEPT !.age = Older(mem.age, AgeCap)] /\ disk' = mem'
    BY <1>8 DEF Tick, BudgetAges
  <2>2. mem'.restarts = mem.restarts /\ mem'.age = Older(mem.age, AgeCap)
    BY <2>1 DEF TypeOK, BudgetTypeOK, Budgets
  <2>3. quiet' = Older(quiet, AgeCap) /\ burst' = burst /\ pc' = pc
    BY <1>8 DEF Tick
  <2>4. pc = "restart" => delay < MaxDelay /\ delay' = delay + 1
    BY <1>8 DEF Tick
  <2>5. Mirrored'
    BY <2>1
  <2>6. NotedBefore' /\ NoneYet'
    BY <2>2, <2>3 DEF Older
  <2>7. Near' => Near /\ quiet <= quiet'
    BY <2>3 DEF Older
  <2>8. Covered'
    BY <2>2, <2>3, <2>7
  <2>9. pc = "restart" => mem'.age = delay'
    BY <2>2, <2>4 DEF Older
  <2>10. ASSUME pc' = "restart"
         PROVE  /\ mem'.age = delay' /\ mem'.restarts >= 1
                /\ Near' => burst' + 1 <= mem'.restarts /\ quiet' >= MinInterval - MaxDelay
    <3>1. pc = "restart" /\ mem.restarts >= 1
      BY <2>3, <2>10
    <3>2. ASSUME Near' PROVE burst' + 1 <= mem'.restarts /\ quiet' >= MinInterval - MaxDelay
      <4>1. burst + 1 <= mem.restarts /\ quiet >= MinInterval - MaxDelay
        BY <2>7, <3>1, <3>2
      <4>2. quiet' \in Int
        BY <2>3 DEF Older
      <4> QED
        BY <2>2, <2>3, <2>7, <3>2, <4>1, <4>2
    <3> QED
      BY <2>2, <2>9, <3>1, <3>2
  <2> QED
    BY <2>5, <2>6, <2>8, <2>10
<1> QED
  BY <1>u, <1>1, <1>2, <1>3, <1>4, <1>5, <1>6, <1>7, <1>8 DEF Next, HeartbeatLoop

LEMMA BudgetStep ==
  ASSUME TypeOK, BudgetInv, [Next]_vars
  PROVE  [Budget!Next]_Budget!vars
<1> USE Constants, Numbers
<1>1. CASE UNCHANGED history
  BY <1>1 DEF history, Budget!vars
<1>2. CASE RestartEngine
  <2>1. pc = "restart" /\ quiet' = 0 /\ burst' = IF Near THEN burst + 1 ELSE 1
    BY <1>2 DEF RestartEngine, Near
  <2> QED
    BY <2>1 DEF Budget!Next, Budget!Restart, BudgetInv, Cleared, Near
<1>3. CASE Tick
  BY <1>3 DEF Tick, Older, Budget!Next, Budget!Tick, Budget!vars
<1>4. ASSUME ~RestartEngine, ~Tick PROVE UNCHANGED history
  BY <1>4 DEF Next, HeartbeatLoop, vars, history, RecordOk, RecordEmpty, LoadStreak,
              CompareExchange, EnterQuarantine, CanaryEmptyParks, CanaryEmptyRestarts,
              CanaryNonEmpty, CanaryInconclusive, CanaryEnds, Rest, Crash, EngineChanges
<1> QED
  BY <1>1, <1>2, <1>3, <1>4

(* However often the process aborts or crashes, the restarts of a dead     *)
(* engine keep to the cap and to the cooldown, if the disk does not fail.  *)
THEOREM SelfHealKeepsBudget ==
  ASSUME DiskMayFail = FALSE PROVE Spec => RefinesBudget
<1>1. Init => Budget!Init
  BY DEF Init, Budget!Init
<1>2. Init => BudgetInv
  BY BudgetInvInit
<1>3. TypeOK /\ BudgetInv /\ [Next]_vars => BudgetInv'
  BY BudgetInvStep
<1>4. TypeOK /\ BudgetInv /\ [Next]_vars => [Budget!Next]_Budget!vars
  BY BudgetStep
<1> QED
  BY <1>1, <1>2, <1>3, <1>4, TypeInit, TypeStep, PTL DEF Spec, RefinesBudget, Budget!Spec
=============================================================================
