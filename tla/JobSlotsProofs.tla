--------------------------- MODULE JobSlotsProofs ---------------------------
(***************************************************************************)
(* Proofs about JobSlots, for any finite sets of jobs and tasks and any    *)
(* capacity: type correctness and the safety of the slot counter.          *)
(***************************************************************************)
EXTENDS JobSlots, FiniteSetTheorems, TLAPS

(* The sets whose sizes are added up are finite.                           *)
LEMMA FiniteParts ==
  ASSUME TypeOK
  PROVE  /\ IsFiniteSet(inflight) /\ Cardinality(inflight) \in Nat
         /\ IsFiniteSet(Reserved) /\ Cardinality(Reserved) \in Nat
         /\ IsFiniteSet(Releasing) /\ Cardinality(Releasing) \in Nat
<1>1. IsFiniteSet(inflight)
  BY SetsAssumption, FS_Subset DEF TypeOK
<1>2. IsFiniteSet(Dispatchers)
  <2>1. Dispatchers = ({} \cup {"ws"}) \cup {"rest"}
    BY DEF Dispatchers
  <2>2. IsFiniteSet({} \cup {"ws"})
    BY FS_EmptySet, FS_AddElement
  <2> QED
    BY <2>1, <2>2, FS_AddElement
<1>3. IsFiniteSet(Reserved)
  BY <1>2, FS_Subset DEF Reserved
<1>4. IsFiniteSet(Releasing)
  BY SetsAssumption, FS_Subset DEF Releasing
<1> QED
  BY <1>1, <1>3, <1>4, FS_CardinalityType

LEMMA TypeInit == Init => TypeOK
<1> SUFFICES ASSUME Init PROVE TypeOK
  OBVIOUS
<1> USE BoundsAssumption
<1>1. FlagsOK
  BY Zenon DEF Init, FlagsOK
<1>2. /\ seen \in Seq(Jobs) /\ Len(seen) <= SeenCap
      /\ wedgeRestarts \in 0 .. MaxWedgeRestarts
      /\ activeJobs \in 0 .. CounterModulus - 1
  BY DEF Init
<1>3. dpc \in [Dispatchers -> DispatchPC] /\ djob \in [Dispatchers -> Jobs \cup {NoJob}]
  BY DEF Init, DispatchPC
<1>4. tpc \in [Tasks -> TaskPC] /\ tjob \in [Tasks -> Jobs \cup {NoJob}]
  BY DEF Init, TaskPC
<1>5. starts \in [Jobs -> 0 .. 2]
  BY DEF Init
<1> QED
  BY <1>1, <1>2, <1>3, <1>4, <1>5 DEF Init, TypeOK, HeartbeatPC

LEMMA TypeRelaunch == Relaunch => TypeOK'
<1> SUFFICES ASSUME Relaunch PROVE TypeOK'
  OBVIOUS
<1> USE BoundsAssumption
<1>1. FlagsOK'
  BY Zenon DEF Relaunch, FlagsOK
<1>2. (/\ seen \in Seq(Jobs) /\ Len(seen) <= SeenCap
       /\ wedgeRestarts \in 0 .. MaxWedgeRestarts
       /\ activeJobs \in 0 .. CounterModulus - 1)'
  BY DEF Relaunch
<1>3. (dpc \in [Dispatchers -> DispatchPC] /\ djob \in [Dispatchers -> Jobs \cup {NoJob}])'
  BY DEF Relaunch, DispatchPC
<1>4. (tpc \in [Tasks -> TaskPC] /\ tjob \in [Tasks -> Jobs \cup {NoJob}])'
  BY DEF Relaunch, TaskPC
<1>5. (starts \in [Jobs -> 0 .. 2])'
  BY DEF Relaunch
<1> QED
  BY <1>1, <1>2, <1>3, <1>4, <1>5 DEF Relaunch, TypeOK, HeartbeatPC

(* The four flags are only ever assigned TRUE, FALSE or one another.       *)
LEMMA FlagsStep == FlagsOK /\ Next => FlagsOK'
<1> SUFFICES ASSUME FlagsOK, Next PROVE FlagsOK'
  OBVIOUS
<1> USE DEF FlagsOK, health
<1>1. ASSUME NEW j \in Jobs, NEW d, Offer(d, j) PROVE FlagsOK'
  BY <1>1, Zenon DEF Offer
<1>2. ASSUME NEW d \in Dispatchers, MaybeSpawnJob(d) PROVE FlagsOK'
  BY <1>2, Zenon DEF MaybeSpawnJob, Gate, Reserve, Dedup, Track, Spawn
<1>3. ASSUME NEW t \in Tasks, TaskStep(t) \/ Hang(t) PROVE FlagsOK'
  BY <1>3, Zenon DEF TaskStep, Hang, EngineReturns, Posted, Untrack, ReleaseSlot,
                     CountCompletion, StampEnd
<1>4. ASSUME GoStale PROVE FlagsOK'
  BY <1>4, Zenon DEF GoStale
<1>5. ASSUME Relaunch PROVE FlagsOK'
  BY <1>5, Zenon DEF Relaunch
<1>6. CASE WatchQuiet \/ WatchWedged \/ WatchAbort
  BY <1>5, <1>6, Zenon DEF WatchQuiet, WatchWedged, WatchAbort
<1>7. CASE RestartEngine \/ HealthRestarts
  BY <1>5, <1>7, Zenon DEF RestartEngine, HealthRestarts, Restart
<1>8. CASE Abandon \/ ReleaseAbandoned
  BY <1>8, Zenon DEF Abandon, ReleaseAbandoned
<1>9. CASE Heal
  BY <1>9, Zenon DEF Heal
<1>10. CASE CanaryClears \/ CanaryParks \/ CanaryRestarts
  BY <1>10, Zenon DEF CanaryClears, CanaryParks, CanaryRestarts
<1>11. CASE Snapshot \/ HealthPasses \/ HeartbeatAnswered \/ HeartbeatFails \/ DispatchEnds
  BY <1>11, Zenon DEF Snapshot, HealthPasses, HeartbeatAnswered, HeartbeatFails, Posts,
                      DispatchEnds
<1> QED
  BY <1>1, <1>2, <1>3, <1>4, <1>6, <1>7, <1>8, <1>9, <1>10, <1>11
     DEF Next, Heartbeat, WsOffer, RestOffer

LEMMA TypeStep == TypeOK /\ [Next]_vars => TypeOK'
<1> SUFFICES ASSUME TypeOK, [Next]_vars PROVE TypeOK'
  OBVIOUS
<1>u. CASE UNCHANGED vars
  BY <1>u DEF vars, health, loop, dispatch, tasks, TypeOK, FlagsOK
<1>n. CASE Next
  <2>f. FlagsOK'
    BY <1>n, FlagsStep DEF TypeOK
  <2> USE BoundsAssumption, SetsAssumption, <2>f
  <2> USE DEF TypeOK, health, loop, dispatch, tasks, DispatchPC, TaskPC, HeartbeatPC
  <2>1. ASSUME NEW j \in Jobs, NEW d \in Dispatchers, Offer(d, j) PROVE TypeOK'
    BY <2>1 DEF Offer
  <2>2. ASSUME NEW d \in Dispatchers, MaybeSpawnJob(d) PROVE TypeOK'
    <3> USE DEF DispatcherGoes, DispatcherEnds
    <3>1. CASE Gate(d)
      BY <3>1 DEF Gate
    <3>2. CASE Reserve(d)
      BY <3>2 DEF Reserve, Room, DeferralLeaves
    <3>3. CASE Dedup(d)
      <4>1. djob[d] \in Jobs
        BY <3>3 DEF Dedup
      <4>2. Insert(djob[d]) \in Seq(Jobs) /\ Len(Insert(djob[d])) <= SeenCap
        BY <4>1 DEF Insert
      <4>3. CASE seen' = Insert(djob[d]) /\ DispatcherGoes(d, "track") /\ UNCHANGED activeJobs
        BY <3>3, <4>2, <4>3 DEF Dedup
      <4>4. CASE GiveBack /\ DispatcherEnds(d) /\ UNCHANGED seen
        BY <3>3, <4>4 DEF Dedup, GiveBack
      <4> QED
        BY <3>3, <4>3, <4>4 DEF Dedup
    <3>4. CASE Track(d)
      BY <3>4 DEF Track
    <3>5. CASE Spawn(d)
      BY <3>5 DEF Spawn
    <3> QED
      BY <2>2, <3>1, <3>2, <3>3, <3>4, <3>5 DEF MaybeSpawnJob
  <2>3. ASSUME NEW t \in Tasks, TaskStep(t) \/ Hang(t) PROVE TypeOK'
    <3> USE DEF TaskGoes
    <3>1. CASE EngineReturns(t)
      BY <3>1 DEF EngineReturns
    <3>2. CASE Posted(t)
      BY <3>2 DEF Posted
    <3>3. CASE Untrack(t)
      BY <3>3 DEF Untrack
    <3>4. CASE ReleaseSlot(t)
      BY <3>4 DEF ReleaseSlot, GiveBack
    <3>5. CASE CountCompletion(t)
      BY <3>5 DEF CountCompletion
    <3>6. CASE StampEnd(t)
      BY <3>6 DEF StampEnd
    <3>7. CASE Hang(t)
      BY <3>7 DEF Hang
    <3> QED
      BY <2>3, <3>1, <3>2, <3>3, <3>4, <3>5, <3>6, <3>7 DEF TaskStep
  <2>4. ASSUME GoStale PROVE TypeOK'
    BY <2>4 DEF GoStale
  <2>5. ASSUME Heartbeat PROVE TypeOK'
    <3> USE DEF LoopGoes
    <3>1. CASE WatchQuiet
      BY <3>1 DEF WatchQuiet, WedgeCount
    <3>2. CASE WatchWedged
      BY <3>2 DEF WatchWedged, WedgeCount, WedgesExhausted
    <3>3. CASE WatchAbort
      BY <3>3, TypeRelaunch DEF WatchAbort
    <3>4. CASE RestartEngine \/ HealthRestarts
      BY <3>4, TypeRelaunch DEF RestartEngine, HealthRestarts, Restart
    <3>5. CASE Abandon
      BY <3>5, FiniteParts DEF Abandon
    <3>6. CASE ReleaseAbandoned
      BY <3>6 DEF ReleaseAbandoned, SatSub
    <3>7. CASE Heal
      BY <3>7 DEF Heal
    <3>8. CASE CanaryClears \/ CanaryParks \/ CanaryRestarts
      BY <3>8 DEF CanaryClears, CanaryParks, CanaryRestarts
    <3>9. CASE Snapshot \/ HealthPasses
      BY <3>9 DEF Snapshot, HealthPasses
    <3>10. CASE HeartbeatAnswered \/ HeartbeatFails \/ DispatchEnds
      BY <3>10 DEF HeartbeatAnswered, HeartbeatFails, Posts, DispatchEnds
    <3> QED
      BY <2>5, <3>1, <3>2, <3>3, <3>4, <3>5, <3>6, <3>7, <3>8, <3>9, <3>10 DEF Heartbeat
  <2>6. "ws" \in Dispatchers /\ "rest" \in Dispatchers
    BY DEF Dispatchers
  <2> QED
    BY <1>n, <2>1, <2>2, <2>3, <2>4, <2>5, <2>6 DEF Next, WsOffer, RestOffer
<1> QED
  BY <1>u, <1>n

(* Every variable of the admission path keeps its type, in particular the  *)
(* counter stays within the u32 and the list of seen ids within its cap.   *)
THEOREM TypeCorrect == Spec => []TypeOK
  BY TypeInit, TypeStep, PTL DEF Spec

-----------------------------------------------------------------------------
(* How a step moves the slots that are owed.                               *)

(* When one dispatcher moves, or one task, its set changes by itself.      *)
LEMMA ReservedCount ==
  ASSUME TypeOK, NEW d \in Dispatchers, \A e \in Dispatchers \ {d} : dpc'[e] = dpc[e]
  PROVE  /\ Cardinality(Reserved') \in Nat
         /\ Cardinality(Reserved') = Cardinality(Reserved)
              + (IF dpc'[d] \in {"dedup", "track"} THEN 1 ELSE 0)
              - (IF dpc[d] \in {"dedup", "track"} THEN 1 ELSE 0)
<1>1. d \in Reserved <=> dpc[d] \in {"dedup", "track"}
  BY DEF Reserved
<1>2. CASE dpc'[d] \in {"dedup", "track"}
  <2>1. Reserved' = Reserved \cup {d}
    BY <1>2 DEF Reserved
  <2>2. Cardinality(Reserved \cup {d})
          = IF d \in Reserved THEN Cardinality(Reserved) ELSE Cardinality(Reserved) + 1
    BY FiniteParts, FS_AddElement
  <2> QED
    BY <1>1, <1>2, <2>1, <2>2, FiniteParts
<1>3. CASE dpc'[d] \notin {"dedup", "track"}
  <2>1. Reserved' = Reserved \ {d}
    BY <1>3 DEF Reserved
  <2> QED
    BY <1>1, <1>3, <2>1, FiniteParts, FS_RemoveElement, FS_CardinalityType
<1> QED
  BY <1>2, <1>3

LEMMA ReleasingCount ==
  ASSUME TypeOK, NEW t \in Tasks, \A u \in Tasks \ {t} : tpc'[u] = tpc[u]
  PROVE  /\ Cardinality(Releasing') \in Nat
         /\ Cardinality(Releasing') = Cardinality(Releasing)
              + (IF tpc'[t] = "release" THEN 1 ELSE 0) - (IF tpc[t] = "release" THEN 1 ELSE 0)
<1>1. t \in Releasing <=> tpc[t] = "release"
  BY DEF Releasing
<1>2. CASE tpc'[t] = "release"
  <2>1. Releasing' = Releasing \cup {t}
    BY <1>2 DEF Releasing
  <2>2. Cardinality(Releasing \cup {t})
          = IF t \in Releasing THEN Cardinality(Releasing) ELSE Cardinality(Releasing) + 1
    BY FiniteParts, FS_AddElement
  <2> QED
    BY <1>1, <1>2, <2>1, <2>2, FiniteParts
<1>3. CASE tpc'[t] # "release"
  <2>1. Releasing' = Releasing \ {t}
    BY <1>3 DEF Releasing
  <2> QED
    BY <1>1, <1>3, <2>1, FiniteParts, FS_RemoveElement, FS_CardinalityType
<1> QED
  BY <1>2, <1>3

(* The counter and the owed slots move together, with three exceptions:    *)
(* a relaunch clears both, and tracking an id that is already in inflight  *)
(* loses the owner of a slot.                                              *)
Balanced == activeJobs' <= MaxJobs /\ activeJobs' - Owed' = activeJobs - Owed
Cleared  == activeJobs' = 0 /\ Owed' = 0
OwnerLost == /\ \E d \in Dispatchers : Track(d) /\ djob[d] \in inflight
             /\ activeJobs' = activeJobs /\ Owed' = Owed - 1

(* Cleared ids are owed only until the loop has deducted them.             *)
AbandonedIsBrief == hb # "release" => abandoned = 0

LEMMA AbandonedBrief == Spec => []AbandonedIsBrief
<1>1. Init => AbandonedIsBrief
  BY DEF Init, AbandonedIsBrief
<1>2. AbandonedIsBrief /\ [Next]_vars => AbandonedIsBrief'
  <2> SUFFICES ASSUME AbandonedIsBrief, [Next]_vars PROVE AbandonedIsBrief'
    OBVIOUS
  <2>1. CASE UNCHANGED <<hb, abandoned>>
    BY <2>1 DEF AbandonedIsBrief
  <2>2. CASE Heartbeat
    BY <2>2 DEF AbandonedIsBrief, Heartbeat, LoopGoes, WatchQuiet, WatchWedged, WatchAbort,
         Relaunch, RestartEngine, HealthRestarts, Restart, Abandon, ReleaseAbandoned, Heal,
         CanaryClears, CanaryParks, CanaryRestarts, Snapshot, HealthPasses,
         HeartbeatAnswered, HeartbeatFails, Posts, DispatchEnds
  <2>3. CASE Next /\ ~Heartbeat
    <3>1. UNCHANGED loop
      BY <2>3 DEF Next, WsOffer, RestOffer, Offer, MaybeSpawnJob, Gate, Reserve, Dedup, Track,
           Spawn, TaskStep, Hang, EngineReturns, Posted, Untrack, ReleaseSlot,
           CountCompletion, StampEnd, TaskGoes, GoStale
    <3> QED
      BY <2>1, <3>1 DEF loop
  <2> QED
    BY <2>1, <2>2, <2>3 DEF vars, loop
<1> QED
  BY <1>1, <1>2, PTL DEF Spec

LEMMA OwedNat == TypeOK => Owed \in Nat /\ activeJobs \in Nat /\ abandoned \in Nat
  BY FiniteParts, BoundsAssumption DEF Owed, TypeOK

LEMMA OwedNatNext == (TypeOK => Owed \in Nat /\ activeJobs \in Nat /\ abandoned \in Nat)'
  BY OwedNat, PTL

LEMMA RelaunchClears == Relaunch => Cleared
<1> SUFFICES ASSUME Relaunch PROVE Cleared
  OBVIOUS
<1>1. Reserved' = {} /\ Releasing' = {} /\ inflight' = {}
  BY DEF Relaunch, Reserved, Releasing
<1> QED
  BY <1>1, FS_EmptySet DEF Relaunch, Cleared, Owed

LEMMA FrameBalance ==
  ASSUME TypeOK, SlotSafety, UNCHANGED <<activeJobs, inflight, abandoned>>,
         Cardinality(Reserved') = Cardinality(Reserved),
         Cardinality(Releasing') = Cardinality(Releasing)
  PROVE  Balanced
BY OwedNat DEF Balanced, Owed, SlotSafety

LEMMA DispatcherBalance ==
  ASSUME TypeOK, SlotSafety, NEW d \in Dispatchers, MaybeSpawnJob(d)
  PROVE  Balanced \/ OwnerLost
<1> USE DEF loop, DispatcherGoes, DispatcherEnds
<1> USE BoundsAssumption, FiniteParts, OwedNat
<1>1. CASE Gate(d)
  <2>1. Cardinality(Reserved') = Cardinality(Reserved)
    <3>1. /\ dpc[d] = "gate" /\ dpc'[d] \in {"idle", "reserve"}
          /\ \A e \in Dispatchers \ {d} : dpc'[e] = dpc[e]
      BY <1>1 DEF Gate, TypeOK
    <3> QED
      BY <3>1, ReservedCount
  <2>2. Releasing' = Releasing
    BY <1>1 DEF Gate, tasks, Releasing
  <2> QED
    BY <1>1, <2>1, <2>2, FrameBalance DEF Gate
<1>2. CASE Reserve(d)
  <2>1. Releasing' = Releasing /\ UNCHANGED <<inflight, abandoned>> /\ dpc[d] = "reserve"
    BY <1>2 DEF Reserve, tasks, Releasing
  <2>2. CASE Room /\ activeJobs' = activeJobs + 1 /\ DispatcherGoes(d, "dedup")
    <3>1. Cardinality(Reserved') = Cardinality(Reserved) + 1
      BY <2>1, <2>2, ReservedCount DEF TypeOK
    <3> QED
      BY <2>1, <2>2, <3>1 DEF Balanced, Owed, Room
  <2>3. CASE DispatcherEnds(d) /\ UNCHANGED activeJobs
    <3>1. Cardinality(Reserved') = Cardinality(Reserved)
      BY <2>1, <2>3, ReservedCount DEF TypeOK
    <3> QED
      BY <2>1, <2>3, <3>1, FrameBalance
  <2> QED
    BY <1>2, <2>2, <2>3 DEF Reserve
<1>3. CASE Dedup(d)
  <2>1. Releasing' = Releasing /\ UNCHANGED <<inflight, abandoned>> /\ dpc[d] = "dedup"
    BY <1>3 DEF Dedup, tasks, Releasing
  <2>2. CASE DispatcherGoes(d, "track") /\ UNCHANGED activeJobs
    <3>1. Cardinality(Reserved') = Cardinality(Reserved)
      BY <2>1, <2>2, ReservedCount DEF TypeOK
    <3> QED
      BY <2>1, <2>2, <3>1, FrameBalance
  <2>3. CASE GiveBack /\ DispatcherEnds(d)
    <3>1. /\ Cardinality(Reserved') = Cardinality(Reserved) - 1
          /\ Cardinality(Reserved') \in Nat
      BY <2>1, <2>3, ReservedCount DEF TypeOK
    <3>2. activeJobs' = activeJobs - 1
      BY <2>3, <3>1 DEF GiveBack, SlotSafety, Owed, TypeOK
    <3> QED
      BY <2>1, <3>1, <3>2 DEF Balanced, Owed, SlotSafety
  <2> QED
    BY <1>3, <2>2, <2>3 DEF Dedup
<1>4. CASE Track(d)
  <2>1. Releasing' = Releasing /\ UNCHANGED <<activeJobs, abandoned>> /\ dpc[d] = "track"
    BY <1>4 DEF Track, tasks, Releasing
  <2>2. Cardinality(Reserved') = Cardinality(Reserved) - 1
    BY <1>4, <2>1, ReservedCount DEF Track, TypeOK
  <2>3. inflight' = inflight \cup {djob[d]}
    BY <1>4 DEF Track
  <2>4. CASE djob[d] \in inflight
    <3>1. inflight' = inflight
      BY <2>3, <2>4
    <3>2. Owed' = Owed - 1
      BY <2>1, <2>2, <3>1 DEF Owed
    <3> QED
      BY <1>4, <2>1, <2>4, <3>2 DEF OwnerLost
  <2>5. CASE djob[d] \notin inflight
    <3>1. Cardinality(inflight') = Cardinality(inflight) + 1
      BY <2>3, <2>5, FS_AddElement
    <3> QED
      BY <2>1, <2>2, <3>1 DEF Balanced, Owed, SlotSafety
  <2> QED
    BY <2>4, <2>5
<1>5. CASE Spawn(d)
  <2>1. Cardinality(Reserved') = Cardinality(Reserved)
    <3>1. dpc' = [dpc EXCEPT ![d] = "idle"] /\ dpc \in [Dispatchers -> DispatchPC]
      BY <1>5 DEF Spawn, DispatcherEnds, TypeOK
    <3>2. dpc[d] = "spawn" /\ dpc'[d] = "idle" /\ \A e \in Dispatchers \ {d} : dpc'[e] = dpc[e]
      BY <1>5, <3>1 DEF Spawn
    <3>3. Cardinality(Reserved) \in Nat
      BY FiniteParts, FS_CardinalityType
    <3> QED
      BY <3>2, <3>3, ReservedCount
  <2>2. Cardinality(Releasing') = Cardinality(Releasing)
    <3>1. PICK t \in Tasks : tpc[t] = "none" /\ tpc' = [tpc EXCEPT ![t] = "engine"]
      BY <1>5 DEF Spawn
    <3> QED
      BY <3>1, ReleasingCount DEF TypeOK
  <2> QED
    BY <1>5, <2>1, <2>2, FrameBalance DEF Spawn
<1> QED
  BY <1>1, <1>2, <1>3, <1>4, <1>5 DEF MaybeSpawnJob

LEMMA TaskBalance ==
  ASSUME TypeOK, SlotSafety, NEW t \in Tasks, TaskStep(t) \/ Hang(t)
  PROVE  Balanced
<1> USE BoundsAssumption, FiniteParts, OwedNat
<1>1. Reserved' = Reserved /\ UNCHANGED abandoned
  BY DEF TaskStep, Hang, EngineReturns, Posted, Untrack, ReleaseSlot, CountCompletion,
         StampEnd, TaskGoes, loop, dispatch, Reserved
<1> USE DEF TaskGoes
<1>2. CASE EngineReturns(t) \/ Posted(t) \/ CountCompletion(t) \/ StampEnd(t)
  <2>1. /\ UNCHANGED <<activeJobs, inflight>>
        /\ tpc[t] # "release"
        /\ tpc'[t] # "release"
        /\ \A u \in Tasks \ {t} : tpc'[u] = tpc[u]
    BY <1>2 DEF EngineReturns, Posted, CountCompletion, StampEnd, TypeOK
  <2>2. Cardinality(Releasing') = Cardinality(Releasing)
    BY <2>1, ReleasingCount
  <2> QED
    BY <1>1, <2>1, <2>2, FrameBalance
<1>3. CASE Hang(t)
  <2>1. Releasing' = Releasing /\ UNCHANGED <<activeJobs, inflight>>
    BY <1>3 DEF Hang, tasks, Releasing
  <2> QED
    BY <1>1, <2>1, FrameBalance
<1>4. CASE Untrack(t)
  <2>1. tpc[t] = "untrack" /\ inflight' = inflight \ {tjob[t]} /\ UNCHANGED activeJobs
    BY <1>4 DEF Untrack
  <2>2. CASE tjob[t] \in inflight
    <3>1. Cardinality(Releasing') = Cardinality(Releasing) + 1
      BY <1>4, <2>1, <2>2, ReleasingCount DEF Untrack, StillTracked, TypeOK
    <3>2. Cardinality(inflight') = Cardinality(inflight) - 1
      BY <2>1, <2>2, FS_RemoveElement
    <3> QED
      BY <1>1, <2>1, <3>1, <3>2 DEF Balanced, Owed, SlotSafety
  <2>3. CASE tjob[t] \notin inflight
    <3>1. Cardinality(Releasing') = Cardinality(Releasing)
      BY <1>4, <2>1, <2>3, ReleasingCount DEF Untrack, StillTracked, TypeOK
    <3>2. inflight' = inflight
      BY <2>1, <2>3
    <3> QED
      BY <1>1, <2>1, <3>1, <3>2, FrameBalance
  <2> QED
    BY <2>2, <2>3
<1>5. CASE ReleaseSlot(t)
  <2>1. /\ Cardinality(Releasing') = Cardinality(Releasing) - 1
        /\ Cardinality(Releasing') \in Nat
    BY <1>5, ReleasingCount DEF ReleaseSlot, TypeOK
  <2>2. activeJobs' = activeJobs - 1 /\ UNCHANGED inflight
    BY <1>5, <2>1 DEF ReleaseSlot, GiveBack, SlotSafety, Owed, TypeOK
  <2> QED
    BY <1>1, <2>1, <2>2 DEF Balanced, Owed, SlotSafety
<1> QED
  BY <1>2, <1>3, <1>4, <1>5 DEF TaskStep

LEMMA HeartbeatBalance ==
  ASSUME TypeOK, SlotSafety, AbandonedIsBrief, Heartbeat
  PROVE  Balanced \/ Cleared
<1> USE BoundsAssumption, FiniteParts, OwedNat
<1>1. ASSUME UNCHANGED <<dispatch, tasks>>
      PROVE  Reserved' = Reserved /\ Releasing' = Releasing
  BY <1>1 DEF dispatch, tasks, Reserved, Releasing
<1>2. CASE Relaunch
  BY <1>2, RelaunchClears
<1>3. CASE Abandon
  <2>1. Cardinality(inflight') = 0
    BY <1>3, FS_EmptySet DEF Abandon
  <2> QED
    BY <1>1, <1>3, <2>1 DEF Abandon, LoopGoes, AbandonedIsBrief, Balanced, Owed, SlotSafety
<1>4. CASE ReleaseAbandoned
  <2>1. activeJobs' = activeJobs - abandoned
    BY <1>4 DEF ReleaseAbandoned, SatSub, SlotSafety, Owed, TypeOK
  <2> QED
    BY <1>1, <1>4, <2>1 DEF ReleaseAbandoned, LoopGoes, Balanced, Owed, SlotSafety, TypeOK
<1>5. CASE ~Relaunch /\ ~Abandon /\ ~ReleaseAbandoned
  <2>1. UNCHANGED <<activeJobs, inflight, abandoned, dispatch, tasks>>
    BY <1>5 DEF Heartbeat, LoopGoes, WatchQuiet, WatchWedged, WatchAbort, RestartEngine,
         HealthRestarts, Restart, Heal, CanaryClears, CanaryParks, CanaryRestarts, Snapshot,
         HealthPasses, HeartbeatAnswered, HeartbeatFails, Posts, DispatchEnds
  <2> QED
    BY <1>1, <2>1, FrameBalance
<1> QED
  BY <1>2, <1>3, <1>4, <1>5

LEMMA SlotBalance ==
  ASSUME TypeOK, SlotSafety, AbandonedIsBrief, Next
  PROVE  Balanced \/ Cleared \/ OwnerLost
<1>1. ASSUME NEW j \in Jobs, NEW d \in Dispatchers, Offer(d, j) PROVE Balanced
  <2>1. Cardinality(Reserved') = Cardinality(Reserved)
    <3>1. /\ dpc[d] = "idle" /\ dpc'[d] = "gate"
          /\ \A e \in Dispatchers \ {d} : dpc'[e] = dpc[e]
      BY <1>1 DEF Offer, TypeOK
    <3> QED
      BY <3>1, ReservedCount, FiniteParts
  <2>2. Releasing' = Releasing
    BY <1>1 DEF Offer, tasks, Releasing
  <2> QED
    BY <1>1, <2>1, <2>2, FrameBalance DEF Offer, loop
<1>2. CASE GoStale
  <2>1. Reserved' = Reserved /\ Releasing' = Releasing
    BY <1>2 DEF GoStale, dispatch, tasks, Reserved, Releasing
  <2> QED
    BY <1>2, <2>1, FrameBalance DEF GoStale, loop
<1>3. "ws" \in Dispatchers /\ "rest" \in Dispatchers
  BY DEF Dispatchers
<1> QED
  BY <1>1, <1>2, <1>3, DispatcherBalance, TaskBalance, HeartbeatBalance
     DEF Next, WsOffer, RestOffer

(* The counter never exceeds the capacity and covers every release still   *)
(* to come, whatever the eviction, the watchdogs and the relaunches: no    *)
(* decrement of active_jobs wraps.                                         *)
THEOREM SlotsSafe == Spec => []SlotSafety
<1>1. Init => SlotSafety
  <2> SUFFICES ASSUME Init PROVE SlotSafety
    OBVIOUS
  <2>1. Reserved = {} /\ Releasing = {} /\ inflight = {}
    BY DEF Init, Reserved, Releasing
  <2> QED
    BY <2>1, FS_EmptySet, BoundsAssumption DEF Init, SlotSafety, Owed
<1>2. TypeOK /\ TypeOK' /\ AbandonedIsBrief /\ SlotSafety /\ [Next]_vars => SlotSafety'
  <2> SUFFICES ASSUME TypeOK, TypeOK', AbandonedIsBrief, SlotSafety, [Next]_vars
               PROVE  SlotSafety'
    OBVIOUS
  <2>1. CASE UNCHANGED vars
    BY <2>1 DEF vars, loop, dispatch, tasks, SlotSafety, Owed, Reserved, Releasing
  <2>2. CASE Next
    <3>1. Owed \in Int /\ activeJobs \in Int /\ Owed' \in Int /\ activeJobs' \in Int
      BY OwedNat, OwedNatNext
    <3>2. Balanced \/ Cleared \/ OwnerLost
      BY <2>2, SlotBalance
    <3>3. CASE Balanced
      <4>1. \A a, b, c, e \in Int : a - b = c - e /\ e <= c => b <= a
        OBVIOUS
      <4>2. Owed' <= activeJobs'
        BY <3>1, <3>3, <4>1 DEF Balanced, SlotSafety
      <4> QED
        BY <3>3, <4>2 DEF Balanced, SlotSafety
    <3>4. CASE Cleared
      BY <3>4, BoundsAssumption DEF Cleared, SlotSafety
    <3>5. CASE OwnerLost
      BY <3>1, <3>5, BoundsAssumption DEF OwnerLost, SlotSafety
    <3> QED
      BY <3>2, <3>3, <3>4, <3>5
  <2> QED
    BY <2>1, <2>2
<1> QED
  BY <1>1, <1>2, TypeCorrect, AbandonedBrief, PTL DEF Spec

=============================================================================
