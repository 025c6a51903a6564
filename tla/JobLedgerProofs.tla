--------------------------- MODULE JobLedgerProofs ---------------------------
(***************************************************************************)
(* Proofs about JobSlots while the de-duplication list forgets nothing: a  *)
(* job runs at most once, no slot is lost, and the node implements         *)
(* JobLedger.                                                              *)
(***************************************************************************)
EXTENDS JobSlotsProofs

Remembers == SeenCap >= Cardinality(Jobs)

(***************************************************************************)
(* The invariant.  The list has no duplicates; an id in flight is in it; an*)
(* id on its way into inflight is in it, is in the hands of one dispatcher *)
(* and was never started; and nothing is started that is not in it.        *)
(***************************************************************************)
Accepting == {"track", "spawn"}

NoDuplicates  == Cardinality(SeenIds) = Len(seen)
InflightSeen  == inflight \subseteq SeenIds
TrackedOnce   == \A d \in Dispatchers : dpc[d] = "track" => djob[d] \notin inflight
AcceptedSeen  == \A d \in Dispatchers :
                   dpc[d] \in Accepting => djob[d] \in SeenIds /\ starts[djob[d]] = 0
OneAcceptance == \A d, e \in Dispatchers :
                   dpc[d] \in Accepting /\ dpc[e] \in Accepting /\ d # e => djob[d] # djob[e]
StartedSeen   == \A j \in Jobs : (starts[j] > 0 => j \in SeenIds) /\ starts[j] <= 1

LedgerInv == /\ NoDuplicates /\ InflightSeen /\ TrackedOnce
             /\ AcceptedSeen /\ OneAcceptance /\ StartedSeen

LEMMA LedgerInvInit == Init => LedgerInv
<1> SUFFICES ASSUME Init PROVE LedgerInv
  OBVIOUS
<1>1. SeenIds = {} /\ seen = <<>> /\ inflight = {}
  BY DEF Init, SeenIds
<1>2. NoDuplicates
  BY <1>1, FS_EmptySet DEF NoDuplicates
<1>3. \A d \in Dispatchers : dpc[d] = "idle"
  BY DEF Init
<1>4. \A j \in Jobs : starts[j] = 0
  BY DEF Init
<1> QED
  BY <1>1, <1>2, <1>3, <1>4 DEF LedgerInv, InflightSeen, TrackedOnce, AcceptedSeen,
     OneAcceptance, StartedSeen, Accepting

LEMMA LedgerInvRelaunch == Relaunch => LedgerInv'
<1> SUFFICES ASSUME Relaunch PROVE LedgerInv'
  OBVIOUS
<1>1. SeenIds' = {} /\ seen' = <<>> /\ inflight' = {}
  BY DEF Relaunch, SeenIds
<1>2. NoDuplicates'
  BY <1>1, FS_EmptySet DEF NoDuplicates
<1>3. \A d \in Dispatchers : dpc'[d] = "idle"
  BY DEF Relaunch
<1>4. \A j \in Jobs : starts'[j] = 0
  BY DEF Relaunch
<1> QED
  BY <1>1, <1>2, <1>3, <1>4 DEF LedgerInv, InflightSeen, TrackedOnce, AcceptedSeen,
     OneAcceptance, StartedSeen, Accepting

(***************************************************************************)
(* What a step does to the ledger: it relaunches the process, accepts an   *)
(* id, tracks it, starts it, or lets go of some of the ids in flight.      *)
(***************************************************************************)
Accepts(d) == /\ dpc[d] = "dedup" /\ djob[d] \notin SeenIds /\ seen' = Insert(djob[d])
              /\ dpc' = [dpc EXCEPT ![d] = "track"]
              /\ UNCHANGED <<djob, inflight, starts>>

LetsGo == /\ inflight' \subseteq inflight /\ UNCHANGED <<seen, starts>>
          /\ \A d \in Dispatchers : dpc'[d] \in Accepting \/ dpc[d] = "track" =>
               dpc'[d] = dpc[d] /\ djob'[d] = djob[d]

LEMMA StepKinds ==
  ASSUME TypeOK, Next
  PROVE  Relaunch \/ LetsGo \/ \E d \in Dispatchers : Accepts(d) \/ Track(d) \/ Spawn(d)
<1> USE DEF LetsGo, Accepting, health, loop, dispatch, tasks, DispatcherGoes, DispatcherEnds
<1>1. ASSUME NEW j \in Jobs, NEW d \in Dispatchers, Offer(d, j) PROVE LetsGo
  BY <1>1 DEF Offer, TypeOK
<1>2. ASSUME NEW d \in Dispatchers, MaybeSpawnJob(d)
      PROVE  LetsGo \/ Accepts(d) \/ Track(d) \/ Spawn(d)
  <2>1. CASE Gate(d)
    BY <2>1 DEF Gate, TypeOK
  <2>2. CASE Reserve(d)
    BY <2>2 DEF Reserve, DeferralLeaves, TypeOK
  <2>3. CASE Dedup(d)
    <3>1. CASE ~Known(djob[d]) /\ seen' = Insert(djob[d]) /\ DispatcherGoes(d, "track")
      BY <2>3, <3>1 DEF Dedup, Known, Accepts
    <3>2. CASE DispatcherEnds(d) /\ UNCHANGED seen
      BY <2>3, <3>2 DEF Dedup, TypeOK
    <3> QED
      BY <2>3, <3>1, <3>2 DEF Dedup
  <2> QED
    BY <1>2, <2>1, <2>2, <2>3 DEF MaybeSpawnJob
<1>3. ASSUME UNCHANGED <<seen, dispatch, starts>>, inflight' \subseteq inflight PROVE LetsGo
  BY <1>3
<1>4. ASSUME NEW t \in Tasks, TaskStep(t) \/ Hang(t) PROVE LetsGo
  <2>1. UNCHANGED <<seen, dispatch, starts>> /\ inflight' \subseteq inflight
    BY <1>4 DEF TaskStep, Hang, EngineReturns, Posted, Untrack, ReleaseSlot, CountCompletion,
         StampEnd, TaskGoes
  <2> QED
    BY <2>1, <1>3
<1>5. CASE GoStale
  BY <1>3, <1>5 DEF GoStale
<1>6. CASE Heartbeat
  <2>1. Relaunch \/ (UNCHANGED <<seen, dispatch, starts>> /\ inflight' \subseteq inflight)
    BY <1>6 DEF Heartbeat, LoopGoes, WatchQuiet, WatchWedged, WatchAbort, RestartEngine,
         HealthRestarts, Restart, Abandon, ReleaseAbandoned, Heal, CanaryClears, CanaryParks,
         CanaryRestarts, Snapshot, HealthPasses, HeartbeatAnswered, HeartbeatFails, Posts,
         DispatchEnds
  <2> QED
    BY <2>1, <1>3
<1>7. "ws" \in Dispatchers /\ "rest" \in Dispatchers
  BY DEF Dispatchers
<1> QED
  BY <1>1, <1>2, <1>4, <1>5, <1>6, <1>7 DEF Next, WsOffer, RestOffer

-----------------------------------------------------------------------------
(* An id that is accepted is added to the list, and nothing leaves it: the *)
(* list is shorter than the jobs are many, so it is not full.              *)
LEMMA AcceptRemembers ==
  ASSUME Remembers, TypeOK, NoDuplicates, NEW d \in Dispatchers, Accepts(d)
  PROVE  SeenIds' = SeenIds \cup {djob[d]} /\ NoDuplicates'
<1> DEFINE j == djob[d]
<1>1. j \in Jobs /\ j \notin SeenIds /\ seen \in Seq(Jobs) /\ Len(seen) \in Nat
  BY DEF Accepts, TypeOK
<1>2. SeenIds \subseteq Jobs
  BY <1>1 DEF SeenIds
<1>3. IsFiniteSet(SeenIds)
  BY <1>2, SetsAssumption, FS_Subset
<1>4. Cardinality(SeenIds) < Cardinality(Jobs)
  <2>1. Cardinality(SeenIds) <= Cardinality(Jobs) /\ Cardinality(SeenIds) # Cardinality(Jobs)
    BY <1>1, <1>2, SetsAssumption, FS_Subset
  <2>2. Cardinality(SeenIds) \in Nat /\ Cardinality(Jobs) \in Nat
    BY <1>3, SetsAssumption, FS_CardinalityType
  <2> QED
    BY <2>1, <2>2
<1>5. Len(seen) < SeenCap
  <2>1. Cardinality(Jobs) \in Nat /\ SeenCap \in Nat
    BY SetsAssumption, BoundsAssumption, FS_CardinalityType
  <2> QED
    BY <1>1, <1>4, <2>1 DEF Remembers, NoDuplicates
<1>6. seen' = Append(seen, j)
  BY <1>1, <1>5, BoundsAssumption DEF Accepts, Insert
<1>7. SeenIds' = SeenIds \cup {j}
  <2>1. DOMAIN seen' = DOMAIN seen \cup {Len(seen) + 1}
    BY <1>1, <1>6
  <2>2. \A i \in DOMAIN seen : seen'[i] = seen[i]
    BY <1>1, <1>6
  <2>3. seen'[Len(seen) + 1] = j
    BY <1>1, <1>6
  <2> QED
    BY <2>1, <2>2, <2>3 DEF SeenIds
<1>8. Cardinality(SeenIds \cup {j}) = Cardinality(SeenIds) + 1
  BY <1>1, <1>3, FS_AddElement
<1>9. Len(seen') = Len(seen) + 1
  BY <1>1, <1>6
<1> QED
  BY <1>7, <1>8, <1>9 DEF NoDuplicates

LEMMA LedgerInvStep ==
  ASSUME Remembers, TypeOK, LedgerInv, [Next]_vars
  PROVE  LedgerInv'
<1>n. NoDuplicates /\ InflightSeen /\ TrackedOnce /\ AcceptedSeen /\ OneAcceptance /\ StartedSeen
  BY DEF LedgerInv
<1>0. ASSUME LetsGo PROVE LedgerInv'
  <2>1. UNCHANGED <<seen, starts>> /\ SeenIds' = SeenIds /\ inflight' \subseteq inflight
    BY <1>0 DEF LetsGo, SeenIds
  <2>2. \A d \in Dispatchers : dpc'[d] \in Accepting => dpc'[d] = dpc[d] /\ djob'[d] = djob[d]
    BY <1>0 DEF LetsGo
  <2>3. NoDuplicates' /\ InflightSeen' /\ StartedSeen'
    BY <1>n, <2>1 DEF NoDuplicates, InflightSeen, StartedSeen
  <2>4. TrackedOnce'
    BY <1>n, <2>1, <2>2 DEF TrackedOnce, Accepting
  <2>5. AcceptedSeen'
    BY <1>n, <2>1, <2>2 DEF AcceptedSeen
  <2>6. OneAcceptance'
    BY <1>n, <2>2 DEF OneAcceptance
  <2> QED
    BY <2>3, <2>4, <2>5, <2>6 DEF LedgerInv
<1>u. CASE UNCHANGED vars
  BY <1>0, <1>u DEF vars, dispatch, tasks, LetsGo
<1>1. ASSUME NEW d \in Dispatchers, Accepts(d) PROVE LedgerInv'
  <2>1. SeenIds' = SeenIds \cup {djob[d]} /\ NoDuplicates'
    BY <1>n, <1>1, AcceptRemembers
  <2>2. /\ UNCHANGED <<djob, inflight, starts>> /\ djob[d] \notin SeenIds /\ djob[d] \in Jobs
        /\ \A e \in Dispatchers : dpc'[e] = IF e = d THEN "track" ELSE dpc[e]
    BY <1>1 DEF Accepts, TypeOK
  <2>3. starts[djob[d]] = 0
    BY <1>n, <2>2 DEF StartedSeen, TypeOK
  <2>4. InflightSeen' /\ StartedSeen'
    BY <1>n, <2>1, <2>2 DEF InflightSeen, StartedSeen
  <2>5. TrackedOnce'
    BY <1>n, <2>2 DEF TrackedOnce, InflightSeen
  <2>6. AcceptedSeen'
    BY <1>n, <2>1, <2>2, <2>3 DEF AcceptedSeen
  <2>7. OneAcceptance'
    BY <1>n, <2>2 DEF OneAcceptance, AcceptedSeen
  <2> QED
    BY <2>1, <2>4, <2>5, <2>6, <2>7 DEF LedgerInv
<1>2. ASSUME NEW d \in Dispatchers, Track(d) PROVE LedgerInv'
  <2>1. /\ dpc[d] = "track" /\ inflight' = inflight \cup {djob[d]}
        /\ UNCHANGED <<djob, seen, starts>> /\ SeenIds' = SeenIds
        /\ \A e \in Dispatchers : dpc'[e] = IF e = d THEN "spawn" ELSE dpc[e]
    BY <1>2 DEF Track, DispatcherGoes, tasks, SeenIds, TypeOK
  <2>2. djob[d] \in SeenIds
    BY <1>n, <2>1 DEF AcceptedSeen, Accepting
  <2>3. NoDuplicates' /\ InflightSeen' /\ StartedSeen'
    BY <1>n, <2>1, <2>2 DEF NoDuplicates, InflightSeen, StartedSeen
  <2>4. TrackedOnce'
    BY <1>n, <2>1 DEF TrackedOnce, OneAcceptance, Accepting
  <2>5. AcceptedSeen' /\ OneAcceptance'
    BY <1>n, <2>1 DEF AcceptedSeen, OneAcceptance, Accepting
  <2> QED
    BY <2>3, <2>4, <2>5 DEF LedgerInv
<1>3. ASSUME NEW d \in Dispatchers, Spawn(d) PROVE LedgerInv'
  <2>1. /\ dpc[d] = "spawn" /\ UNCHANGED <<inflight, seen>> /\ SeenIds' = SeenIds
        /\ \A e \in Dispatchers : /\ dpc'[e] = IF e = d THEN "idle" ELSE dpc[e]
                                  /\ e # d => djob'[e] = djob[e]
    BY <1>3 DEF Spawn, DispatcherEnds, SeenIds, TypeOK
  <2>2. djob[d] \in SeenIds /\ djob[d] \in Jobs /\ starts[djob[d]] = 0
    BY <1>n, <2>1 DEF AcceptedSeen, Accepting, TypeOK
  <2>3. \A j \in Jobs : starts'[j] = IF j = djob[d] THEN 1 ELSE starts[j]
    BY <1>3, <2>2 DEF Spawn, TypeOK
  <2>4. NoDuplicates' /\ InflightSeen' /\ StartedSeen'
    BY <1>n, <2>1, <2>2, <2>3 DEF NoDuplicates, InflightSeen, StartedSeen
  <2>5. TrackedOnce' /\ OneAcceptance'
    BY <1>n, <2>1 DEF TrackedOnce, OneAcceptance, Accepting
  <2>6. AcceptedSeen'
    BY <1>n, <2>1, <2>2, <2>3 DEF AcceptedSeen, OneAcceptance, Accepting, TypeOK
  <2> QED
    BY <2>4, <2>5, <2>6 DEF LedgerInv
<1> QED
  BY <1>u, <1>0, <1>1, <1>2, <1>3, StepKinds, LedgerInvRelaunch

LEMMA LedgerInvariant == ASSUME Remembers PROVE Spec => []LedgerInv
BY LedgerInvInit, LedgerInvStep, TypeCorrect, PTL DEF Spec

(* While nothing is forgotten, a process starts each job at most once.     *)
THEOREM JobsRunOnce == ASSUME Remembers PROVE Spec => []AtMostOnce
<1>1. LedgerInv => AtMostOnce
  BY DEF LedgerInv, StartedSeen, AtMostOnce
<1> QED
  BY <1>1, LedgerInvariant, PTL

(* Nor is a slot ever lost: the one way to lose its owner is to track an   *)
(* id that is in flight already.                                           *)
THEOREM NoSlotLost == ASSUME Remembers PROVE Spec => []NoSlotLeak
<1>1. Init => NoSlotLeak
  <2> SUFFICES ASSUME Init PROVE NoSlotLeak
    OBVIOUS
  <2>1. Reserved = {} /\ Releasing = {} /\ inflight = {}
    BY DEF Init, Reserved, Releasing
  <2> QED
    BY <2>1, FS_EmptySet DEF Init, NoSlotLeak, Owed
<1>2. TypeOK /\ TypeOK' /\ AbandonedIsBrief /\ SlotSafety /\ LedgerInv /\ NoSlotLeak
        /\ [Next]_vars => NoSlotLeak'
  <2> SUFFICES ASSUME TypeOK, TypeOK', AbandonedIsBrief, SlotSafety, LedgerInv, NoSlotLeak,
                      [Next]_vars
               PROVE  NoSlotLeak'
    OBVIOUS
  <2>1. CASE UNCHANGED vars
    BY <2>1 DEF vars, loop, dispatch, tasks, NoSlotLeak, Owed, Reserved, Releasing
  <2>2. CASE Next
    <3>1. Owed \in Int /\ activeJobs \in Int /\ Owed' \in Int /\ activeJobs' \in Int
      BY OwedNat, OwedNatNext
    <3>2. ~OwnerLost
      BY DEF OwnerLost, Track, LedgerInv, TrackedOnce
    <3>3. Balanced \/ Cleared
      BY <2>2, <3>2, SlotBalance
    <3>4. \A a, b, c \in Int : a - b = c - c => a = b
      OBVIOUS
    <3> QED
      BY <3>1, <3>3, <3>4 DEF Balanced, Cleared, NoSlotLeak
  <2> QED
    BY <2>1, <2>2
<1> QED
  BY <1>1, <1>2, TypeCorrect, AbandonedBrief, SlotsSafe, LedgerInvariant, PTL DEF Spec

-----------------------------------------------------------------------------
(***************************************************************************)
(* The refinement of JobLedger.                                            *)
(***************************************************************************)
LEMMA StatusOf ==
  ASSUME NEW j \in Jobs
  PROVE  LedgerStatus[j] = IF Tracked(j) THEN "running" ELSE IF j \in SeenIds THEN "over" ELSE "new"
BY DEF LedgerStatus

LEMMA RunningIds == Ledger!Running = {j \in Jobs : Tracked(j)}
BY StatusOf DEF Ledger!Running

(* A tracked id holds a slot, and the dispatcher about to accept another   *)
(* one holds a slot of its own.                                            *)
LEMMA RoomForOne ==
  ASSUME TypeOK, SlotSafety, NEW d \in Dispatchers, dpc[d] = "dedup"
  PROVE  Cardinality(Ledger!Running) < MaxJobs
<1> USE FiniteParts, BoundsAssumption
<1>1. PICK e \in Dispatchers \ {d} : Dispatchers = {d, e}
  BY DEF Dispatchers
<1>2. d \in Reserved /\ dpc[e] = "track" => e \in Reserved
  BY DEF Reserved
<1>3. CASE dpc[e] = "track"
  <2>1. Ledger!Running = inflight \cup {djob[e]}
    <3>1. djob[e] \in Jobs /\ inflight \subseteq Jobs
      BY <1>3 DEF TypeOK
    <3>2. \A j : Tracked(j) <=> j \in inflight \cup {djob[e]}
      BY <1>1, <1>3 DEF Tracked
    <3> QED
      BY <3>1, <3>2, RunningIds
  <2>2. Cardinality(inflight \cup {djob[e]}) <= Cardinality(inflight) + 1
    <3>1. IsFiniteSet(inflight) /\ Cardinality(inflight) \in Nat
      OBVIOUS
    <3>2. Cardinality(inflight \cup {djob[e]})
            = IF djob[e] \in inflight THEN Cardinality(inflight) ELSE Cardinality(inflight) + 1
      BY <3>1, FS_AddElement
    <3> QED
      BY <3>1, <3>2
  <2>3. Cardinality(Reserved) = 2
    <3>1. Reserved = {d} \cup {e}
      BY <1>1, <1>3 DEF Reserved
    <3>2. IsFiniteSet({d}) /\ Cardinality({d}) = 1
      BY FS_Singleton
    <3>3. Cardinality({d} \cup {e}) = 1 + 1
      BY <1>1, <3>2, FS_AddElement
    <3> QED
      BY <3>1, <3>3
  <2>4. Cardinality(Ledger!Running) \in Nat
    BY <2>1, FS_AddElement, FS_CardinalityType
  <2> QED
    BY <2>1, <2>2, <2>3, <2>4, OwedNat DEF SlotSafety, Owed, TypeOK
<1>4. CASE dpc[e] # "track"
  <2>1. Ledger!Running = inflight
    BY <1>1, <1>4, RunningIds DEF Tracked, TypeOK
  <2>2. Cardinality(Reserved) # 0
    BY <1>2, FS_EmptySet DEF Reserved
  <2> QED
    BY <2>1, <2>2, OwedNat DEF SlotSafety, Owed, TypeOK
<1> QED
  BY <1>3, <1>4

LEMMA AcceptStep ==
  ASSUME Remembers, TypeOK, SlotSafety, LedgerInv, NEW d \in Dispatchers, Accepts(d)
  PROVE  Ledger!Accept(djob[d])
<1> DEFINE j == djob[d]
<1>1. j \in Jobs /\ j \notin SeenIds /\ UNCHANGED <<djob, inflight>>
  BY DEF Accepts, TypeOK
<1>2. \A e \in Dispatchers : dpc'[e] = IF e = d THEN "track" ELSE dpc[e]
  BY DEF Accepts, TypeOK
<1>3. SeenIds' = SeenIds \cup {j}
  BY AcceptRemembers DEF LedgerInv
<1>4. \A i : Tracked(i) => i \in SeenIds
  BY DEF Tracked, LedgerInv, InflightSeen, AcceptedSeen, Accepting
<1>5. \A i : Tracked(i)' <=> Tracked(i) \/ i = j
  BY <1>1, <1>2 DEF Tracked, Accepts
<1>6. LedgerStatus[j] = "new"
  BY <1>1, <1>4, StatusOf
<1>7. LedgerStatus' = [LedgerStatus EXCEPT ![j] = "running"]
  BY <1>1, <1>3, <1>5 DEF LedgerStatus
<1>8. Cardinality(Ledger!Running) < MaxJobs
  BY RoomForOne DEF Accepts
<1>9. Ledger!Cardinality(Ledger!Running) = Cardinality(Ledger!Running)
  BY DEF Ledger!Cardinality, Cardinality
<1> QED
  BY <1>6, <1>7, <1>8, <1>9 DEF Ledger!Accept

LEMMA LetsGoStep ==
  ASSUME TypeOK, LedgerInv, LetsGo
  PROVE  Ledger!Finish(inflight \ inflight')
<1> DEFINE S == inflight \ inflight'
<1>1. SeenIds' = SeenIds /\ inflight' \subseteq inflight
  BY DEF LetsGo, SeenIds
<1>2. \A d \in Dispatchers : dpc'[d] = "track" <=> dpc[d] = "track"
  BY DEF LetsGo, Accepting
<1>3. \A d \in Dispatchers : dpc[d] = "track" => djob'[d] = djob[d] /\ djob[d] \notin inflight
  BY DEF LetsGo, LedgerInv, TrackedOnce
<1>4. \A j : Tracked(j)' <=> Tracked(j) /\ j \notin S
  BY <1>1, <1>2, <1>3 DEF Tracked
<1>5. \A j \in S : j \in Jobs /\ j \in SeenIds /\ Tracked(j)
  BY DEF TypeOK, LedgerInv, InflightSeen, Tracked
<1>6. S \subseteq Ledger!Running
  BY <1>5, RunningIds
<1>7. LedgerStatus' = [j \in Jobs |-> IF j \in S THEN "over" ELSE LedgerStatus[j]]
  BY <1>1, <1>4, <1>5 DEF LedgerStatus
<1> QED
  BY <1>6, <1>7 DEF Ledger!Finish

LEMMA TrackStep ==
  ASSUME TypeOK, NEW d \in Dispatchers, Track(d) \/ Spawn(d)
  PROVE  UNCHANGED LedgerStatus
<1>1. SeenIds' = SeenIds
  BY DEF Track, Spawn, SeenIds
<1>2. CASE Track(d)
  <2>1. /\ dpc[d] = "track" /\ inflight' = inflight \cup {djob[d]} /\ UNCHANGED djob
        /\ \A e \in Dispatchers : dpc'[e] = IF e = d THEN "spawn" ELSE dpc[e]
    BY <1>2 DEF Track, DispatcherGoes, TypeOK
  <2>2. \A j : Tracked(j)' <=> Tracked(j)
    BY <2>1 DEF Tracked
  <2> QED
    BY <1>1, <2>2 DEF LedgerStatus
<1>3. CASE Spawn(d)
  <2>1. /\ dpc[d] = "spawn" /\ UNCHANGED inflight
        /\ \A e \in Dispatchers : /\ dpc'[e] = IF e = d THEN "idle" ELSE dpc[e]
                                  /\ e # d => djob'[e] = djob[e]
    BY <1>3 DEF Spawn, DispatcherEnds, TypeOK
  <2>2. \A j : Tracked(j)' <=> Tracked(j)
    BY <2>1 DEF Tracked
  <2> QED
    BY <1>1, <2>2 DEF LedgerStatus
<1> QED
  BY <1>2, <1>3

LEMMA FreshLedger ==
  ASSUME seen = <<>>, inflight = {}, \A d \in Dispatchers : dpc[d] # "track"
  PROVE  LedgerStatus = [j \in Jobs |-> "new"]
BY DEF LedgerStatus, Tracked, SeenIds

LEMMA RelaunchStep == Relaunch => Ledger!Restart
<1> SUFFICES ASSUME Relaunch PROVE Ledger!Restart
  OBVIOUS
<1>1. inflight' = {} /\ SeenIds' = {} /\ \A d \in Dispatchers : dpc'[d] # "track"
  BY DEF Relaunch, SeenIds
<1>2. \A j : ~Tracked(j)'
  BY <1>1 DEF Tracked
<1> QED
  BY <1>1, <1>2 DEF LedgerStatus, Ledger!Restart

(* Through both transports, the watchdogs and the relaunches, the node     *)
(* tracks at most MaxJobs jobs and takes none back that it let go.         *)
THEOREM NodeKeepsLedger == ASSUME Remembers PROVE Spec => RefinesLedger
<1>1. Init => Ledger!Init
  BY FreshLedger DEF Init, Ledger!Init
<1>2. TypeOK /\ SlotSafety /\ LedgerInv /\ [Next]_vars => [Ledger!Next]_LedgerStatus
  <2> SUFFICES ASSUME TypeOK, SlotSafety, LedgerInv, [Next]_vars
               PROVE  [Ledger!Next]_LedgerStatus
    OBVIOUS
  <2>1. CASE UNCHANGED vars
    BY <2>1 DEF vars, dispatch, LedgerStatus, Tracked, SeenIds
  <2>2. CASE Relaunch
    BY <2>2, RelaunchStep DEF Ledger!Next
  <2>3. CASE LetsGo
    <3>1. inflight \ inflight' \in SUBSET Jobs
      BY DEF TypeOK
    <3> QED
      BY <2>3, <3>1, LetsGoStep DEF Ledger!Next
  <2>4. ASSUME NEW d \in Dispatchers, Accepts(d) PROVE [Ledger!Next]_LedgerStatus
    <3>1. djob[d] \in Jobs
      BY <2>4 DEF Accepts, TypeOK
    <3> QED
      BY <2>4, <3>1, AcceptStep DEF Ledger!Next
  <2>5. ASSUME NEW d \in Dispatchers, Track(d) \/ Spawn(d) PROVE [Ledger!Next]_LedgerStatus
    BY <2>5, TrackStep
  <2> QED
    BY <2>1, <2>2, <2>3, <2>4, <2>5, StepKinds
<1> QED
  BY <1>1, <1>2, TypeCorrect, SlotsSafe, LedgerInvariant, PTL DEF Spec, RefinesLedger, Ledger!Spec
=============================================================================
