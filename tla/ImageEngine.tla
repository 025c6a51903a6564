---------------------------- MODULE ImageEngine ----------------------------
(***************************************************************************)
(* The image engine (src/src/image.rs): a WorkerEngine with two restart    *)
(* faults and another replay cache.                                       *)
(*                                                                         *)
(* A worker killed because a request took too long is relaunched from a    *)
(* budget of its own, and parked after MaxConsecutive such kills without a *)
(* picture in between; any other fault spends the crash budget.  A request *)
(* id is claimed while its call runs and remembered only when it was       *)
(* served.                                                                 *)
(***************************************************************************)
EXTENDS WorkerEngine

CONSTANT
  MaxConsecutive  \* timeouts in a row that park the worker (3)

ASSUME ImageAssumption == MaxConsecutive \in Nat \ {0}

VARIABLES
  pending,            \* request ids claimed by a running call
  timedOut,           \* the last fault was a request that took too long
  consecutive,        \* such faults in a row, as restart() counts them
  parked,             \* never to be relaunched in this process
  late                \* requests timed out since the last picture (history)

faults == <<timedOut, consecutive, parked>>
imageVars == <<pending, faults, late>>

ImageTypeOK ==
  /\ pending \subseteq RequestIds
  /\ timedOut \in BOOLEAN /\ parked \in BOOLEAN
  /\ consecutive \in 0 .. MaxConsecutive
  /\ late \in 0 .. MaxCalls

ImageInit ==
  /\ pending = {} /\ timedOut = FALSE /\ consecutive = 0 /\ parked = FALSE /\ late = 0

ImageProduction == Production /\ UNCHANGED imageVars
ImageStart == (StartEnds \/ StartGivesUp) /\ UNCHANGED imageVars

-----------------------------------------------------------------------------
(* restart().  The flag is read and cleared at once.  Whether the budget of *)
(* the hour has room is left open: the clock is not modelled, and a restart *)
(* that is refused leaves the worker as it is.                              *)
Park ==
  /\ loop = "watch" /\ ~parked /\ timedOut /\ consecutive + 1 >= MaxConsecutive
  /\ timedOut' = FALSE /\ consecutive' = consecutive + 1 /\ parked' = TRUE
  /\ Stop /\ loop' = "failing"
  /\ UNCHANGED <<kind, queue, sup, job, ready, worker, restarts, callers, pending, late>>

AfterTimeout ==
  /\ loop = "watch" /\ ~parked /\ timedOut /\ consecutive + 1 < MaxConsecutive
  /\ timedOut' = FALSE /\ consecutive' = consecutive + 1
  /\ (RestartStops /\ UNCHANGED restarts) \/ UNCHANGED wvars
  /\ UNCHANGED <<pending, parked, late>>

AfterCrash ==
  /\ loop = "watch" /\ ~parked /\ ~timedOut
  /\ RestartStops /\ UNCHANGED <<restarts, imageVars>>

ImageRestart ==
  \/ Park \/ AfterTimeout \/ AfterCrash
  \/ (RestartLaunches \/ RestartConfirms \/ RestartFails) /\ UNCHANGED imageVars

-----------------------------------------------------------------------------
(* SeenRequestIds.  begin() claims an id that is neither served, as far as *)
(* is remembered once the expired ids are gone, nor claimed; the mutant    *)
(* looks only at those that were served.                                   *)
ServedBefore(s, r) == Remembers(s, r)
Taken(s, r) == Remembers(s, r) \/ r \in pending

(* finish(), on every way out of generate(): an id is remembered from the  *)
(* moment it was served.  The mutant remembers it served or not.           *)
RememberAll(c, served) ==
  /\ pending' = pending \ {rid[c]}
  /\ \E s \in Unexpired : seen' = Append(Room(s), Entry(rid[c]))
  /\ kept' = [kept EXCEPT ![c] = clock]
Release(c, served) ==
  /\ pending' = pending \ {rid[c]}
  /\ \/ /\ ~served /\ UNCHANGED <<seen, kept>>
     \/ /\ served /\ kept' = [kept EXCEPT ![c] = clock]
        /\ \E s \in Unexpired :
             seen' = IF Remembers(Room(s), rid[c]) THEN Room(s) ELSE Append(Room(s), Entry(rid[c]))

ImageReplayed(c) ==
  /\ Begins(c) /\ IsHealthy /\ Returns(c, Replay)
  /\ \E s \in Unexpired : Taken(s, rid[c]) /\ seen' = s
  /\ UNCHANGED <<kind, flags, queue, sup, job, ready, worker, loop, restarts, clock, begun, kept, imageVars>>

ImageAdmit(c) ==
  /\ Begins(c) /\ IsHealthy
  /\ \E s \in Unexpired : ~Taken(s, rid[c]) /\ seen' = s
  /\ pending' = pending \cup {rid[c]}
  /\ begun' = [begun EXCEPT ![c] = clock]
  /\ call' = [call EXCEPT ![c] = "admitted"]
  /\ UNCHANGED <<kind, flags, queue, sup, job, ready, worker, loop, restarts, rid, answer, clock, kept,
                 faults, late>>

ImageSendFails(c) ==
  /\ call[c] = "admitted" /\ ~Sendable /\ Returns(c, Failed)
  /\ Release(c, FALSE)
  /\ UNCHANGED <<kind, flags, queue, sup, job, ready, worker, loop, restarts, clock, begun, faults, late>>

(* A picture starts the count of timeouts afresh.                          *)
ImageFinish(c) ==
  /\ call[c] = "waiting" /\ answer[c] # Unanswered
  /\ call' = [call EXCEPT ![c] = "returned"]
  /\ Release(c, answer[c].res = "ok")
  /\ consecutive' = IF answer[c].res = "ok" THEN 0 ELSE consecutive
  /\ late' = IF answer[c].res = "ok" THEN 0 ELSE late
  /\ UNCHANGED <<kind, flags, queue, sup, job, ready, worker, loop, restarts, rid, answer,
                 clock, begun, timedOut, parked>>

ImageDrop(c) ==
  /\ call[c] = "waiting" /\ answer[c] = Unanswered
  /\ call' = [call EXCEPT ![c] = "dropped"]
  /\ Release(c, FALSE)
  /\ UNCHANGED <<kind, flags, queue, sup, job, ready, worker, loop, restarts, rid, answer, clock, begun,
                 faults, late>>

Generate ==
  \E c \in Calls :
    \/ (Unhealthy(c) \/ Refused(c)) /\ UNCHANGED imageVars
    \/ ImageReplayed(c) \/ ImageAdmit(c)

Dispatch ==
  \E c \in Calls :
    \/ Send(c) /\ UNCHANGED imageVars
    \/ ImageSendFails(c) \/ ImageFinish(c) \/ ImageDrop(c)

-----------------------------------------------------------------------------
(* supervise(), in the order of its parts: the process and its threads,    *)
(* the first frame, the word to the caller, the loop and what ends it.     *)
ImageSpawn == Spawn
ImageReader == ReaderFaults /\ UNCHANGED imageVars
ImageReady == StartupFrame \/ StartupFails
ImageAdvertise == Check \/ Advertise
ImageLoop == LoopHead \/ TakeJob \/ IdleCheck \/ IdleDisconnected \/ Ending \/ Reap

(* run_job, parse_reply and validate_output, receive_frame.                *)
ImageWrite == WriteJob
ImageReply == AwaitFrame
ImageGivesUp == JobFails

(* Only a fault by the clock is marked.  The mutant does not mark it.      *)
UnmarkedTimeout == JobTimesOut /\ late' = late + 1 /\ UNCHANGED <<pending, faults>>
ImageTimesOut ==
  /\ JobTimesOut /\ timedOut' = TRUE /\ late' = late + 1
  /\ UNCHANGED <<pending, consecutive, parked>>

ImageSupervise ==
  \/ (ImageSpawn \/ ImageReady \/ ImageAdvertise \/ ImageLoop \/ ImageWrite \/ ImageReply \/ ImageGivesUp)
     /\ UNCHANGED imageVars
  \/ ImageTimesOut

ImageNext ==
  \/ ImageProduction \/ ImageStart \/ ImageRestart
  \/ Generate \/ Dispatch \/ ImageSupervise \/ ImageReader
=============================================================================
