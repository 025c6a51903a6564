-------------------------- MODULE PersistedBudget --------------------------
(***************************************************************************)
(* The restart budget that EmptyHealth and FatalBackendBudget keep in      *)
(* memory and mirror in a file (src/src/node.rs): a count of restarts and  *)
(* the time of the last.  Times are kept as ages, counted in ticks and not *)
(* told apart beyond AgeCap, the age also of a restart that never was.     *)
(*                                                                         *)
(* The file is replaced by a rename, so a crash leaves the old contents or *)
(* the new, and only the heartbeat loop writes: an update in memory and its*)
(* write to disk are one step, since a crash between them forgets both.    *)
(***************************************************************************)
EXTENDS Integers

CONSTANTS
  MaxRestarts,  \* restarts allowed in a window
  MinInterval,  \* least time between two of them
  Window,       \* age beyond which they no longer count
  MaxDelay,     \* longest time between reading the clock and the restart
  DiskMayFail   \* TRUE: the write or the rename may fail

ASSUME BudgetAssumption ==
  /\ MaxRestarts \in Nat \ {0} /\ MinInterval \in Nat /\ Window \in Nat /\ MaxDelay \in Nat
  /\ MaxDelay <= MinInterval /\ MinInterval <= Window
  /\ DiskMayFail \in BOOLEAN

VARIABLES mem, disk

AgeCap  == Window + MaxDelay + 1
Older(a, cap) == IF a < cap THEN a + 1 ELSE a
Budgets == [restarts : 0 .. MaxRestarts, age : 0 .. AgeCap]
Fresh   == [restarts |-> 0, age |-> AgeCap]

BudgetTypeOK == mem \in Budgets /\ disk \in Budgets
BudgetInit   == mem = Fresh /\ disk = Fresh

(* A tick passes for the time of the last restart, here and on disk.       *)
BudgetAges ==
  /\ mem' = [mem EXCEPT !.age = Older(@, AgeCap)]
  /\ disk' = [disk EXCEPT !.age = Older(@, AgeCap)]

(* persist(), whose failure goes unnoticed.  The mutant does not write.    *)
PersistNothing(b) == UNCHANGED disk
Persist(b) == disk' = b \/ (DiskMayFail /\ UNCHANGED disk)

(* load(), in a new process.                                               *)
Load == mem' = disk /\ UNCHANGED disk

(* Time since the last restart, by a clock read d ticks ago.               *)
Since(d) == mem.age - d

(* effective_restarts: restarts older than the window do not count.  The   *)
(* mutant forgets them once the cooldown is over.                          *)
ForgottenTooSoon(d) == IF Since(d) > MinInterval THEN 0 ELSE mem.restarts
Effective(d) == IF Since(d) > Window THEN 0 ELSE mem.restarts

(* Which of the three verdicts the budget gives.  In the mutant the cap is *)
(* off by one.                                                             *)
ExhaustedTooLate(d) == Effective(d) > MaxRestarts
Exhausted(d) == Effective(d) >= MaxRestarts
CoolingDown(d) == ~Exhausted(d) /\ Effective(d) > 0 /\ Since(d) < MinInterval
Allowed(d) == ~Exhausted(d) /\ ~CoolingDown(d)

(* effective_restarts zeroes the count, in memory and on disk, once the    *)
(* window has passed.                                                      *)
Decay(d) ==
  IF Since(d) > Window
  THEN mem' = [mem EXCEPT !.restarts = 0] /\ Persist(mem')
  ELSE UNCHANGED <<mem, disk>>

(* note_restart(now), after the decay.                                     *)
Note(d) == mem' = [restarts |-> Effective(d) + 1, age |-> d] /\ Persist(mem')
=============================================================================
