----------------------------- MODULE JobLedger ------------------------------
(***************************************************************************)
(* What the admission of jobs promises, seen from outside: an accepted job *)
(* is tracked, at most MaxJobs are tracked at once, a job leaves tracking  *)
(* once (finished or abandoned) and is not accepted again before the       *)
(* process restarts.                                                       *)
(***************************************************************************)
EXTENDS Integers, FiniteSets

CONSTANTS Jobs, MaxJobs

VARIABLE status

Running == {j \in Jobs : status[j] = "running"}

Init == status = [j \in Jobs |-> "new"]

Accept(j) ==
  /\ status[j] = "new"
  /\ Cardinality(Running) < MaxJobs
  /\ status' = [status EXCEPT ![j] = "running"]

Finish(S) ==
  /\ S \subseteq Running
  /\ status' = [j \in Jobs |-> IF j \in S THEN "over" ELSE status[j]]

Restart == status' = [j \in Jobs |-> "new"]

Next ==
  \/ \E j \in Jobs : Accept(j)
  \/ \E S \in SUBSET Jobs : Finish(S)
  \/ Restart

Spec == Init /\ [][Next]_status
=============================================================================
