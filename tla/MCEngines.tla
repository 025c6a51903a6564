----------------------------- MODULE MCEngines -----------------------------
EXTENDS Engines

(* Which call repeats a request id: the third of the image engine, and the *)
(* second of the others, which are called twice.                           *)
Ids == rid = IF kind = "image" THEN <<1, 2, 1>> ELSE <<1, 1, 2>>
FewCalls == kind # "image" => call[3] = "new"

(* For the replay caches: the engines that have one, called three times,   *)
(* with a clock that runs, up to the first fault of the worker.  Nobody is *)
(* served, and time need not pass, before the start.                       *)
Undisturbed ==
  /\ kind # "embed"
  /\ loop \in {"preparing", "starting", "watch"} /\ (IF loop = "watch" THEN IsHealthy ELSE clock = 0)
  /\ child \notin {"foreign", "dead"} /\ (sup # "await" => frames = <<>> \/ sup \in {"startup", "spawn"})

Instance == Ids /\ ((FewCalls /\ clock = 0) \/ Undisturbed)
=============================================================================
