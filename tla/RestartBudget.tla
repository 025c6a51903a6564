--------------------------- MODULE RestartBudget ---------------------------
(***************************************************************************)
(* What a self-heal budget promises, seen from outside: how often an       *)
(* engine is restarted.  Restarts of one burst, each at most Window after  *)
(* the one before, number at most MaxRestarts and are MinGap apart.        *)
(***************************************************************************)
EXTENDS Integers

CONSTANTS MaxRestarts, MinGap, Window, Longest

VARIABLES
  burst,  \* restarts in the current burst
  quiet   \* time since the last restart, up to Longest

vars == <<burst, quiet>>

Init == burst = 0 /\ quiet = Longest

Tick == quiet < Longest /\ quiet' = quiet + 1 /\ UNCHANGED burst

Restart ==
  /\ \/ quiet > Window /\ burst' = 1
     \/ quiet <= Window /\ quiet >= MinGap /\ burst < MaxRestarts /\ burst' = burst + 1
  /\ quiet' = 0

Next == Tick \/ Restart

Spec == Init /\ [][Next]_vars
=============================================================================
