------------------------ MODULE MCHealthSupervision ------------------------
(* Instances of HealthSupervision for TLC. *)
EXTENDS HealthSupervision
=============================================================================
