----------------------------- MODULE MCSelfHeal -----------------------------
(* Instances of SelfHeal for TLC. *)
EXTENDS SelfHeal
=============================================================================
