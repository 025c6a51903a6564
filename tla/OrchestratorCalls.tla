-------------------------- MODULE OrchestratorCalls --------------------------
(***************************************************************************)
(* What the node tells the orchestrator about a job (OrchestratorClient,   *)
(* src/src/orchestrator.rs).  Each report is one HTTP request.  It is      *)
(* refused or never arrives, or it is taken and its answer arrives, or it  *)
(* is taken and its answer is lost: the node cannot tell the first from    *)
(* the last.                                                               *)
(***************************************************************************)
EXTENDS Integers, Sequences, SequencesExt, FiniteSets

VARIABLES
  accepted,   \* the reports the orchestrator took, in order
  unheard,    \* how many reports of the node had no good answer
  lost        \* a report was taken and its answer was lost (history)

callVars == <<accepted, unheard, lost>>

Forms == {"plain", "v1", "v2"}
Reports ==
  [post : {"complete"}, form : Forms, body : Nat, shows : BOOLEAN] \cup [post : {"fail", "error"}]
    \cup [post : {"chunk"}, seq : Nat, shows : BOOLEAN] \cup [post : {"final"}, seq : Nat, bill : Nat, partial : BOOLEAN]

CallsTypeOK == accepted \in Seq(Reports) /\ unheard \in Nat /\ lost \in BOOLEAN
CallsInit == accepted = <<>> /\ unheard = 0 /\ lost = FALSE

(* One request: what the node hears of it.                                 *)
Taken(p) == accepted' = Append(accepted, p) /\ UNCHANGED <<unheard, lost>>
NotTaken == unheard' = unheard + 1 /\ UNCHANGED <<accepted, lost>>
AnswerLost(p) == accepted' = Append(accepted, p) /\ unheard' = unheard + 1 /\ lost' = TRUE

Report(p, heard) ==
  \/ heard = TRUE /\ Taken(p)
  \/ heard = FALSE /\ (NotTaken \/ AnswerLost(p))

Fails == [post |-> "fail"]
StreamError == [post |-> "error"]
Complete(form, body, shows) == [post |-> "complete", form |-> form, body |-> body, shows |-> shows]
Chunk(seq, shows) == [post |-> "chunk", seq |-> seq, shows |-> shows]
Final(seq, bill, partial) == [post |-> "final", seq |-> seq, bill |-> bill, partial |-> partial]

(* The orchestrator has the job as done, for which it bills, or as failed. *)
Settles(p) == p.post \in {"complete", "final"}
Failing(p) == p.post \in {"fail", "error"}
=============================================================================
