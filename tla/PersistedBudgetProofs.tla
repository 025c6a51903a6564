------------------------ MODULE PersistedBudgetProofs ------------------------
(***************************************************************************)
(* What the operators of PersistedBudget return, for the proofs about the  *)
(* modules that use them.                                                  *)
(***************************************************************************)
EXTENDS PersistedBudget, TLAPS

(* Facts about the constants, used all along.                              *)
LEMMA BudgetConstants ==
  /\ MaxRestarts \in Nat /\ MaxRestarts > 0
  /\ MinInterval \in Nat /\ Window \in Nat /\ MaxDelay \in Nat
  /\ MaxDelay <= MinInterval /\ MinInterval <= Window
  /\ AgeCap \in Nat /\ AgeCap = Window + MaxDelay + 1
BY BudgetAssumption DEF AgeCap

(* An age stays within its cap.                                            *)
LEMMA OlderStays ==
  ASSUME NEW cap \in Nat, NEW a \in 0 .. cap
  PROVE  Older(a, cap) \in 0 .. cap
BY DEF Older

(* What the operators on the budget return.                                *)
LEMMA BudgetTypes ==
  ASSUME mem \in Budgets, NEW d \in 0 .. MaxDelay
  PROVE  /\ Since(d) \in Int
         /\ Effective(d) \in 0 .. MaxRestarts
         /\ Allowed(d) => Effective(d) + 1 \in 1 .. MaxRestarts
         /\ [mem EXCEPT !.restarts = 0] \in Budgets
         /\ Allowed(d) => [restarts |-> Effective(d) + 1, age |-> d] \in Budgets
<1>1. mem.restarts \in 0 .. MaxRestarts /\ mem.age \in 0 .. AgeCap
  BY DEF Budgets
<1>2. Since(d) \in Int
  BY <1>1, BudgetConstants DEF Since
<1>3. Effective(d) \in 0 .. MaxRestarts
  BY <1>1, BudgetConstants DEF Effective
<1>4. Allowed(d) => Effective(d) + 1 \in 1 .. MaxRestarts
  BY <1>3, BudgetConstants DEF Allowed, Exhausted
<1>5. d \in 0 .. AgeCap
  BY BudgetConstants
<1>6. [mem EXCEPT !.restarts = 0] \in Budgets
  BY <1>1, BudgetConstants DEF Budgets
<1> QED
  BY <1>2, <1>3, <1>4, <1>5, <1>6, BudgetConstants DEF Budgets

(* A tick keeps the budget's type.                                         *)
LEMMA BudgetAgesTypes ==
  ASSUME BudgetTypeOK, BudgetAges PROVE BudgetTypeOK'
<1>1. ASSUME NEW b \in Budgets PROVE [b EXCEPT !.age = Older(@, AgeCap)] \in Budgets
  <2>1. Older(b.age, AgeCap) \in 0 .. AgeCap
    BY OlderStays, BudgetConstants DEF Budgets
  <2> QED
    BY <2>1 DEF Budgets
<1> QED
  BY <1>1 DEF BudgetTypeOK, BudgetAges
=============================================================================
