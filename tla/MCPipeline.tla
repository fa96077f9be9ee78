----------------------------- MODULE MCPipeline ------------------------------
(* Model values for the instances TLC checks: one document d1 with up to   *)
(* two job slots, or two documents with one slot each.                     *)
EXTENDS CorpusPipeline, TLC

CONSTANTS d1, d2, j1, j2

SlotsOfOne == [j \in Jobs |-> d1]
SlotsOfTwo == [j \in Jobs |-> IF j = j1 THEN d1 ELSE d2]

\* Slots of one document are interchangeable.
Slots == Permutations(Jobs)

(***************************************************************************)
(* A configuration bounds how often the administrator, the source and      *)
(* mishaps intervene; the workers themselves are not bounded.              *)
(***************************************************************************)
CONSTANT Budget
ASSUME BudgetAssumption == Budget \in Nat

VARIABLE budget

mcVars == <<vars, budget>>

MCInit == Init /\ budget = Budget

MCNext ==
  \/ (ReindexStep \/ SyncStep \/ IndexStep) /\ UNCHANGED budget
  \/ (AdminStep \/ Disturbance) /\ budget > 0 /\ budget' = budget - 1

MCSpec == MCInit /\ [][MCNext]_mcVars
MCFairSpec == MCSpec /\ Fairness
=============================================================================
