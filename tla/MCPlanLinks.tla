---------------------------- MODULE MCPlanLinks ----------------------------
(* PlanLinks on three plans, alike, and two callers at once. *)
EXTENDS PlanLinks, TLC

PlansAlike == Permutations(Plans)
TwoAtOnce == [c \in {"a", "b"} |-> IF c = "a" THEN 2 ELSE 1]
=============================================================================
