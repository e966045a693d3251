------------------------------ MODULE RuleBook ------------------------------
(***************************************************************************)
(* What a store's schema promises of the rules its tags are judged by: one *)
(* set of rules, changed by a declare as a whole and by nothing else.      *)
(* Seeding, conflicts, retries and processes dying do not show in it.      *)
(***************************************************************************)
CONSTANTS
  Seed,      \* the rules a store is made with
  Older,     \* the rules of stores made before every store was seeded
  Declares   \* the declares ever asked for: the tags each adds and removes

VARIABLE rules

Init == rules \in {Seed} \cup Older

Declare == \E d \in Declares : rules' = (rules \cup d.add) \ d.remove

Spec == Init /\ [][Declare]_rules
=============================================================================
