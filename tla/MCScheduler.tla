----------------------------- MODULE MCScheduler -----------------------------
(* Three scheduled actors in two domains and one in a domain that is not in  *)
(* the active mask.                                                          *)
EXTENDS Scheduler

MCDomainOf == [a \in Actors |-> CASE a = 0 -> 0 [] a = 3 -> 2 [] OTHER -> 1]
MCDrainBudget == [a \in Actors |-> IF a = 1 THEN 2 ELSE 1]

=============================================================================
