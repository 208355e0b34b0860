------------------------------ MODULE MCDelivery ------------------------------
(* Three actors: a plain one, one whose module is for commands, and one the   *)
(* board cannot carry.  Each event mixes strict, merging and droppable        *)
(* routes; "lone" has none.                                                   *)
EXTENDS Delivery

To(e, a, q) == [event |-> e, target |-> a, qos |-> q]
MCRoutes == << To("tick", 0, "COALESCED"), To("tick", 2, "CRITICAL"),
               To("tick", 1, "CRITICAL"),
               To("cmd", 0, "TELEMETRY"), To("cmd", 0, "BEST_EFFORT"),
               To("cmd", 1, "COMMAND"), To("cmd", 0, "LATEST_ONLY") >>
MCPolicy == [a \in Actors |-> IF a = 1 THEN "COMMAND" ELSE "CRITICAL"]

=============================================================================
