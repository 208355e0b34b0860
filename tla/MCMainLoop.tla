------------------------------ MODULE MCMainLoop ------------------------------
(* Two lines, rings of two that fill while the poll loop is away, and      *)
(* budgets small enough to be spent.                                       *)
EXTENDS MainLoop

\* The second timer may be late by two periods.
MCMaxDue == [t \in Timers |-> t]
=============================================================================
