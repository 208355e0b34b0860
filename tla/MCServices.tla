------------------------------ MODULE MCServices ------------------------------
(* Three timers over two slots, generations of two values, and a clock     *)
(* that wraps during the run; rings and mailboxes of two, so that they     *)
(* fill while the poll loop is away; two payload slots for two actors; two *)
(* kinds of telemetry whose limit wraps; a recovery of three pulses for a  *)
(* slave that holds the line for longer; queues of three whose sequence    *)
(* numbers wrap, with a category of one, of two and without limit; and     *)
(* counters of the watchdog's snapshots that wrap within a burst.          *)
EXTENDS Services

MCLimit == [latest |-> 1, critical |-> 0, reply |-> 2]
=============================================================================
