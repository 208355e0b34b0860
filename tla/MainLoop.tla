------------------------------- MODULE MainLoop -------------------------------
(***************************************************************************)
(* The main task's loop, and the network link it drains, one at a time.    *)
(* The loop's model counts the events of the network ring, the link's      *)
(* model names them and takes them off one by one; each has its own        *)
(* fairness, for the properties that say that something happens.           *)
(***************************************************************************)
EXTENDS RuntimeLoop, NetLink

VARIABLE part   \* the one that runs

mainVars == <<part, loopVars, netVars>>

\* Without the link running there is no access point to wait for.
Init ==
  /\ part \in {"loop", "net"}
  /\ LoopInit /\ NetInit
  /\ part # "net" => ~ap

Next ==
  /\ UNCHANGED part
  /\ \/ part = "loop" /\ LoopNext /\ UNCHANGED netVars
     \/ part = "net" /\ NetNext /\ UNCHANGED loopVars

Spec ==
  /\ Init /\ [][Next]_mainVars
  /\ part = "loop" => LoopFairness
  /\ part = "net" => NetFairness
=============================================================================
