------------------------------- MODULE Services -------------------------------
(***************************************************************************)
(* The services below the actors, one at a time: the timer service, the    *)
(* path of a long MQTT message in and of telemetry out, the I2C bus, the   *)
(* three bounded stores, and the watchdog, which judges the pumps.         *)
(* No two of them share a variable, so a behaviour of all of them together *)
(* is one of each, interleaved, and an invariant or an action property of  *)
(* one is decided by the behaviours in which only that one runs.           *)
(***************************************************************************)
EXTENDS TimerService, NetPayload, Telemetry, I2cBus, Queues, Watchdog

VARIABLE part   \* the one that runs

Parts == {"timer", "payload", "telemetry", "i2c", "ingress", "outbox", "faults",
          "watchdog"}

servicesVars ==
  <<part, timerVars, npVars, tlVars, i2cVars, inVars, obVars, fbVars, wdVars>>

Init ==
  /\ part \in Parts
  /\ TimerInit /\ NpInit /\ TlInit /\ I2cInit /\ InInit /\ ObInit /\ FbInit /\ WdInit

Next ==
  /\ UNCHANGED part
  /\ \/ /\ part = "timer" /\ TimerNext
        /\ UNCHANGED <<npVars, tlVars, i2cVars, inVars, obVars, fbVars, wdVars>>
     \/ /\ part = "payload" /\ NpNext
        /\ UNCHANGED <<timerVars, tlVars, i2cVars, inVars, obVars, fbVars, wdVars>>
     \/ /\ part = "telemetry" /\ TlNext
        /\ UNCHANGED <<timerVars, npVars, i2cVars, inVars, obVars, fbVars, wdVars>>
     \/ /\ part = "i2c" /\ I2cNext
        /\ UNCHANGED <<timerVars, npVars, tlVars, inVars, obVars, fbVars, wdVars>>
     \/ /\ part = "ingress" /\ InNext
        /\ UNCHANGED <<timerVars, npVars, tlVars, i2cVars, obVars, fbVars, wdVars>>
     \/ /\ part = "outbox" /\ ObNext
        /\ UNCHANGED <<timerVars, npVars, tlVars, i2cVars, inVars, fbVars, wdVars>>
     \/ /\ part = "faults" /\ FbNext
        /\ UNCHANGED <<timerVars, npVars, tlVars, i2cVars, inVars, obVars, wdVars>>
     \/ /\ part = "watchdog" /\ WdNext
        /\ UNCHANGED <<timerVars, npVars, tlVars, i2cVars, inVars, obVars, fbVars>>

Spec == Init /\ [][Next]_servicesVars
=============================================================================
