-------------------------------- MODULE Actors --------------------------------
(***************************************************************************)
(* The actors, one at a time: going to sleep, the display, the sensors,    *)
(* the clock, the buttons, start-up, the remote commands and the demo      *)
(* application.                                                            *)
(* As with the services, no two of these models share a variable: what one *)
(* of them depends on in another (a full mailbox, a failing bus, a restart *)
(* of the device) is a step of its own.                                    *)
(***************************************************************************)
EXTENDS SleepEntry, Oled, Ds18b20, Bh1750, Rtc, Buttons, Startup, Command, Demo

VARIABLE part   \* the one that runs

Parts == {"sleep", "oled", "ds18b20", "bh1750", "rtc", "buttons", "startup",
          "command", "demo"}

actorsVars ==
  <<part, sleepVars, oledVars, dsVars, bhVars, rtcVars, btVars, svVars, cmdVars, dmVars>>

Init ==
  /\ part \in Parts
  /\ SleepInit /\ OledInit /\ DsInit /\ BhInit /\ RtcInit
  /\ BtInit /\ SvInit /\ CmdInit /\ DmInit

Next ==
  /\ UNCHANGED part
  /\ \/ /\ part = "sleep" /\ SleepNext
        /\ UNCHANGED <<oledVars, dsVars, bhVars, rtcVars, btVars, svVars, cmdVars, dmVars>>
     \/ /\ part = "oled" /\ OledNext
        /\ UNCHANGED <<sleepVars, dsVars, bhVars, rtcVars, btVars, svVars, cmdVars, dmVars>>
     \/ /\ part = "ds18b20" /\ DsNext
        /\ UNCHANGED <<sleepVars, oledVars, bhVars, rtcVars, btVars, svVars, cmdVars, dmVars>>
     \/ /\ part = "bh1750" /\ BhNext
        /\ UNCHANGED <<sleepVars, oledVars, dsVars, rtcVars, btVars, svVars, cmdVars, dmVars>>
     \/ /\ part = "rtc" /\ RtcNext
        /\ UNCHANGED <<sleepVars, oledVars, dsVars, bhVars, btVars, svVars, cmdVars, dmVars>>
     \/ /\ part = "buttons" /\ BtNext
        /\ UNCHANGED <<sleepVars, oledVars, dsVars, bhVars, rtcVars, svVars, cmdVars, dmVars>>
     \/ /\ part = "startup" /\ SvNext
        /\ UNCHANGED <<sleepVars, oledVars, dsVars, bhVars, rtcVars, btVars, cmdVars, dmVars>>
     \/ /\ part = "command" /\ CmdNext
        /\ UNCHANGED <<sleepVars, oledVars, dsVars, bhVars, rtcVars, btVars, svVars, dmVars>>
     \/ /\ part = "demo" /\ DmNext
        /\ UNCHANGED <<sleepVars, oledVars, dsVars, bhVars, rtcVars, btVars, svVars, cmdVars>>

Spec == Init /\ [][Next]_actorsVars
=============================================================================
