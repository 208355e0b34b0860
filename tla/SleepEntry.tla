------------------------------ MODULE SleepEntry ------------------------------
(***************************************************************************)
(* Going to deep sleep.  The power actor handles EV_SYS_GOTO_SLEEP_CMD: it *)
(* arms (the demo's quiescence guard), flushes the log, has the platform   *)
(* prepare its ports (IRQ lines off, 1-Wire and I2C parked) and enters     *)
(* deep sleep, reporting each phase to the power state machine.  The GPIO  *)
(* interrupt and the clock run on all the while.  An error of the handler  *)
(* ends the poll and restarts the device (ev_runtime_app.c).               *)
(*                                                                         *)
(* The board has all three resources (GPIO IRQ, 1-Wire, I2C).              *)
(***************************************************************************)
EXTENDS Naturals, FiniteSets

CONSTANTS
  LineCount,     \* lines of the IRQ adapter
  RingCapacity   \* EV_ESP8266_IRQ_RING_CAPACITY

ASSUME SleepEntryAssumption ==
  {LineCount, RingCapacity} \subseteq Nat \ {0}

Lines == 1 .. LineCount

VARIABLES
  enabled,       \* lines an actor has enabled (ev_esp8266_irq_enable)
  armed,         \* line->armed: lines whose edges interrupt
  samples,       \* samples in the IRQ adapter
  irq_mask,      \* sleep_prepared_gpio_mask; sleep_prepared when not empty
  sys_prepared,  \* the system adapter's sleep_prepared
  work,          \* messages, ingress, busy actors or critical faults
  due,           \* a deadline has passed
  sleep_arming,  \* the demo's flag
  power,         \* state of the power state machine
  refused,       \* a step of the handler the state machine did not allow
  pc,            \* where the handler is
  line, off      \* prepare_for_sleep: next line, lines turned off

adapter == <<armed, samples, irq_mask>>
runtime == <<enabled, work, due>>
phase == <<power, refused>>
sleepVars == <<enabled, armed, samples, irq_mask, sys_prepared, work, due,
          sleep_arming, power, refused, pc, line, off>>

SleepInit ==
  /\ enabled = {} /\ armed = {} /\ samples = 0
  /\ irq_mask = {} /\ sys_prepared = FALSE
  /\ work = TRUE /\ due = FALSE /\ sleep_arming = FALSE
  /\ power = "ACTIVE" /\ refused = FALSE
  /\ pc = "idle" /\ line = 1 /\ off = {}

(***************************************************************************)
(* The power state machine (ev_power_transition_allowed): where an action  *)
(* is allowed and where it leads.                                          *)
(***************************************************************************)
Transitions == [
  REQUEST_SLEEP |-> [from |-> {"ACTIVE"}, to |-> "SLEEP_REQUESTED"],
  DRAIN_COMPLETE |-> [from |-> {"SLEEP_REQUESTED"}, to |-> "DRAINING_RUNTIME"],
  DRAIN_REJECTED |-> [from |-> {"SLEEP_REQUESTED", "DRAINING_RUNTIME"},
                      to |-> "REJECTED"],
  LOG_FLUSH_COMPLETE |-> [from |-> {"DRAINING_RUNTIME"}, to |-> "LOG_FLUSHING"],
  LOG_FLUSH_FAILED |-> [from |-> {"DRAINING_RUNTIME", "LOG_FLUSHING"},
                        to |-> "FAILED"],
  PORTS_PREPARED |-> [from |-> {"LOG_FLUSHING"}, to |-> "PORTS_PREPARE_SLEEP"],
  PORTS_PREPARE_FAILED |-> [from |-> {"LOG_FLUSHING", "PORTS_PREPARE_SLEEP"},
                            to |-> "FAILED"],
  RTC_STATE_SAVED |-> [from |-> {"PORTS_PREPARE_SLEEP"}, to |-> "RTC_STATE_SAVED"],
  DEEP_SLEEP_FAILED |-> [from |-> {"RTC_STATE_SAVED", "ENTERING_DEEP_SLEEP"},
                         to |-> "FAILED"]]

PowerStates == UNION {Transitions[a].from \cup {Transitions[a].to} :
                        a \in DOMAIN Transitions}

\* ev_power_state_machine_step: an action that is not allowed leaves the
\* state, and the actor ignores the error.
PowerStep(action) ==
  LET allowed == power \in Transitions[action].from
  IN  /\ power' = IF allowed THEN Transitions[action].to ELSE power
      /\ refused' = (refused \/ ~allowed)

(***************************************************************************)
(* Around the handler.                                                     *)
(***************************************************************************)
\* An edge on an armed line: the interrupt takes a sample or drops it.
Edge ==
  /\ pc # "asleep"
  /\ armed # {} /\ samples < RingCapacity
  /\ samples' = samples + 1
  /\ UNCHANGED <<enabled, armed, irq_mask, sys_prepared, work, due, sleep_arming,
                 phase, pc, line, off>>

Deadline ==
  /\ pc # "asleep"
  /\ ~due /\ due' = TRUE
  /\ UNCHANGED <<enabled, adapter, sys_prepared, work, sleep_arming, phase,
                 pc, line, off>>

\* The rest of the main task, between two commands: an actor enables a line,
\* a sample is collected, messages are handled, a timer is served.
EnableLine ==
  /\ pc = "idle"
  /\ \E l \in Lines \ enabled : enabled' = enabled \cup {l} /\ armed' = armed \cup {l}
  /\ UNCHANGED <<samples, irq_mask, sys_prepared, work, due, sleep_arming, phase,
                 pc, line, off>>

Runtime ==
  /\ pc = "idle"
  /\ \/ samples > 0 /\ samples' = samples - 1 /\ work' = TRUE /\ due' = due
     \/ work /\ work' = FALSE /\ UNCHANGED <<samples, due>>
     \/ due /\ due' = FALSE /\ work' = TRUE /\ samples' = samples
  /\ UNCHANGED <<enabled, armed, irq_mask, sys_prepared, sleep_arming, phase,
                 pc, line, off>>

(***************************************************************************)
(* The handler of EV_SYS_GOTO_SLEEP_CMD.                                   *)
(***************************************************************************)
\* A machine of its own for each command, in state ACTIVE.
RequestSleep ==
  /\ pc = "idle"
  /\ PowerStep("REQUEST_SLEEP")
  /\ pc' = "arm"
  /\ UNCHANGED <<runtime, adapter, sys_prepared, sleep_arming, line, off>>

Reject(action) ==
  /\ PowerStep(action)
  /\ pc' = "error"

\* ev_demo_app_sleep_arm: the flag, and the samples waiting
Arm ==
  /\ pc = "arm"
  /\ IF sleep_arming
       THEN Reject("DRAIN_REJECTED") /\ UNCHANGED sleep_arming
       ELSE IF samples > 0
         THEN Reject("DRAIN_REJECTED") /\ sleep_arming' = FALSE
         ELSE sleep_arming' = TRUE /\ pc' = "guard" /\ UNCHANGED phase
  /\ UNCHANGED <<runtime, adapter, sys_prepared, line, off>>

\* ev_runtime_is_quiescent_at, a while later
Guard ==
  /\ pc = "guard"
  /\ IF work \/ due
       THEN Reject("DRAIN_REJECTED") /\ sleep_arming' = FALSE
       ELSE PowerStep("DRAIN_COMPLETE") /\ pc' = "flush" /\ UNCHANGED sleep_arming
  /\ UNCHANGED <<runtime, adapter, sys_prepared, line, off>>

Flush ==
  /\ pc = "flush"
  /\ \/ PowerStep("LOG_FLUSH_COMPLETE") /\ pc' = "prepare" /\ UNCHANGED sleep_arming
     \/ Reject("LOG_FLUSH_FAILED") /\ sleep_arming' = FALSE
  /\ UNCHANGED <<runtime, adapter, sys_prepared, line, off>>

PrepareFailed ==
  /\ Reject("PORTS_PREPARE_FAILED")
  /\ sleep_arming' = FALSE

\* Faulty variant: the lines stay off.
RestoreMaskOnly(mask) ==
  /\ irq_mask' = irq_mask \ mask
  /\ UNCHANGED <<armed, samples>>

\* ev_esp8266_irq_restore_mask, with the samples as they are
Restore(mask) ==
  /\ armed' = armed \cup mask
  /\ irq_mask' = irq_mask \ mask
  /\ UNCHANGED samples

\* ev_esp8266_irq_prepare_for_sleep: nothing to do when prepared; the first
\* look at the ring
Prepare ==
  /\ pc = "prepare"
  /\ IF irq_mask # {}
       THEN pc' = "onewire" /\ UNCHANGED <<phase, sleep_arming, line, off>>
       ELSE IF samples > 0
         THEN PrepareFailed /\ UNCHANGED <<line, off>>
         ELSE /\ pc' = "lines" /\ line' = 1 /\ off' = {}
              /\ UNCHANGED <<phase, sleep_arming>>
  /\ UNCHANGED <<runtime, adapter, sys_prepared>>

\* One turn of its loop; the SDK may refuse to change a line.
TurnOff ==
  /\ pc = "lines" /\ line <= LineCount
  /\ \/ /\ line \notin armed
        /\ line' = line + 1
        /\ UNCHANGED <<adapter, phase, sleep_arming, pc, off>>
     \/ /\ line \in armed
        /\ armed' = armed \ {line} /\ off' = off \cup {line} /\ line' = line + 1
        /\ UNCHANGED <<samples, irq_mask, phase, sleep_arming, pc>>
     \/ /\ line \in armed
        /\ Restore(off) /\ PrepareFailed
        /\ UNCHANGED <<line, off>>
  /\ UNCHANGED <<runtime, sys_prepared>>

\* Faulty variant: the loop ends one line early.
LinesOffEarly ==
  /\ pc = "lines" /\ line >= LineCount
  /\ IF samples > 0
       THEN Restore(off) /\ PrepareFailed
       ELSE /\ irq_mask' = off /\ pc' = "onewire"
            /\ UNCHANGED <<armed, samples, phase, sleep_arming>>
  /\ UNCHANGED <<runtime, sys_prepared, line, off>>

\* The second look at the ring, with the lines off
LinesOff ==
  /\ pc = "lines" /\ line > LineCount
  /\ IF samples > 0
       THEN Restore(off) /\ PrepareFailed
       ELSE /\ irq_mask' = off /\ pc' = "onewire"
            /\ UNCHANGED <<armed, samples, phase, sleep_arming>>
  /\ UNCHANGED <<runtime, sys_prepared, line, off>>

\* A bus that is busy or held low stops the preparation.
Park(from, to) ==
  /\ pc = from
  /\ \/ pc' = to /\ UNCHANGED <<adapter, phase, sleep_arming>>
     \/ Restore(irq_mask) /\ PrepareFailed
  /\ UNCHANGED <<runtime, sys_prepared, line, off>>

\* ev_esp8266_irq_confirm_sleep_ready, the last step of the preparation
Confirm ==
  /\ pc = "confirm"
  /\ IF samples > 0
       THEN Restore(irq_mask) /\ PrepareFailed /\ UNCHANGED sys_prepared
       ELSE /\ sys_prepared' = TRUE
            /\ PowerStep("PORTS_PREPARED")
            /\ pc' = "save"
            /\ UNCHANGED <<adapter, sleep_arming>>
  /\ UNCHANGED <<runtime, line, off>>

\* Saving state for the wake-up is a step of the machine only.
Save ==
  /\ pc = "save"
  /\ PowerStep("RTC_STATE_SAVED")
  /\ pc' = "commit"
  /\ UNCHANGED <<runtime, adapter, sys_prepared, sleep_arming, line, off>>

\* ev_system_abort_sleep_prepare_impl, as deep_sleep's failure reaches it
DeepSleepFailed ==
  /\ IF sys_prepared THEN Restore(irq_mask) ELSE UNCHANGED adapter
  /\ sys_prepared' = FALSE /\ sleep_arming' = FALSE
  /\ PowerStep("DEEP_SLEEP_FAILED") /\ pc' = "error"

\* ev_system_deep_sleep_impl: the last look at the ring, if lines are off
Commit ==
  /\ pc = "commit"
  /\ IF irq_mask # {} /\ samples > 0
       THEN DeepSleepFailed
       ELSE pc' = "enter" /\ UNCHANGED <<adapter, sys_prepared, sleep_arming, phase>>
  /\ UNCHANGED <<runtime, line, off>>

\* esp_deep_sleep should not return; the code is ready for it if it does.
Enter ==
  /\ pc = "enter"
  /\ \/ pc' = "asleep" /\ UNCHANGED <<adapter, sys_prepared, sleep_arming, phase>>
     \/ DeepSleepFailed
  /\ UNCHANGED <<runtime, line, off>>

Handler ==
  \/ Arm \/ Guard \/ Flush \/ Prepare \/ TurnOff \/ LinesOff
  \/ Park("onewire", "i2c") \/ Park("i2c", "confirm")
  \/ Confirm \/ Save \/ Commit \/ Enter

\* The error of the handler ends the poll with it, and the main task calls
\* reset_port.restart; deep sleep ends with a reset.
SleepReboot ==
  /\ pc \in {"error", "asleep"}
  /\ enabled' = {} /\ armed' = {} /\ samples' = 0
  /\ irq_mask' = {} /\ sys_prepared' = FALSE
  /\ work' = TRUE /\ due' = FALSE /\ sleep_arming' = FALSE
  /\ power' = "ACTIVE" /\ refused' = FALSE
  /\ pc' = "idle" /\ line' = 1 /\ off' = {}

SleepNext ==
  \/ Handler \/ RequestSleep \/ SleepReboot
  \/ Edge \/ Deadline \/ EnableLine \/ Runtime

SleepSpec == SleepInit /\ [][SleepNext]_sleepVars

(***************************************************************************)
(* Properties.                                                             *)
(***************************************************************************)

(* Types.                                                                  *)
SleepTypeOK ==
  /\ enabled \subseteq Lines /\ armed \subseteq Lines /\ irq_mask \subseteq Lines
  /\ samples \in 0 .. RingCapacity
  /\ {sys_prepared, work, due, sleep_arming, refused} \subseteq BOOLEAN
  /\ power \in PowerStates
  /\ pc \in {"idle", "arm", "guard", "flush", "prepare", "lines", "onewire", "i2c",
             "confirm", "save", "commit", "enter", "asleep", "error"}
  /\ line \in 1 .. LineCount + 1 /\ off \subseteq Lines

(* The device never goes to sleep over a sample: an edge that the adapter  *)
(* has taken, however late, makes the command fail.                        *)
NoSampleSleptOver == pc = "asleep" => samples = 0

(* A command that fails leaves nothing half prepared, at whatever step it  *)
(* failed: every enabled line interrupts again, and neither adapter nor    *)
(* the demo believes that sleep is on its way.  Until then the handler     *)
(* only takes steps that the power state machine allows, although it       *)
(* ignores the machine's verdict, so the diagnosis ends in the right state.*)
FailureRestores ==
  /\ pc \in {"idle", "error"} =>
       /\ armed = enabled
       /\ irq_mask = {} /\ ~sys_prepared /\ ~sleep_arming
  /\ ~refused
  /\ pc = "error" => power \in {"REJECTED", "FAILED"}

(* docs/specs/power-deep-sleep-hil.md: when sleep is rejected for a        *)
(* pending sample, "the IRQ sample remains observable by the runtime".     *)
RejectionKeepsSamples == [][power = "REJECTED" => samples' >= samples]_sleepVars
=============================================================================
