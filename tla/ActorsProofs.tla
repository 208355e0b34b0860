----------------------------- MODULE ActorsProofs -----------------------------
(* Proofs about the actors, for every size of their displays, mailboxes,    *)
(* clocks and pools.                                                        *)
EXTENDS Actors, CommonLemmas, SequenceTheorems

-----------------------------------------------------------------------------
(* Deep sleep: what holds at each point of the handler. *)

\* The points of the handler before, after and beyond the loop that turns the
\* lines off, and those where the system adapter counts as prepared.
SleepLinesOn == {"idle", "arm", "guard", "flush", "prepare", "error"}
SleepLinesAreOff == {"onewire", "i2c", "confirm", "save", "commit", "enter", "asleep"}
SleepPrepared == {"save", "commit", "enter", "asleep"}

\* The power state machine is where the handler is.
SleepPowerAt ==
  /\ pc = "idle" => power = "ACTIVE"
  /\ pc \in {"arm", "guard"} => power = "SLEEP_REQUESTED"
  /\ pc = "flush" => power = "DRAINING_RUNTIME"
  /\ pc \in {"prepare", "lines", "onewire", "i2c", "confirm"} => power = "LOG_FLUSHING"
  /\ pc = "save" => power = "PORTS_PREPARE_SLEEP"
  /\ pc \in {"commit", "enter", "asleep"} => power = "RTC_STATE_SAVED"
  /\ pc = "error" => power \in {"REJECTED", "FAILED"}
  /\ ~refused

\* The flags of the demo and of the system adapter are those of the handler.
SleepFlagsAt ==
  /\ pc \in {"idle", "arm", "error"} => ~sleep_arming
  /\ pc \notin SleepPrepared => ~sys_prepared
  /\ pc \in SleepPrepared => sys_prepared

\* An enabled line interrupts, or is remembered by whoever turned it off; the
\* loop has passed every line below its own.
SleepLinesAt ==
  /\ pc \in SleepLinesOn => armed = enabled /\ irq_mask = {}
  /\ pc = "lines" => /\ armed \cup off = enabled /\ irq_mask = {}
                     /\ \A l \in armed : l >= line
  /\ pc \in SleepLinesAreOff => armed = {} /\ irq_mask = enabled /\ samples = 0

\* SleepTypeOK, the flags apart from the rest.
SleepTypes ==
  /\ enabled \subseteq Lines /\ armed \subseteq Lines /\ irq_mask \subseteq Lines
  /\ samples \in 0 .. RingCapacity
  /\ pc \in {"idle", "arm", "guard", "flush", "prepare", "lines", "onewire", "i2c",
             "confirm", "save", "commit", "enter", "asleep", "error"}
  /\ line \in 1 .. LineCount + 1 /\ off \subseteq Lines

SleepBooleans ==
  /\ sys_prepared \in BOOLEAN /\ work \in BOOLEAN /\ due \in BOOLEAN
  /\ sleep_arming \in BOOLEAN /\ refused \in BOOLEAN

SleepInv == SleepTypes /\ SleepBooleans /\ SleepPowerAt /\ SleepFlagsAt /\ SleepLinesAt

-----------------------------------------------------------------------------
(* Deep sleep: the power state machine takes an allowed step. *)

\* The adapter has a line, and its ring has room for a sample.
LEMMA SleepSizes ==
  LineCount \in Nat /\ LineCount >= 1 /\ RingCapacity \in Nat /\ RingCapacity >= 1
  BY SleepEntryAssumption

\* ev_power_state_machine_step, action by action: from a state that allows
\* it the machine moves on and nothing counts as refused.
LEMMA PowerStepAllowed ==
  /\ PowerStep("REQUEST_SLEEP") /\ power = "ACTIVE" /\ ~refused =>
       power' = "SLEEP_REQUESTED" /\ ~refused'
  /\ PowerStep("DRAIN_COMPLETE") /\ power = "SLEEP_REQUESTED" /\ ~refused =>
       power' = "DRAINING_RUNTIME" /\ ~refused'
  /\ PowerStep("DRAIN_REJECTED") /\ power = "SLEEP_REQUESTED" /\ ~refused =>
       power' = "REJECTED" /\ ~refused'
  /\ PowerStep("LOG_FLUSH_COMPLETE") /\ power = "DRAINING_RUNTIME" /\ ~refused =>
       power' = "LOG_FLUSHING" /\ ~refused'
  /\ PowerStep("LOG_FLUSH_FAILED") /\ power = "DRAINING_RUNTIME" /\ ~refused =>
       power' = "FAILED" /\ ~refused'
  /\ PowerStep("PORTS_PREPARED") /\ power = "LOG_FLUSHING" /\ ~refused =>
       power' = "PORTS_PREPARE_SLEEP" /\ ~refused'
  /\ PowerStep("PORTS_PREPARE_FAILED") /\ power = "LOG_FLUSHING" /\ ~refused =>
       power' = "FAILED" /\ ~refused'
  /\ PowerStep("RTC_STATE_SAVED") /\ power = "PORTS_PREPARE_SLEEP" /\ ~refused =>
       power' = "RTC_STATE_SAVED" /\ ~refused'
  /\ PowerStep("DEEP_SLEEP_FAILED") /\ power = "RTC_STATE_SAVED" /\ ~refused =>
       power' = "FAILED" /\ ~refused'
  BY DEF PowerStep, Transitions

\* The states the machine can be in.
LEMMA PowerStatesAre ==
  {"ACTIVE", "SLEEP_REQUESTED", "DRAINING_RUNTIME", "LOG_FLUSHING",
   "PORTS_PREPARE_SLEEP", "RTC_STATE_SAVED", "REJECTED", "FAILED"}
  \subseteq PowerStates
<1>1. {"REQUEST_SLEEP", "DRAIN_COMPLETE", "DRAIN_REJECTED", "LOG_FLUSH_COMPLETE",
       "LOG_FLUSH_FAILED", "PORTS_PREPARED", "RTC_STATE_SAVED"}
      \subseteq DOMAIN Transitions
  BY DEF Transitions
<1>2. ASSUME NEW a \in DOMAIN Transitions
      PROVE  Transitions[a].to \in PowerStates /\ Transitions[a].from \subseteq PowerStates
  BY DEF PowerStates
<1>3. /\ Transitions["REQUEST_SLEEP"].from = {"ACTIVE"}
      /\ Transitions["REQUEST_SLEEP"].to = "SLEEP_REQUESTED"
      /\ Transitions["DRAIN_COMPLETE"].to = "DRAINING_RUNTIME"
      /\ Transitions["DRAIN_REJECTED"].to = "REJECTED"
      /\ Transitions["LOG_FLUSH_COMPLETE"].to = "LOG_FLUSHING"
      /\ Transitions["LOG_FLUSH_FAILED"].to = "FAILED"
      /\ Transitions["PORTS_PREPARED"].to = "PORTS_PREPARE_SLEEP"
      /\ Transitions["RTC_STATE_SAVED"].to = "RTC_STATE_SAVED"
  BY DEF Transitions
<1> QED BY <1>1, <1>2, <1>3

-----------------------------------------------------------------------------
(* Deep sleep: the invariant is inductive. *)

\* The device starts with no line enabled and nothing prepared.
LEMMA SleepInitInv == SleepInit => SleepInv
<1> SUFFICES ASSUME SleepInit PROVE SleepInv
  OBVIOUS
<1>1. SleepTypes BY SleepSizes DEF SleepInit, SleepTypes
<1>2. SleepBooleans BY DEF SleepInit, SleepBooleans
<1>3. SleepPowerAt BY DEF SleepInit, SleepPowerAt
<1>4. SleepFlagsAt BY DEF SleepInit, SleepFlagsAt, SleepPrepared
<1>5. SleepLinesAt BY DEF SleepInit, SleepLinesAt, SleepLinesOn, SleepLinesAreOff
<1> QED BY <1>1, <1>2, <1>3, <1>4, <1>5 DEF SleepInv

\* The interrupt, the clock and the rest of the main task.  An edge needs an
\* armed line, so none is sampled once the lines are off.
LEMMA SleepAroundInv ==
  SleepInv /\ (Edge \/ Deadline \/ EnableLine \/ Runtime \/ RequestSleep \/ SleepReboot)
    => SleepInv'
<1> SUFFICES ASSUME SleepInv,
                    Edge \/ Deadline \/ EnableLine \/ Runtime \/ RequestSleep \/ SleepReboot
             PROVE  SleepInv'
  OBVIOUS
<1> USE DEF SleepInv, phase, adapter, runtime
<1>1. CASE Edge
  <2>1. SleepTypes'
    BY <1>1, SleepSizes DEF Edge, SleepTypes, SleepLinesAt, SleepLinesAreOff
  <2>2. SleepBooleans' BY <1>1 DEF Edge, SleepBooleans, PowerStep
  <2>3. SleepPowerAt' BY <1>1, PowerStepAllowed DEF Edge, SleepPowerAt, SleepTypes
  <2>4. SleepFlagsAt' BY <1>1 DEF Edge, SleepFlagsAt, SleepPrepared, SleepTypes
  <2>5. SleepLinesAt'
    BY <1>1 DEF Edge, SleepLinesAt, SleepLinesOn, SleepLinesAreOff, SleepTypes
  <2> QED BY <2>1, <2>2, <2>3, <2>4, <2>5
<1>2. CASE Deadline
  <2>1. SleepTypes'
    BY <1>2, SleepSizes DEF Deadline, SleepTypes, SleepLinesAt, SleepLinesAreOff
  <2>2. SleepBooleans' BY <1>2 DEF Deadline, SleepBooleans, PowerStep
  <2>3. SleepPowerAt' BY <1>2, PowerStepAllowed DEF Deadline, SleepPowerAt, SleepTypes
  <2>4. SleepFlagsAt' BY <1>2 DEF Deadline, SleepFlagsAt, SleepPrepared, SleepTypes
  <2>5. SleepLinesAt'
    BY <1>2 DEF Deadline, SleepLinesAt, SleepLinesOn, SleepLinesAreOff, SleepTypes
  <2> QED BY <2>1, <2>2, <2>3, <2>4, <2>5
<1>3. CASE EnableLine
  <2>1. SleepTypes'
    BY <1>3, SleepSizes DEF EnableLine, SleepTypes, SleepLinesAt, SleepLinesAreOff
  <2>2. SleepBooleans' BY <1>3 DEF EnableLine, SleepBooleans, PowerStep
  <2>3. SleepPowerAt' BY <1>3, PowerStepAllowed DEF EnableLine, SleepPowerAt, SleepTypes
  <2>4. SleepFlagsAt' BY <1>3 DEF EnableLine, SleepFlagsAt, SleepPrepared, SleepTypes
  <2>5. SleepLinesAt'
    BY <1>3 DEF EnableLine, SleepLinesAt, SleepLinesOn, SleepLinesAreOff, SleepTypes
  <2> QED BY <2>1, <2>2, <2>3, <2>4, <2>5
<1>4. CASE Runtime
  <2>1. SleepTypes'
    BY <1>4, SleepSizes DEF Runtime, SleepTypes, SleepLinesAt, SleepLinesAreOff
  <2>2. SleepBooleans' BY <1>4 DEF Runtime, SleepBooleans, PowerStep
  <2>3. SleepPowerAt' BY <1>4, PowerStepAllowed DEF Runtime, SleepPowerAt, SleepTypes
  <2>4. SleepFlagsAt' BY <1>4 DEF Runtime, SleepFlagsAt, SleepPrepared, SleepTypes
  <2>5. SleepLinesAt'
    BY <1>4 DEF Runtime, SleepLinesAt, SleepLinesOn, SleepLinesAreOff, SleepTypes
  <2> QED BY <2>1, <2>2, <2>3, <2>4, <2>5
<1>5. CASE RequestSleep
  <2>1. SleepTypes'
    BY <1>5, SleepSizes DEF RequestSleep, SleepTypes, SleepLinesAt, SleepLinesAreOff
  <2>2. SleepBooleans' BY <1>5 DEF RequestSleep, SleepBooleans, PowerStep
  <2>3. SleepPowerAt'
    BY <1>5, PowerStepAllowed DEF RequestSleep, SleepPowerAt, SleepTypes
  <2>4. SleepFlagsAt' BY <1>5 DEF RequestSleep, SleepFlagsAt, SleepPrepared, SleepTypes
  <2>5. SleepLinesAt'
    BY <1>5 DEF RequestSleep, SleepLinesAt, SleepLinesOn, SleepLinesAreOff, SleepTypes
  <2> QED BY <2>1, <2>2, <2>3, <2>4, <2>5
<1>6. CASE SleepReboot
  <2>1. SleepTypes'
    BY <1>6, SleepSizes DEF SleepReboot, SleepTypes, SleepLinesAt, SleepLinesAreOff
  <2>2. SleepBooleans' BY <1>6 DEF SleepReboot, SleepBooleans, PowerStep
  <2>3. SleepPowerAt'
    BY <1>6, PowerStepAllowed DEF SleepReboot, SleepPowerAt, SleepTypes
  <2>4. SleepFlagsAt' BY <1>6 DEF SleepReboot, SleepFlagsAt, SleepPrepared, SleepTypes
  <2>5. SleepLinesAt'
    BY <1>6 DEF SleepReboot, SleepLinesAt, SleepLinesOn, SleepLinesAreOff, SleepTypes
  <2> QED BY <2>1, <2>2, <2>3, <2>4, <2>5
<1> QED BY <1>1, <1>2, <1>3, <1>4, <1>5, <1>6

\* Arming, the quiescence guard and the log, before a line is touched.
LEMMA SleepEarlyStepsInv == SleepInv /\ (Arm \/ Guard \/ Flush \/ Prepare) => SleepInv'
<1> SUFFICES ASSUME SleepInv, Arm \/ Guard \/ Flush \/ Prepare PROVE SleepInv'
  OBVIOUS
<1> USE DEF SleepInv, phase, adapter, runtime, Reject, PrepareFailed
<1>1. CASE Arm
  <2>1. SleepTypes'
    BY <1>1, SleepSizes DEF Arm, SleepTypes, SleepLinesAt, SleepLinesAreOff
  <2>2. SleepBooleans' BY <1>1 DEF Arm, SleepBooleans, PowerStep
  <2>3. SleepPowerAt' BY <1>1, PowerStepAllowed DEF Arm, SleepPowerAt, SleepTypes
  <2>4. SleepFlagsAt' BY <1>1 DEF Arm, SleepFlagsAt, SleepPrepared, SleepTypes
  <2>5. SleepLinesAt'
    BY <1>1 DEF Arm, SleepLinesAt, SleepLinesOn, SleepLinesAreOff, SleepTypes
  <2> QED BY <2>1, <2>2, <2>3, <2>4, <2>5
<1>2. CASE Guard
  <2>1. SleepTypes'
    BY <1>2, SleepSizes DEF Guard, SleepTypes, SleepLinesAt, SleepLinesAreOff
  <2>2. SleepBooleans' BY <1>2 DEF Guard, SleepBooleans, PowerStep
  <2>3. SleepPowerAt' BY <1>2, PowerStepAllowed DEF Guard, SleepPowerAt, SleepTypes
  <2>4. SleepFlagsAt' BY <1>2 DEF Guard, SleepFlagsAt, SleepPrepared, SleepTypes
  <2>5. SleepLinesAt'
    BY <1>2 DEF Guard, SleepLinesAt, SleepLinesOn, SleepLinesAreOff, SleepTypes
  <2> QED BY <2>1, <2>2, <2>3, <2>4, <2>5
<1>3. CASE Flush
  <2>1. SleepTypes'
    BY <1>3, SleepSizes DEF Flush, SleepTypes, SleepLinesAt, SleepLinesAreOff
  <2>2. SleepBooleans' BY <1>3 DEF Flush, SleepBooleans, PowerStep
  <2>3. SleepPowerAt' BY <1>3, PowerStepAllowed DEF Flush, SleepPowerAt, SleepTypes
  <2>4. SleepFlagsAt' BY <1>3 DEF Flush, SleepFlagsAt, SleepPrepared, SleepTypes
  <2>5. SleepLinesAt'
    BY <1>3 DEF Flush, SleepLinesAt, SleepLinesOn, SleepLinesAreOff, SleepTypes
  <2> QED BY <2>1, <2>2, <2>3, <2>4, <2>5
<1>4. CASE Prepare
  <2>1. SleepTypes'
    BY <1>4, SleepSizes DEF Prepare, SleepTypes, SleepLinesAt, SleepLinesAreOff
  <2>2. SleepBooleans' BY <1>4 DEF Prepare, SleepBooleans, PowerStep
  <2>3. SleepPowerAt' BY <1>4, PowerStepAllowed DEF Prepare, SleepPowerAt, SleepTypes
  <2>4. SleepFlagsAt' BY <1>4 DEF Prepare, SleepFlagsAt, SleepPrepared, SleepTypes
  <2>0. \A l \in armed : l \in Nat /\ l >= 1 BY SleepSizes DEF SleepTypes, Lines
  <2>5. SleepLinesAt'
    BY <1>4, <2>0 DEF Prepare, SleepLinesAt, SleepLinesOn, SleepLinesAreOff
  <2> QED BY <2>1, <2>2, <2>3, <2>4, <2>5
<1> QED BY <1>1, <1>2, <1>3, <1>4

\* The loop over the lines, and its second look at the ring: past the last
\* line none is armed.
LEMMA SleepLinesInv == SleepInv /\ (TurnOff \/ LinesOff) => SleepInv'
<1> SUFFICES ASSUME SleepInv, TurnOff \/ LinesOff PROVE SleepInv'
  OBVIOUS
<1> USE DEF SleepInv, phase, adapter, runtime, Reject, PrepareFailed, Restore
<1>1. CASE TurnOff
  <2>1. SleepTypes'
    BY <1>1, SleepSizes DEF TurnOff, SleepTypes, SleepLinesAt, SleepLinesAreOff
  <2>2. SleepBooleans' BY <1>1 DEF TurnOff, SleepBooleans, PowerStep
  <2>3. SleepPowerAt' BY <1>1, PowerStepAllowed DEF TurnOff, SleepPowerAt, SleepTypes
  <2>4. SleepFlagsAt' BY <1>1 DEF TurnOff, SleepFlagsAt, SleepPrepared, SleepTypes
  <2>5. SleepLinesAt'
    <3>1. \A l \in armed : l \in Nat /\ l >= line
      BY <1>1, SleepSizes DEF TurnOff, SleepLinesAt, SleepTypes, Lines
    <3>2. line \in Nat BY SleepSizes DEF SleepTypes
    <3>3. CASE line' = line
      BY <1>1, <3>2, <3>3
      DEF TurnOff, SleepLinesAt, SleepLinesOn, SleepLinesAreOff, Reject, runtime
    <3>4. CASE line' # line
      <4>1. armed' = armed \ {line} /\ line' = line + 1 /\ pc' = "lines"
        BY <1>1, <3>1, <3>4 DEF TurnOff, adapter
      <4>2. \A l \in armed' : l >= line'
        BY <3>1, <3>2, <4>1
      <4>3. armed' \cup off' = enabled' /\ irq_mask' = {}
        BY <1>1, <3>4 DEF TurnOff, SleepLinesAt
      <4> QED BY <4>1, <4>2, <4>3 DEF SleepLinesAt, SleepLinesOn, SleepLinesAreOff
    <3> QED BY <3>3, <3>4
  <2> QED BY <2>1, <2>2, <2>3, <2>4, <2>5
<1>2. CASE LinesOff
  <2>0. armed = {} /\ LineCount + 1 > LineCount
    BY <1>2, SleepSizes DEF LinesOff, SleepLinesAt, SleepTypes, Lines
  <2>1. SleepTypes'
    BY <1>2, SleepSizes, <2>0 DEF LinesOff, SleepTypes, SleepLinesAt, SleepLinesAreOff
  <2>2. SleepBooleans' BY <1>2 DEF LinesOff, SleepBooleans, PowerStep
  <2>3. SleepPowerAt' BY <1>2, PowerStepAllowed DEF LinesOff, SleepPowerAt, SleepTypes
  <2>4. SleepFlagsAt' BY <1>2 DEF LinesOff, SleepFlagsAt, SleepPrepared, SleepTypes
  <2>5. SleepLinesAt'
    BY <1>2, <2>0 DEF LinesOff, SleepLinesAt, SleepLinesOn, SleepLinesAreOff, SleepTypes
  <2> QED BY <2>1, <2>2, <2>3, <2>4, <2>5
<1> QED BY <1>1, <1>2

\* Parking the buses; a failure gives the lines back.
LEMMA SleepParkInv ==
  SleepInv /\ (Park("onewire", "i2c") \/ Park("i2c", "confirm")) => SleepInv'
<1> SUFFICES ASSUME SleepInv,
                    Park("onewire", "i2c") \/ Park("i2c", "confirm")
             PROVE  SleepInv'
  OBVIOUS
<1> USE DEF SleepInv, phase, adapter, runtime, Reject, PrepareFailed, Restore
<1>1. CASE Park("onewire", "i2c")
  <2>1. SleepTypes'
    BY <1>1, SleepSizes DEF Park, SleepTypes, SleepLinesAt, SleepLinesAreOff
  <2>2. SleepBooleans' BY <1>1 DEF Park, SleepBooleans, PowerStep
  <2>3. SleepPowerAt' BY <1>1, PowerStepAllowed DEF Park, SleepPowerAt, SleepTypes
  <2>4. SleepFlagsAt' BY <1>1 DEF Park, SleepFlagsAt, SleepPrepared, SleepTypes
  <2>5. SleepLinesAt'
    BY <1>1 DEF Park, SleepLinesAt, SleepLinesOn, SleepLinesAreOff, SleepTypes
  <2> QED BY <2>1, <2>2, <2>3, <2>4, <2>5
<1>2. CASE Park("i2c", "confirm")
  <2>1. SleepTypes'
    BY <1>2, SleepSizes DEF Park, SleepTypes, SleepLinesAt, SleepLinesAreOff
  <2>2. SleepBooleans' BY <1>2 DEF Park, SleepBooleans, PowerStep
  <2>3. SleepPowerAt' BY <1>2, PowerStepAllowed DEF Park, SleepPowerAt, SleepTypes
  <2>4. SleepFlagsAt' BY <1>2 DEF Park, SleepFlagsAt, SleepPrepared, SleepTypes
  <2>5. SleepLinesAt'
    BY <1>2 DEF Park, SleepLinesAt, SleepLinesOn, SleepLinesAreOff, SleepTypes
  <2> QED BY <2>1, <2>2, <2>3, <2>4, <2>5
<1> QED BY <1>1, <1>2

\* The last looks at the ring and deep sleep itself.
LEMMA SleepLateStepsInv == SleepInv /\ (Confirm \/ Save \/ Commit \/ Enter) => SleepInv'
<1> SUFFICES ASSUME SleepInv, Confirm \/ Save \/ Commit \/ Enter PROVE SleepInv'
  OBVIOUS
<1> USE DEF SleepInv, phase, adapter, runtime, Reject, PrepareFailed, Restore,
            DeepSleepFailed
<1>1. CASE Confirm
  <2>1. SleepTypes'
    BY <1>1, SleepSizes DEF Confirm, SleepTypes, SleepLinesAt, SleepLinesAreOff
  <2>2. SleepBooleans' BY <1>1 DEF Confirm, SleepBooleans, PowerStep
  <2>3. SleepPowerAt' BY <1>1, PowerStepAllowed DEF Confirm, SleepPowerAt, SleepTypes
  <2>4. SleepFlagsAt' BY <1>1 DEF Confirm, SleepFlagsAt, SleepPrepared, SleepTypes
  <2>5. SleepLinesAt'
    BY <1>1 DEF Confirm, SleepLinesAt, SleepLinesOn, SleepLinesAreOff, SleepTypes
  <2> QED BY <2>1, <2>2, <2>3, <2>4, <2>5
<1>2. CASE Save
  <2>1. SleepTypes'
    BY <1>2, SleepSizes DEF Save, SleepTypes, SleepLinesAt, SleepLinesAreOff
  <2>2. SleepBooleans' BY <1>2 DEF Save, SleepBooleans, PowerStep
  <2>3. SleepPowerAt' BY <1>2, PowerStepAllowed DEF Save, SleepPowerAt, SleepTypes
  <2>4. SleepFlagsAt' BY <1>2 DEF Save, SleepFlagsAt, SleepPrepared, SleepTypes
  <2>5. SleepLinesAt'
    BY <1>2 DEF Save, SleepLinesAt, SleepLinesOn, SleepLinesAreOff, SleepTypes
  <2> QED BY <2>1, <2>2, <2>3, <2>4, <2>5
<1>3. CASE Commit
  <2>1. SleepTypes'
    BY <1>3, SleepSizes DEF Commit, SleepTypes, SleepLinesAt, SleepLinesAreOff
  <2>2. SleepBooleans' BY <1>3 DEF Commit, SleepBooleans, PowerStep
  <2>3. SleepPowerAt' BY <1>3, PowerStepAllowed DEF Commit, SleepPowerAt, SleepTypes
  <2>4. SleepFlagsAt' BY <1>3 DEF Commit, SleepFlagsAt, SleepPrepared, SleepTypes
  <2>5. SleepLinesAt'
    BY <1>3 DEF Commit, SleepLinesAt, SleepLinesOn, SleepLinesAreOff, SleepTypes
  <2> QED BY <2>1, <2>2, <2>3, <2>4, <2>5
<1>4. CASE Enter
  <2>1. SleepTypes'
    BY <1>4, SleepSizes DEF Enter, SleepTypes, SleepLinesAt, SleepLinesAreOff
  <2>2. SleepBooleans' BY <1>4 DEF Enter, SleepBooleans, PowerStep
  <2>3. SleepPowerAt' BY <1>4, PowerStepAllowed DEF Enter, SleepPowerAt, SleepTypes
  <2>4. SleepFlagsAt' BY <1>4 DEF Enter, SleepFlagsAt, SleepPrepared, SleepTypes
  <2>5. SleepLinesAt'
    BY <1>4
    DEF Enter, SleepLinesAt, SleepFlagsAt, SleepPrepared, SleepLinesOn,
        SleepLinesAreOff, SleepTypes
  <2> QED BY <2>1, <2>2, <2>3, <2>4, <2>5
<1> QED BY <1>1, <1>2, <1>3, <1>4

\* Every step, and a stuttering one, keeps the invariant.
LEMMA SleepNextInv == SleepInv /\ [SleepNext]_sleepVars => SleepInv'
<1> SUFFICES ASSUME SleepInv, [SleepNext]_sleepVars PROVE SleepInv'
  OBVIOUS
<1>1. CASE SleepNext
  BY <1>1, SleepAroundInv, SleepEarlyStepsInv, SleepLinesInv, SleepParkInv,
     SleepLateStepsInv
  DEF SleepNext, Handler
<1>2. CASE UNCHANGED sleepVars
  BY <1>2
  DEF sleepVars, SleepInv, SleepTypes, SleepBooleans, SleepPowerAt, SleepFlagsAt,
      SleepLinesAt
<1> QED BY <1>1, <1>2

-----------------------------------------------------------------------------
(* Deep sleep: the theorems. *)

\* The inductive invariant holds in every state of every behaviour.
THEOREM SleepInvHolds == SleepSpec => []SleepInv
  BY SleepInitInv, SleepNextInv, PTL DEF SleepSpec

\* The state of the handler, the adapters and the state machine keeps its type.
THEOREM SleepTypeCorrect == SleepSpec => []SleepTypeOK
<1>1. SleepInv => power \in PowerStates
  BY PowerStatesAre DEF SleepInv, SleepTypes, SleepPowerAt
<1>2. SleepInv => SleepTypeOK
  BY <1>1 DEF SleepInv, SleepTypes, SleepBooleans, SleepTypeOK
<1> QED BY <1>2, SleepInvHolds, PTL

\* ev_system_deep_sleep_impl never sleeps over a sample the adapter has taken,
\* whatever the interrupt does between the handler's looks at the ring.
THEOREM NeverSleepsOverASample == SleepSpec => []NoSampleSleptOver
<1>1. SleepInv => NoSampleSleptOver
  BY DEF SleepInv, SleepLinesAt, SleepLinesAreOff, NoSampleSleptOver
<1> QED BY <1>1, SleepInvHolds, PTL

\* A command that fails, at whatever step, leaves every enabled line armed and
\* neither adapter prepared, and the state machine allowed all of its steps.
THEOREM EveryFailureRestores == SleepSpec => []FailureRestores
<1>1. SleepInv => FailureRestores
  BY DEF SleepInv, SleepLinesAt, SleepLinesOn, SleepPowerAt, SleepFlagsAt,
         SleepPrepared, FailureRestores
<1> QED BY <1>1, SleepInvHolds, PTL

-----------------------------------------------------------------------------
(* The display. *)

OledContexts ==
  [state : {"WAIT_BOOT", "READY", "ERROR"}, wait : 0 .. RetryDelay,
   boot_observed : BOOLEAN, framebuffer : Frames, staging : Frames,
   dirty : [Pages -> Windows], glass : Frames,
   faults : 0 .. MaxFaults, sync_lost : BOOLEAN, failed : BOOLEAN,
   unshown : 0 .. RetryDelay]

\* What differs between staging and framebuffer is in a dirty window.
OledCovered(o) ==
  \A p \in Pages, c \in Columns :
    o.staging[p][c] # o.framebuffer[p][c] => InWindow(o.dirty[p], c)

OledShows(o) == o.state = "READY" /\ ~o.sync_lost => o.glass = o.framebuffer

OledGood(o) == o \in OledContexts /\ OledCovered(o) /\ OledShows(o)

\* How long something has been pending: not at all but in ERROR, where what was
\* waited and what is left of the delay make the delay.
OledTimely(o) ==
  /\ o.state = "WAIT_BOOT" <=> ~o.boot_observed
  /\ o.state = "ERROR" => o.wait > 0 /\ o.unshown + o.wait <= RetryDelay
  /\ o.state # "ERROR" => o.unshown = 0

OledInv ==
  /\ oledRestarts \in 0 .. MaxRestarts
  /\ OledGood(oled)
  /\ ~oled.failed => OledTimely(oled)

\* The sizes, apart from their assumption.
LEMMA OledSizes ==
  /\ PageCount \in Nat \ {0} /\ Width \in Nat \ {0} /\ RetryDelay \in Nat \ {0}
  /\ MaxFaults \in Nat /\ MaxRestarts \in Nat /\ Blank \in Pixels
  BY OledAssumption

\* Columns that are sent are on the glass, the others stay.
LEMMA SentType ==
  ASSUME NEW g \in Frames, NEW s \in Frames, NEW w, NEW at, NEW col
  PROVE  SentUntil(g, s, w, at, col) \in Frames
  BY DEF SentUntil, Frames

\* A transfer that is not cut short sends every column of the windows.
LEMMA SentAll ==
  ASSUME NEW g, NEW s, NEW w
  PROVE  Sent(g, s, w) = [p \in Pages |-> [c \in Columns |->
                            IF InWindow(w[p], c) THEN s[p][c] ELSE g[p][c]]]
<1>1. \A p \in Pages : p < PageCount BY OledSizes DEF Pages
<1> QED BY <1>1 DEF Sent, SentUntil

\* Two frames with the same columns are the same.
LEMMA FramesEqual ==
  ASSUME NEW f \in Frames, NEW g \in Frames, \A p \in Pages, c \in Columns : f[p][c] = g[p][c]
  PROVE  f = g
  BY DEF Frames

\* The windows of the model.
LEMMA WindowTypes ==
  /\ NoWindow \in Windows /\ WholePage \in Windows /\ Clean \in [Pages -> Windows]
  /\ \A c : InWindow(NoWindow, c) => c \notin Columns
  /\ \A c \in Columns : InWindow(WholePage, c)
<1>1. NoWindow \in Windows /\ WholePage \in Windows
  BY OledSizes DEF NoWindow, WholePage, Windows
<1>2. Clean \in [Pages -> Windows] BY <1>1 DEF Clean
<1>3. \A c : InWindow(NoWindow, c) => c \notin Columns
  BY OledSizes DEF InWindow, NoWindow, Columns
<1>4. \A c \in Columns : InWindow(WholePage, c)
  BY OledSizes DEF InWindow, WholePage, Columns
<1> QED BY <1>1, <1>2, <1>3, <1>4

\* The fields of a context.
LEMMA OledFields ==
  ASSUME NEW o \in OledContexts
  PROVE  /\ o.state \in {"WAIT_BOOT", "READY", "ERROR"} /\ o.wait \in 0 .. RetryDelay
         /\ o.boot_observed \in BOOLEAN /\ o.framebuffer \in Frames /\ o.staging \in Frames
         /\ o.dirty \in [Pages -> Windows] /\ o.glass \in Frames /\ o.faults \in 0 .. MaxFaults
         /\ o.sync_lost \in BOOLEAN /\ o.failed \in BOOLEAN /\ o.unshown \in 0 .. RetryDelay
  BY DEF OledContexts

\* A failed transfer: the glass has part of it, the state is ERROR and the
\* delay starts.
LEMMA CutShortIs ==
  ASSUME NEW o \in OledContexts, OledCovered(o), NEW s \in Frames, NEW w,
         NEW q \in CutShort(o, s, w)
  PROVE  /\ q \in OledContexts /\ OledCovered(q) /\ q.state = "ERROR"
         /\ q.wait = RetryDelay /\ q.faults = o.faults + 1 /\ q.unshown = o.unshown
         /\ q.boot_observed = o.boot_observed /\ q.failed = o.failed
         /\ q.framebuffer = o.framebuffer /\ q.staging = o.staging /\ q.dirty = o.dirty
         /\ q.sync_lost = o.sync_lost
<1>1. PICK at \in Pages \X (0 .. Width) :
        /\ o.faults < MaxFaults
        /\ q = [ScheduleRetry(o) EXCEPT !.glass = SentUntil(o.glass, s, w, at[1], at[2])]
  BY DEF CutShort
<1>2. PICK g : g = SentUntil(o.glass, s, w, at[1], at[2]) OBVIOUS
<1>3. g \in Frames BY <1>2, OledFields, SentType
<1>4. o.faults + 1 \in 0 .. MaxFaults /\ RetryDelay \in 0 .. RetryDelay
  BY <1>1, OledFields, OledSizes
<1>5. q = [o EXCEPT !.state = "ERROR", !.wait = RetryDelay, !.faults = o.faults + 1, !.glass = g]
  BY <1>1, <1>2 DEF ScheduleRetry, OledContexts
<1>6. q \in OledContexts BY <1>3, <1>4, <1>5 DEF OledContexts
<1>7. /\ q.state = "ERROR" /\ q.wait = RetryDelay /\ q.faults = o.faults + 1
      /\ q.unshown = o.unshown /\ q.boot_observed = o.boot_observed /\ q.failed = o.failed
      /\ q.framebuffer = o.framebuffer /\ q.staging = o.staging /\ q.dirty = o.dirty
      /\ q.sync_lost = o.sync_lost
  BY <1>5 DEF OledContexts
<1>8. OledCovered(q) BY <1>7 DEF OledCovered
<1> QED BY <1>6, <1>7, <1>8

\* ev_oled_actor_flush_pending in READY: afterwards nothing is pending and the
\* glass shows the framebuffer, or a transfer failed.
LEMMA FlushIs ==
  ASSUME NEW o, OledGood(o), o.state = "READY", NEW q \in FlushPending(o)
  PROVE  /\ OledGood(q) /\ q.boot_observed = o.boot_observed /\ q.failed = o.failed
         /\ q.unshown = o.unshown
         /\ \/ q.state = "READY" /\ ~OledPending(q) /\ q.faults = o.faults
            \/ q.state = "ERROR" /\ q.wait = RetryDelay /\ q.faults = o.faults + 1
<1>0. o \in OledContexts /\ OledCovered(o) /\ OledShows(o) BY DEF OledGood
<1>1. CASE ~OledPending(o)
  <2>1. q = o BY <1>1 DEF FlushPending
  <2> QED BY <1>1, <2>1
<1>2. CASE OledPending(o) /\ q \in CutShort(o, o.staging, o.dirty)
  <2>1. /\ q \in OledContexts /\ OledCovered(q) /\ q.state = "ERROR"
        /\ q.wait = RetryDelay /\ q.faults = o.faults + 1 /\ q.unshown = o.unshown
        /\ q.boot_observed = o.boot_observed /\ q.failed = o.failed
    BY <1>0, <1>2, CutShortIs, OledFields
  <2>2. OledShows(q) BY <2>1 DEF OledShows
  <2> QED BY <2>1, <2>2 DEF OledGood
<1>3. CASE OledPending(o) /\ q \notin CutShort(o, o.staging, o.dirty)
  <2>1. PICK g : g = Sent(o.glass, o.staging, o.dirty) OBVIOUS
  <2>2. q = [o EXCEPT !.glass = g, !.framebuffer = o.staging, !.dirty = Clean]
    BY <1>3, <2>1 DEF FlushPending
  <2>3. g \in Frames BY <1>0, <2>1, OledFields, SentType DEF Sent
  <2>4. q \in OledContexts BY <1>0, <2>2, <2>3, OledFields, WindowTypes DEF OledContexts
  <2>5. /\ q.state = o.state /\ q.faults = o.faults /\ q.unshown = o.unshown
        /\ q.boot_observed = o.boot_observed /\ q.failed = o.failed /\ q.glass = g
        /\ q.framebuffer = o.staging /\ q.staging = o.staging /\ q.dirty = Clean
        /\ q.sync_lost = o.sync_lost
    BY <1>0, <2>2 DEF OledContexts
  <2>6. OledCovered(q) BY <2>5 DEF OledCovered
  <2>7. OledShows(q)
    <3> SUFFICES ASSUME ~o.sync_lost PROVE g = o.staging BY <2>5 DEF OledShows
    <3>1. o.glass = o.framebuffer BY <1>0 DEF OledShows
    <3>2. ASSUME NEW p \in Pages, NEW c \in Columns PROVE g[p][c] = o.staging[p][c]
      <4>1. g[p][c] = IF InWindow(o.dirty[p], c) THEN o.staging[p][c] ELSE o.glass[p][c]
        BY <2>1, SentAll
      <4>2. ~InWindow(o.dirty[p], c) => o.staging[p][c] = o.framebuffer[p][c]
        BY <1>0 DEF OledCovered
      <4> QED BY <3>1, <4>1, <4>2
    <3>3. o.staging \in Frames BY <1>0, OledFields
    <3> QED BY <2>3, <3>2, <3>3, FramesEqual
  <2>8. ~OledPending(q)
    <3>1. \A p \in Pages : q.dirty[p] = NoWindow BY <2>5 DEF Clean
    <3>2. ~(NoWindow.from < NoWindow.to) BY OledSizes DEF NoWindow
    <3> QED BY <3>1, <3>2 DEF OledPending
  <2> QED BY <2>4, <2>5, <2>6, <2>7, <2>8 DEF OledGood
<1> QED BY <1>1, <1>2, <1>3

\* The synchronisation of an initialisation: the glass shows the framebuffer, or
\* the context says that it was lost and a fault was counted.
LEMMA SyncIs ==
  ASSUME NEW o, o \in OledContexts, OledCovered(o), NEW q \in SyncFullFramebuffer(o)
  PROVE  /\ q \in OledContexts /\ OledCovered(q) /\ q.unshown = o.unshown
         /\ q.boot_observed = o.boot_observed /\ q.failed = o.failed
         /\ \/ ~q.sync_lost /\ q.glass = q.framebuffer /\ q.faults = o.faults
            \/ q.sync_lost /\ q.faults = o.faults + 1
<1> DEFINE whole == [p \in Pages |-> WholePage]
<1>1. CASE q \in {[r EXCEPT !.sync_lost = TRUE] : r \in CutShort(o, o.framebuffer, whole)}
  <2>1. PICK r \in CutShort(o, o.framebuffer, whole) : q = [r EXCEPT !.sync_lost = TRUE]
    BY <1>1
  <2>2. /\ r \in OledContexts /\ OledCovered(r) /\ r.faults = o.faults + 1
        /\ r.unshown = o.unshown /\ r.boot_observed = o.boot_observed /\ r.failed = o.failed
    BY <2>1, CutShortIs, OledFields
  <2>3. q \in OledContexts BY <2>1, <2>2 DEF OledContexts
  <2>4. /\ q.unshown = r.unshown /\ q.boot_observed = r.boot_observed /\ q.failed = r.failed
        /\ q.faults = r.faults /\ q.staging = r.staging /\ q.framebuffer = r.framebuffer
        /\ q.dirty = r.dirty /\ q.sync_lost = TRUE
    BY <2>1, <2>2 DEF OledContexts
  <2>5. OledCovered(q) BY <2>2, <2>4 DEF OledCovered
  <2> QED BY <2>2, <2>3, <2>4, <2>5
<1>2. CASE q = [o EXCEPT !.glass = Sent(o.glass, o.framebuffer, whole), !.sync_lost = FALSE]
  <2>1. PICK g : g = Sent(o.glass, o.framebuffer, whole) OBVIOUS
  <2>2. g \in Frames BY <2>1, OledFields, SentType DEF Sent
  <2>3. g = o.framebuffer
    <3>1. ASSUME NEW p \in Pages, NEW c \in Columns PROVE g[p][c] = o.framebuffer[p][c]
      BY <2>1, SentAll, WindowTypes
    <3> QED BY <2>2, <3>1, FramesEqual, OledFields
  <2>4. q = [o EXCEPT !.glass = g, !.sync_lost = FALSE] BY <1>2, <2>1
  <2>5. q \in OledContexts BY <2>2, <2>4 DEF OledContexts
  <2>6. /\ q.unshown = o.unshown /\ q.boot_observed = o.boot_observed /\ q.failed = o.failed
        /\ q.faults = o.faults /\ q.staging = o.staging /\ q.framebuffer = o.framebuffer
        /\ q.dirty = o.dirty /\ q.sync_lost = FALSE /\ q.glass = g
    BY <2>4 DEF OledContexts
  <2>7. OledCovered(q) BY <2>6 DEF OledCovered
  <2> QED BY <2>3, <2>5, <2>6, <2>7
<1> QED BY <1>1, <1>2 DEF SyncFullFramebuffer

\* ev_oled_actor_try_initialize: afterwards something is pending only if a
\* transfer failed or the handler did.
LEMMA InitializeIs ==
  ASSUME NEW o, o \in OledContexts, OledCovered(o), NEW q \in TryInitialize(o)
  PROVE  /\ OledGood(q) /\ q.boot_observed = o.boot_observed /\ q.unshown = o.unshown
         /\ q.failed = o.failed \/ q.failed
         /\ q.state = "READY" \/ (q.state = "ERROR" /\ q.wait = RetryDelay)
         /\ q.failed \/ q.faults # o.faults \/ ~OledPending(q)
<1>0. o.faults \in Nat BY OledFields, OledSizes
<1>1. CASE o.faults < MaxFaults /\ q = ScheduleRetry(o)
  <2>1. q = [o EXCEPT !.state = "ERROR", !.wait = RetryDelay, !.faults = o.faults + 1]
    BY <1>1 DEF ScheduleRetry, OledContexts
  <2>2. o.faults + 1 \in 0 .. MaxFaults /\ RetryDelay \in 0 .. RetryDelay
    BY <1>1, OledFields, OledSizes
  <2>3. q \in OledContexts BY <2>1, <2>2 DEF OledContexts
  <2>4. /\ q.state = "ERROR" /\ q.wait = RetryDelay /\ q.faults = o.faults + 1
        /\ q.boot_observed = o.boot_observed /\ q.unshown = o.unshown /\ q.failed = o.failed
        /\ q.staging = o.staging /\ q.framebuffer = o.framebuffer /\ q.dirty = o.dirty
    BY <2>1 DEF OledContexts
  <2>5. OledCovered(q) BY <2>4 DEF OledCovered
  <2>6. OledShows(q) BY <2>4 DEF OledShows
  <2>7. q.faults # o.faults BY <1>0, <2>4
  <2> QED BY <2>3, <2>4, <2>5, <2>6, <2>7 DEF OledGood
<1>2. ASSUME NEW r \in SyncFullFramebuffer(o), q \in Announce([r EXCEPT !.state = "READY"])
      PROVE  /\ OledGood(q) /\ q.boot_observed = o.boot_observed /\ q.unshown = o.unshown
             /\ q.failed = o.failed \/ q.failed
             /\ q.state = "READY" \/ (q.state = "ERROR" /\ q.wait = RetryDelay)
             /\ q.failed \/ q.faults # o.faults \/ ~OledPending(q)
  <2>1. /\ r \in OledContexts /\ OledCovered(r) /\ r.unshown = o.unshown
        /\ r.boot_observed = o.boot_observed /\ r.failed = o.failed
        /\ \/ ~r.sync_lost /\ r.glass = r.framebuffer /\ r.faults = o.faults
           \/ r.sync_lost /\ r.faults = o.faults + 1
    BY SyncIs
  <2>2. PICK t : t = [r EXCEPT !.state = "READY"] OBVIOUS
  <2>3. t \in OledContexts BY <2>1, <2>2 DEF OledContexts
  <2>4. /\ t.state = "READY" /\ t.unshown = r.unshown /\ t.boot_observed = r.boot_observed
        /\ t.failed = r.failed /\ t.sync_lost = r.sync_lost /\ t.glass = r.glass
        /\ t.framebuffer = r.framebuffer /\ t.staging = r.staging /\ t.dirty = r.dirty
        /\ t.faults = r.faults
    BY <2>1, <2>2 DEF OledContexts
  <2>5. OledCovered(t) BY <2>1, <2>4 DEF OledCovered
  <2>6. OledShows(t) BY <2>1, <2>4 DEF OledShows
  <2>7. OledGood(t) BY <2>3, <2>5, <2>6 DEF OledGood
  <2>8. CASE q \in FlushPending(t)
    <3>1. /\ OledGood(q) /\ q.boot_observed = t.boot_observed /\ q.failed = t.failed
          /\ q.unshown = t.unshown
          /\ \/ q.state = "READY" /\ ~OledPending(q) /\ q.faults = t.faults
             \/ q.state = "ERROR" /\ q.wait = RetryDelay /\ q.faults = t.faults + 1
      BY <2>4, <2>7, <2>8, FlushIs
    <3>2. ~OledPending(q) \/ q.faults # o.faults
      <4>1. CASE q.faults = t.faults + 1
        <5>1. t.faults = o.faults \/ t.faults = o.faults + 1 BY <2>1, <2>4
        <5>2. q.faults # o.faults BY <1>0, <4>1, <5>1
        <5> QED BY <5>2
      <4> QED BY <3>1, <4>1
    <3> QED BY <2>1, <2>4, <3>1, <3>2
  <2>9. CASE q = [t EXCEPT !.failed = TRUE]
    <3>1. q \in OledContexts BY <2>3, <2>9 DEF OledContexts
    <3>2. /\ q.state = "READY" /\ q.unshown = t.unshown /\ q.boot_observed = t.boot_observed
          /\ q.failed = TRUE /\ q.sync_lost = t.sync_lost /\ q.glass = t.glass
          /\ q.framebuffer = t.framebuffer /\ q.staging = t.staging /\ q.dirty = t.dirty
      BY <2>3, <2>4, <2>9 DEF OledContexts
    <3>3. OledCovered(q) BY <2>5, <3>2 DEF OledCovered
    <3>4. OledShows(q) BY <2>4, <2>6, <3>2 DEF OledShows
    <3> QED BY <2>1, <2>4, <3>1, <3>2, <3>3, <3>4 DEF OledGood
  <2>10. q \in FlushPending(t) \/ q = [t EXCEPT !.failed = TRUE]
    BY <1>2, <2>2 DEF Announce
  <2> QED BY <2>8, <2>9, <2>10
<1> QED BY <1>1, <1>2 DEF TryInitialize

\* A tick counts the delay down.
LEMMA TickedIs ==
  ASSUME NEW o, OledGood(o), NEW t, t = [o EXCEPT !.wait = IF @ = 0 THEN 0 ELSE @ - 1]
  PROVE  /\ OledGood(t) /\ t.wait = (IF o.wait = 0 THEN 0 ELSE o.wait - 1)
         /\ t.state = o.state /\ t.faults = o.faults /\ t.boot_observed = o.boot_observed
         /\ t.failed = o.failed /\ t.unshown = o.unshown /\ t.dirty = o.dirty
<1>0. o \in OledContexts /\ OledCovered(o) /\ OledShows(o) BY DEF OledGood
<1>1. (IF o.wait = 0 THEN 0 ELSE o.wait - 1) \in 0 .. RetryDelay
  BY <1>0, OledFields, OledSizes
<1>2. t \in OledContexts BY <1>0, <1>1 DEF OledContexts
<1>3. /\ t.wait = (IF o.wait = 0 THEN 0 ELSE o.wait - 1)
      /\ t.state = o.state /\ t.faults = o.faults /\ t.boot_observed = o.boot_observed
      /\ t.failed = o.failed /\ t.unshown = o.unshown /\ t.dirty = o.dirty
      /\ t.staging = o.staging /\ t.framebuffer = o.framebuffer /\ t.glass = o.glass
      /\ t.sync_lost = o.sync_lost
  BY <1>0 DEF OledContexts
<1>4. OledCovered(t) BY <1>0, <1>3 DEF OledCovered
<1>5. OledShows(t) BY <1>0, <1>3 DEF OledShows
<1> QED BY <1>2, <1>3, <1>4, <1>5 DEF OledGood

\* The count of ticks is history.
LEMMA CountIs ==
  ASSUME NEW o, OledGood(o), NEW n \in 0 .. RetryDelay, NEW q, q = [o EXCEPT !.unshown = n]
  PROVE  /\ OledGood(q) /\ q.unshown = n /\ q.state = o.state /\ q.wait = o.wait
         /\ q.boot_observed = o.boot_observed /\ q.failed = o.failed
<1>0. o \in OledContexts /\ OledCovered(o) /\ OledShows(o) BY DEF OledGood
<1>1. q \in OledContexts BY <1>0 DEF OledContexts
<1>2. /\ q.unshown = n /\ q.state = o.state /\ q.wait = o.wait
      /\ q.boot_observed = o.boot_observed /\ q.failed = o.failed
      /\ q.staging = o.staging /\ q.framebuffer = o.framebuffer /\ q.dirty = o.dirty
      /\ q.glass = o.glass /\ q.sync_lost = o.sync_lost
  BY <1>0 DEF OledContexts
<1>3. OledCovered(q) BY <1>0, <1>2 DEF OledCovered
<1>4. OledShows(q) BY <1>0, <1>2 DEF OledShows
<1> QED BY <1>1, <1>2, <1>3, <1>4 DEF OledGood

\* EV_TICK_1S
LEMMA OledTickKeeps == ASSUME OledInv, OledTick PROVE OledInv'
<1>0. /\ OledGood(oled) /\ OledTimely(oled) /\ ~oled.failed /\ oledRestarts' = oledRestarts
      /\ oledRestarts \in 0 .. MaxRestarts
  BY DEF OledInv, OledTick
<1>1. PICK a, b : a = oled /\ b = oled' OBVIOUS
<1>2. PICK t : t = [a EXCEPT !.wait = IF @ = 0 THEN 0 ELSE @ - 1] OBVIOUS
<1>3. /\ OledGood(t) /\ t.wait = (IF a.wait = 0 THEN 0 ELSE a.wait - 1)
      /\ t.state = a.state /\ t.faults = a.faults /\ t.boot_observed = a.boot_observed
      /\ t.failed = a.failed /\ t.unshown = a.unshown
  BY <1>0, <1>1, <1>2, TickedIs
<1>4. a \in OledContexts /\ t \in OledContexts /\ OledCovered(t)
  BY <1>0, <1>1, <1>3 DEF OledGood
<1>5. PICK o \in HandleTick(a) :
        b = [o EXCEPT !.unshown =
               IF o.boot_observed /\ OledPending(o) /\ o.faults = a.faults
                 THEN Smaller(@ + 1, RetryDelay) ELSE 0]
  BY <1>1 DEF OledTick
<1>6. PICK n : n = IF o.boot_observed /\ OledPending(o) /\ o.faults = a.faults
                     THEN Smaller(o.unshown + 1, RetryDelay) ELSE 0
  OBVIOUS
<1>7. ASSUME OledGood(o), o.unshown = a.unshown,
             o.failed \/ (/\ o.state = "WAIT_BOOT" <=> ~o.boot_observed
                          /\ o.state = "ERROR" => o.wait > 0 /\ n + o.wait <= RetryDelay
                          /\ o.state # "ERROR" => n = 0)
      PROVE  OledInv'
  <2>1. o.unshown \in 0 .. RetryDelay BY <1>7, OledFields DEF OledGood
  <2>2. Smaller(o.unshown + 1, RetryDelay) \in 0 .. RetryDelay
    BY <2>1, OledSizes DEF Smaller
  <2>3. n \in 0 .. RetryDelay BY <1>6, <2>2, OledSizes
  <2>4. b = [o EXCEPT !.unshown = n]
    <3>1. o \in OledContexts BY <1>7 DEF OledGood
    <3> QED BY <1>5, <1>6, <3>1 DEF OledContexts
  <2>5. /\ OledGood(b) /\ b.unshown = n /\ b.state = o.state /\ b.wait = o.wait
        /\ b.boot_observed = o.boot_observed /\ b.failed = o.failed
    BY <1>7, <2>3, <2>4, CountIs
  <2>6. ~b.failed => OledTimely(b) BY <1>7, <2>5 DEF OledTimely
  <2> QED BY <1>0, <1>1, <2>5, <2>6 DEF OledInv
<1>8. a.state = "WAIT_BOOT" <=> ~a.boot_observed BY <1>0, <1>1 DEF OledTimely
<1>9. CASE ~t.boot_observed
  <2>1. o = t BY <1>2, <1>5, <1>9 DEF HandleTick
  <2>2. n = 0 BY <1>6, <1>9, <2>1
  <2> QED BY <1>3, <1>7, <1>8, <1>9, <2>1, <2>2
<1>10. CASE t.boot_observed /\ t.state = "READY"
  <2>1. o \in FlushPending(t) BY <1>2, <1>5, <1>10 DEF HandleTick
  <2>2. /\ OledGood(o) /\ o.boot_observed = t.boot_observed /\ o.failed = t.failed
        /\ o.unshown = t.unshown
        /\ \/ o.state = "READY" /\ ~OledPending(o) /\ o.faults = t.faults
           \/ o.state = "ERROR" /\ o.wait = RetryDelay /\ o.faults = t.faults + 1
    BY <1>3, <1>10, <2>1, FlushIs
  <2>3. n = 0
    <3>1. t.faults \in Nat BY <1>4, OledFields, OledSizes
    <3>2. o.faults = t.faults + 1 => o.faults # a.faults BY <1>3, <3>1
    <3> QED BY <1>6, <2>2, <3>2
  <2>4. RetryDelay > 0 /\ 0 + RetryDelay <= RetryDelay BY OledSizes
  <2> QED BY <1>3, <1>7, <1>10, <2>2, <2>3, <2>4
<1>11. CASE t.boot_observed /\ t.state # "READY" /\ t.wait > 0
  <2>1. o = t BY <1>2, <1>5, <1>11 DEF HandleTick
  <2>2. a.state = "ERROR" BY <1>3, <1>4, <1>8, <1>11, OledFields
  <2>3. a.wait > 0 /\ a.unshown + a.wait <= RetryDelay
    BY <1>0, <1>1, <2>2 DEF OledTimely
  <2>4. a.wait \in Nat /\ a.unshown \in Nat /\ RetryDelay \in Nat
    BY <1>4, OledFields, OledSizes
  <2>5. n <= a.unshown + 1 /\ n \in Nat
    <3>1. Smaller(a.unshown + 1, RetryDelay) <= a.unshown + 1
          /\ Smaller(a.unshown + 1, RetryDelay) \in Nat
      BY <2>4 DEF Smaller
    <3>2. n = 0 \/ n = Smaller(a.unshown + 1, RetryDelay) BY <1>3, <1>6, <2>1
    <3> QED BY <2>4, <3>1, <3>2
  <2>6. t.wait = a.wait - 1 BY <1>3, <2>3, <2>4
  <2>7. n + t.wait <= RetryDelay BY <2>3, <2>4, <2>5, <2>6
  <2> QED BY <1>3, <1>7, <1>11, <2>1, <2>2, <2>7
<1>12. CASE t.boot_observed /\ t.state # "READY" /\ ~(t.wait > 0)
  <2>1. o \in TryInitialize(t) BY <1>2, <1>5, <1>12 DEF HandleTick
  <2>2. /\ OledGood(o) /\ o.boot_observed = t.boot_observed /\ o.unshown = t.unshown
        /\ o.state = "READY" \/ (o.state = "ERROR" /\ o.wait = RetryDelay)
        /\ o.failed \/ o.faults # t.faults \/ ~OledPending(o)
    BY <1>4, <2>1, InitializeIs
  <2>3. o.failed \/ n = 0 BY <1>3, <1>6, <2>2
  <2>4. RetryDelay > 0 /\ 0 + RetryDelay <= RetryDelay BY OledSizes
  <2> QED BY <1>3, <1>7, <1>12, <2>2, <2>3, <2>4
<1> QED BY <1>9, <1>10, <1>11, <1>12

\* EV_BOOT_COMPLETED
LEMMA OledBootKeeps == ASSUME OledInv, OledBoot PROVE OledInv'
<1>0. /\ OledGood(oled) /\ OledTimely(oled) /\ ~oled.failed /\ ~oled.boot_observed
      /\ oledRestarts' = oledRestarts /\ oledRestarts \in 0 .. MaxRestarts
  BY DEF OledInv, OledBoot
<1>1. PICK a, b : a = oled /\ b = oled' OBVIOUS
<1>2. PICK t : t = [a EXCEPT !.boot_observed = TRUE] OBVIOUS
<1>3. a \in OledContexts /\ OledCovered(a) BY <1>0, <1>1 DEF OledGood
<1>4. a.unshown = 0 BY <1>0, <1>1, <1>3 DEF OledTimely
<1>5. t \in OledContexts BY <1>2, <1>3 DEF OledContexts
<1>6. /\ t.boot_observed = TRUE /\ t.unshown = a.unshown /\ t.failed = a.failed
      /\ t.staging = a.staging /\ t.framebuffer = a.framebuffer /\ t.dirty = a.dirty
  BY <1>2, <1>3 DEF OledContexts
<1>7. OledCovered(t) BY <1>3, <1>6 DEF OledCovered
<1>8. b \in TryInitialize(t) BY <1>1, <1>2 DEF OledBoot
<1>9. /\ OledGood(b) /\ b.boot_observed = t.boot_observed /\ b.unshown = t.unshown
      /\ b.state = "READY" \/ (b.state = "ERROR" /\ b.wait = RetryDelay)
  BY <1>5, <1>7, <1>8, InitializeIs
<1>10. RetryDelay > 0 /\ 0 + RetryDelay <= RetryDelay BY OledSizes
<1>11. OledTimely(b) BY <1>4, <1>6, <1>9, <1>10 DEF OledTimely
<1> QED BY <1>0, <1>1, <1>9, <1>11 DEF OledInv

\* The window around the columns that differ takes in all of them.
LEMMA SceneWindow ==
  ASSUME NEW D \in SUBSET Columns, D # {}
  PROVE  LET w == [from |-> CHOOSE c \in D : \A d \in D : c <= d,
                   to |-> 1 + CHOOSE c \in D : \A d \in D : c >= d]
         IN  w \in Windows /\ \A c \in D : InWindow(w, c)
<1>1. PICK lo, hi : /\ lo = CHOOSE c \in D : \A d \in D : c <= d
                    /\ hi = CHOOSE c \in D : \A d \in D : c >= d
  OBVIOUS
<1>2. D \in SUBSET Nat /\ Width \in Nat /\ D \in SUBSET (0 .. Width)
  BY OledSizes DEF Columns
<1>3. \E c \in D : \A d \in D : c <= d BY <1>2, LeastElement
<1>4. \E c \in D : \A d \in D : c >= d BY <1>2, GreatestElement
<1>5. lo \in D /\ \A d \in D : lo <= d BY <1>1, <1>3
<1>6. hi \in D /\ \A d \in D : hi >= d BY <1>1, <1>4
<1>7. lo \in 0 .. Width - 1 /\ hi \in 0 .. Width - 1 BY <1>5, <1>6 DEF Columns
<1>8. lo \in 0 .. Width /\ 1 + hi \in 0 .. Width BY <1>7, OledSizes
<1>9. [from |-> lo, to |-> 1 + hi] \in Windows BY <1>8 DEF Windows
<1>10. ASSUME NEW c \in D PROVE lo <= c /\ c < 1 + hi
  <2>1. c \in Nat /\ hi \in Nat /\ hi >= c BY <1>2, <1>6
  <2> QED BY <1>5, <2>1
<1>11. \A c \in D : InWindow([from |-> lo, to |-> 1 + hi], c) BY <1>10 DEF InWindow
<1> QED BY <1>1, <1>9, <1>11

\* ev_oled_actor_prepare_scene_commit
LEMMA SceneIs ==
  ASSUME NEW o, OledGood(o), NEW scene \in Scenes, NEW q, q = PrepareSceneCommit(o, scene)
  PROVE  /\ OledGood(q) /\ q.state = o.state /\ q.wait = o.wait /\ q.unshown = o.unshown
         /\ q.boot_observed = o.boot_observed /\ q.failed = o.failed
<1>0. o \in OledContexts /\ OledCovered(o) /\ OledShows(o) BY DEF OledGood
<1> DEFINE differs(p) == {c \in Columns : scene[p][c] # o.framebuffer[p][c]}
           W(p) == IF differs(p) = {} THEN NoWindow
                   ELSE [from |-> CHOOSE c \in differs(p) : \A d \in differs(p) : c <= d,
                         to |-> 1 + CHOOSE c \in differs(p) : \A d \in differs(p) : c >= d]
<1>1. PICK w : w = [p \in Pages |-> W(p)] OBVIOUS
<1>2. ASSUME NEW p \in Pages
      PROVE  w[p] \in Windows /\ \A c \in differs(p) : InWindow(w[p], c)
  <2>1. w[p] = W(p) BY <1>1
  <2>2. PICK D : D = differs(p) OBVIOUS
  <2>3. D \in SUBSET Columns BY <2>2
  <2>4. CASE D = {} BY <2>1, <2>2, <2>4, WindowTypes
  <2>5. CASE D # {}
    <3>1. w[p] = [from |-> CHOOSE c \in D : \A d \in D : c <= d,
                  to |-> 1 + CHOOSE c \in D : \A d \in D : c >= d]
      BY <2>1, <2>2, <2>5
    <3> HIDE DEF differs
    <3>2. w[p] \in Windows /\ \A c \in D : InWindow(w[p], c)
      BY <2>3, <2>5, <3>1, SceneWindow
    <3> QED BY <2>2, <3>2
  <2> QED BY <2>4, <2>5
<1>3. scene \in Frames BY FramesAssumption
<1>4. w \in [Pages -> Windows] BY <1>1, <1>2
<1>5. q = [o EXCEPT !.staging = scene, !.dirty = w] BY <1>1 DEF PrepareSceneCommit
<1>6. ASSUME NEW p \in Pages, NEW c \in Columns, scene[p][c] # o.framebuffer[p][c]
      PROVE  InWindow(w[p], c)
  BY <1>2, <1>6
<1> HIDE DEF differs, W
<1>7. q \in OledContexts BY <1>0, <1>3, <1>4, <1>5 DEF OledContexts
<1>8. /\ q.state = o.state /\ q.wait = o.wait /\ q.unshown = o.unshown
      /\ q.boot_observed = o.boot_observed /\ q.failed = o.failed /\ q.staging = scene
      /\ q.dirty = w /\ q.framebuffer = o.framebuffer /\ q.glass = o.glass
      /\ q.sync_lost = o.sync_lost
  BY <1>0, <1>5 DEF OledContexts
<1>9. OledCovered(q) BY <1>6, <1>8 DEF OledCovered
<1>10. OledShows(q) BY <1>0, <1>8 DEF OledShows
<1> QED BY <1>7, <1>8, <1>9, <1>10 DEF OledGood

\* EV_OLED_COMMIT_FRAME
LEMMA CommitKeeps == ASSUME OledInv, CommitFrame PROVE OledInv'
<1>0. /\ OledGood(oled) /\ OledTimely(oled) /\ ~oled.failed /\ oledRestarts' = oledRestarts
      /\ oledRestarts \in 0 .. MaxRestarts
  BY DEF OledInv, CommitFrame
<1>1. PICK a, b : a = oled /\ b = oled' OBVIOUS
<1>2. PICK o : /\ o = a \/ \E scene \in Scenes : o = PrepareSceneCommit(a, scene)
               /\ b \in (IF o.state = "READY" THEN FlushPending(o) ELSE {o})
  BY <1>1 DEF CommitFrame
<1>3. /\ OledGood(o) /\ o.state = a.state /\ o.wait = a.wait /\ o.unshown = a.unshown
      /\ o.boot_observed = a.boot_observed /\ o.failed = a.failed
  <2>1. CASE o = a BY <1>0, <1>1, <2>1
  <2>2. CASE \E scene \in Scenes : o = PrepareSceneCommit(a, scene)
    BY <1>0, <1>1, <2>2, SceneIs
  <2> QED BY <1>2, <2>1, <2>2
<1>4. OledTimely(o) BY <1>0, <1>1, <1>3 DEF OledTimely
<1>5. CASE o.state # "READY"
  <2>1. b = o BY <1>2, <1>5
  <2> QED BY <1>0, <1>1, <1>3, <1>4, <2>1 DEF OledInv
<1>6. CASE o.state = "READY"
  <2>1. b \in FlushPending(o) BY <1>2, <1>6
  <2>2. /\ OledGood(b) /\ b.boot_observed = o.boot_observed /\ b.failed = o.failed
        /\ b.unshown = o.unshown
        /\ \/ b.state = "READY"
           \/ b.state = "ERROR" /\ b.wait = RetryDelay
    BY <1>3, <1>6, <2>1, FlushIs
  <2>3. o.unshown = 0 /\ o.boot_observed BY <1>4, <1>6, <1>3 DEF OledTimely
  <2>4. RetryDelay > 0 /\ 0 + RetryDelay <= RetryDelay BY OledSizes
  <2>5. OledTimely(b) BY <2>2, <2>3, <2>4 DEF OledTimely
  <2> QED BY <1>0, <1>1, <2>2, <2>5 DEF OledInv
<1> QED BY <1>5, <1>6

\* EV_OLED_DISPLAY_TEXT_CMD: the page's window takes in the redrawn columns.
LEMMA TextKeeps == ASSUME OledInv, DisplayText PROVE OledInv'
<1>0. /\ OledGood(oled) /\ OledTimely(oled) /\ ~oled.failed /\ oledRestarts' = oledRestarts
      /\ oledRestarts \in 0 .. MaxRestarts
  BY DEF OledInv, DisplayText
<1>1. PICK a, b : a = oled /\ b = oled' OBVIOUS
<1>2. PICK at \in TextPlaces : \E text \in [at[2] .. Width - 1 -> Pixels] :
        b = [a EXCEPT
               !.staging = RenderTextInto(IF OledPending(a) THEN a.staging ELSE a.framebuffer,
                                          at[1], at[2], text),
               !.dirty[at[1]] = MarkDirty(@, at[2], Width)]
  BY <1>1 DEF DisplayText
<1>3. PICK text \in [at[2] .. Width - 1 -> Pixels] :
        b = [a EXCEPT
               !.staging = RenderTextInto(IF OledPending(a) THEN a.staging ELSE a.framebuffer,
                                          at[1], at[2], text),
               !.dirty[at[1]] = MarkDirty(@, at[2], Width)]
  BY <1>2
<1>4. PICK p, c : p = at[1] /\ c = at[2] OBVIOUS
<1>5. p \in Pages /\ c \in Columns
  <2>1. at \in Pages \X Columns BY FramesAssumption
  <2> QED BY <1>4, <2>1
<1>6. a \in OledContexts /\ OledCovered(a) /\ OledShows(a) BY <1>0, <1>1 DEF OledGood
<1>7. /\ a.staging \in Frames /\ a.framebuffer \in Frames /\ a.dirty \in [Pages -> Windows]
  BY <1>6, OledFields
<1>8. PICK base : base = IF OledPending(a) THEN a.staging ELSE a.framebuffer OBVIOUS
<1>9. base \in Frames BY <1>7, <1>8
<1>10. ASSUME NEW x \in Pages, NEW y \in Columns, base[x][y] # a.framebuffer[x][y]
      PROVE  InWindow(a.dirty[x], y)
  BY <1>6, <1>8, <1>10 DEF OledCovered
<1>11. PICK s : s = RenderTextInto(base, p, c, text) OBVIOUS
<1>12. s \in Frames
  <2>1. \A i \in Columns : ~(i < c) => i \in c .. Width - 1
    BY <1>5, OledSizes DEF Columns
  <2>2. [i \in Columns |-> IF i < c THEN base[p][i] ELSE text[i]] \in [Columns -> Pixels]
    BY <1>3, <1>4, <1>5, <1>9, <2>1 DEF Frames
  <2> QED BY <1>5, <1>9, <1>11, <2>2 DEF RenderTextInto, Frames
<1>13. ASSUME NEW x \in Pages, NEW y \in Columns
       PROVE  s[x][y] = base[x][y] \/ (x = p /\ ~(y < c))
  BY <1>5, <1>9, <1>11 DEF RenderTextInto, Frames
<1>14. PICK m : m = MarkDirty(a.dirty[p], c, Width) OBVIOUS
<1>15. PICK v : v = a.dirty[p] OBVIOUS
<1>16. v \in Windows BY <1>5, <1>7, <1>15
<1>17. v.from \in 0 .. Width /\ v.to \in 0 .. Width BY <1>16 DEF Windows
<1>18. m = [from |-> IF c < v.from THEN c ELSE v.from, to |-> IF Width > v.to THEN Width ELSE v.to]
  BY <1>14, <1>15 DEF MarkDirty
<1>19. m \in Windows
  <2>1. (IF c < v.from THEN c ELSE v.from) \in 0 .. Width
        /\ (IF Width > v.to THEN Width ELSE v.to) \in 0 .. Width
    BY <1>5, <1>17, OledSizes DEF Columns
  <2> QED BY <1>18, <2>1 DEF Windows
<1>20. ASSUME NEW y \in Columns PROVE InWindow(v, y) \/ ~(y < c) => InWindow(m, y)
  <2>1. y \in 0 .. Width - 1 /\ c \in 0 .. Width - 1 BY <1>5 DEF Columns
  <2>2. m.from = (IF c < v.from THEN c ELSE v.from) /\ m.to = (IF Width > v.to THEN Width ELSE v.to)
    BY <1>18
  <2> QED BY <1>17, <2>1, <2>2, OledSizes DEF InWindow
<1>21. PICK w : w = [a.dirty EXCEPT ![p] = m] OBVIOUS
<1>22. w \in [Pages -> Windows] /\ w[p] = m /\ \A x \in Pages : x # p => w[x] = a.dirty[x]
  BY <1>5, <1>7, <1>19, <1>21
<1>23. b = [a EXCEPT !.staging = s, !.dirty = w]
  BY <1>3, <1>4, <1>6, <1>8, <1>11, <1>14, <1>21 DEF OledContexts
<1>24. b \in OledContexts BY <1>6, <1>12, <1>22, <1>23 DEF OledContexts
<1>25. /\ b.state = a.state /\ b.wait = a.wait /\ b.unshown = a.unshown
       /\ b.boot_observed = a.boot_observed /\ b.failed = a.failed /\ b.staging = s
       /\ b.dirty = w /\ b.framebuffer = a.framebuffer /\ b.glass = a.glass
       /\ b.sync_lost = a.sync_lost
  BY <1>6, <1>23 DEF OledContexts
<1>26. OledCovered(b)
  <2>1. ASSUME NEW x \in Pages, NEW y \in Columns, s[x][y] # a.framebuffer[x][y]
        PROVE  InWindow(w[x], y)
    <3>1. CASE x = p
      <4>1. InWindow(v, y) \/ ~(y < c) BY <1>10, <1>13, <1>15, <2>1, <3>1
      <4> QED BY <1>20, <1>22, <3>1, <4>1
    <3>2. CASE x # p BY <1>10, <1>13, <1>22, <2>1, <3>2
    <3> QED BY <3>1, <3>2
  <2> QED BY <1>25, <2>1 DEF OledCovered
<1>27. OledShows(b) BY <1>6, <1>25 DEF OledShows
<1>28. OledTimely(b) BY <1>0, <1>1, <1>25 DEF OledTimely
<1> QED BY <1>0, <1>1, <1>24, <1>26, <1>27, <1>28 DEF OledInv, OledGood

\* The context after ev_oled_actor_init.
LEMMA OledBootedIs ==
  ASSUME NEW g \in Frames, NEW n \in 0 .. MaxFaults, NEW o, o = OledBooted(g, n)
  PROVE  OledGood(o) /\ OledTimely(o)
<1>1. PICK f : f = [p \in Pages |-> [c \in Columns |-> Blank]] OBVIOUS
<1>2. f \in Frames BY <1>1, OledSizes DEF Frames
<1>3. o = [state |-> "WAIT_BOOT", wait |-> 0, boot_observed |-> FALSE, framebuffer |-> f,
           staging |-> f, dirty |-> Clean, glass |-> g, faults |-> n,
           sync_lost |-> FALSE, failed |-> FALSE, unshown |-> 0]
  BY <1>1 DEF OledBooted
<1>4. 0 \in 0 .. RetryDelay BY OledSizes
<1>5. o \in OledContexts BY <1>2, <1>3, <1>4, WindowTypes DEF OledContexts
<1>6. OledCovered(o) BY <1>3 DEF OledCovered
<1>7. OledShows(o) BY <1>3 DEF OledShows
<1>8. OledTimely(o) BY <1>3 DEF OledTimely
<1> QED BY <1>5, <1>6, <1>7, <1>8 DEF OledGood

\* The invariant of the display, through texts, scenes, ticks, failing transfers
\* and restarts.
THEOREM OledInvHolds == OledInit /\ [][OledNext]_oledVars => []OledInv
<1>1. OledInit => OledInv
  <2> SUFFICES ASSUME OledInit PROVE OledInv OBVIOUS
  <2>1. PICK glass \in PowerOnGlass : oled = OledBooted(glass, 0) BY DEF OledInit
  <2>2. glass \in Frames /\ 0 \in 0 .. MaxFaults BY FramesAssumption, OledSizes
  <2>3. OledGood(oled) /\ OledTimely(oled) BY <2>1, <2>2, OledBootedIs
  <2>4. oledRestarts \in 0 .. MaxRestarts BY OledSizes DEF OledInit
  <2> QED BY <2>3, <2>4 DEF OledInv
<1>2. OledInv /\ [OledNext]_oledVars => OledInv'
  <2> SUFFICES ASSUME OledInv, [OledNext]_oledVars PROVE OledInv' OBVIOUS
  <2>1. CASE OledRestart
    <3>1. oled.glass \in Frames /\ oled.faults \in 0 .. MaxFaults
      BY OledFields DEF OledInv, OledGood
    <3>2. oled' = OledBooted(oled.glass, oled.faults) BY <2>1 DEF OledRestart
    <3>3. OledGood(oled') /\ OledTimely(oled') BY <3>1, <3>2, OledBootedIs
    <3>4. oledRestarts' \in 0 .. MaxRestarts BY <2>1, OledSizes DEF OledRestart, OledInv
    <3> QED BY <3>3, <3>4 DEF OledInv
  <2>2. CASE UNCHANGED oledVars BY <2>2 DEF oledVars, OledInv
  <2> QED
    BY <2>1, <2>2, OledBootKeeps, OledTickKeeps, TextKeeps, CommitKeeps DEF OledNext
<1> QED BY <1>1, <1>2, PTL

\* The parts of the actors' specification.
LEMMA OledRuns == Spec => OledInit /\ [][OledNext]_oledVars
<1>1. Init => OledInit BY DEF Init
<1>2. [Next]_actorsVars => [OledNext]_oledVars BY DEF Next, actorsVars
<1> QED BY <1>1, <1>2, PTL DEF Spec

\* In READY the framebuffer is what is on the glass, unless the synchronisation
\* of the last initialisation failed, and every column still to be shown is in a
\* dirty window: for every display, scene, failing transfer and restart.
THEOREM GlassIsKnown == Spec => []ReadyShowsFramebuffer
<1>1. OledInv => ReadyShowsFramebuffer
  BY DEF OledInv, OledGood, OledCovered, OledShows, ReadyShowsFramebuffer
<1> QED BY <1>1, OledInvHolds, OledRuns, PTL

\* What is pending is on the glass within RetryDelay ticks without a failure.
THEOREM TicksShowWhatIsPending == Spec => []PendingIsShown
<1>1. OledInv => PendingIsShown
  <2> SUFFICES ASSUME OledInv, ~oled.failed PROVE oled.unshown < RetryDelay
    BY DEF PendingIsShown
  <2>1. OledTimely(oled) /\ oled \in OledContexts BY DEF OledInv, OledGood
  <2>2. oled.unshown \in Nat /\ oled.wait \in Nat /\ RetryDelay \in Nat \ {0}
    BY <2>1, OledFields, OledSizes
  <2>3. CASE oled.state = "ERROR"
    <3>1. oled.wait > 0 /\ oled.unshown + oled.wait <= RetryDelay
      BY <2>1, <2>3 DEF OledTimely
    <3> QED BY <2>2, <3>1
  <2>4. CASE oled.state # "ERROR"
    <3>1. oled.unshown = 0 BY <2>1, <2>4 DEF OledTimely
    <3> QED BY <2>2, <3>1
  <2> QED BY <2>3, <2>4
<1> QED BY <1>1, OledInvHolds, OledRuns, PTL

\* The actor's context and the glass keep their types.
THEOREM OledTypeCorrect == Spec => []OledTypeOK
<1>1. OledInv => OledTypeOK BY DEF OledInv, OledGood, OledContexts, OledTypeOK
<1> QED BY <1>1, OledInvHolds, OledRuns, PTL

-----------------------------------------------------------------------------
(* The temperature sensor. *)

DsContexts ==
  [booted : BOOLEAN, pending : BOOLEAN, valid : BOOLEAN, failed : BOOLEAN,
   now : 0 .. DsMod - 1, deadline : 0 .. DsMod - 1, lag : Nat]
DsSensors == [present : BOOLEAN, busy : 0 .. DsWait]
DsQueues == [waiting : 0 .. DsMailbox, phase : 0 .. DsTick - 1]
DsSamples == [missing : Nat, lag : Nat]

\* The reading of the actor's clock r units after it reads n.
DsAfter(n, r) == IF n + r < DsMod THEN n + r ELSE n + r - DsMod

\* The actor's clock has r units to its deadline, and what the conversion still
\* takes is not more than these, what the actor was late when it started the
\* conversion, and less what it is late now.
DsOnTime(d, busy, lag) ==
  d.pending => \E r \in 1 .. DsWait : /\ d.deadline = DsAfter(d.now, r)
                                      /\ busy = 0 \/ busy + lag <= r + d.lag

\* The same after the clock moved, before the deadline is looked at.
DsReadable(d, busy, lag) ==
  d.pending => IF DsDeadlineDue(d) THEN busy <= d.lag ELSE DsOnTime(d, busy, lag)

DsInv ==
  /\ ds \in DsContexts /\ dsSensor \in DsSensors
  /\ dsTicks \in DsQueues /\ dsSample \in DsSamples
  /\ EarlyByLagOnly
  /\ DsOnTime(ds, dsSensor.busy, DsLag)

\* The sizes of the sensor's time.
LEMMA DsSizes ==
  /\ DsTick \in Nat /\ DsTick > 0 /\ DsWait \in Nat /\ DsWait > 0
  /\ DsMailbox \in Nat /\ DsMailbox > 0
  /\ DsMod \in Nat /\ 2 * (DsWait + DsTick) < DsMod /\ DsMod > 0
BY DsAssumption

\* The parts of the sensor's records.
LEMMA DsFields ==
  /\ \A d \in DsContexts : /\ d.booted \in BOOLEAN /\ d.pending \in BOOLEAN /\ d.lag \in Nat
                           /\ d.now \in 0 .. DsMod - 1 /\ d.deadline \in 0 .. DsMod - 1
  /\ \A s \in DsSensors : s.busy \in 0 .. DsWait /\ s.present \in BOOLEAN
  /\ \A t \in DsQueues : t.waiting \in 0 .. DsMailbox /\ t.phase \in 0 .. DsTick - 1
BY DEF DsContexts, DsSensors, DsQueues

\* How late the actor is: a tick more, a tick fewer.
LEMMA DsLate ==
  ASSUME NEW w \in Nat, NEW p \in Nat
  PROVE  /\ w * DsTick + p \in Nat
         /\ (w + 1) * DsTick = w * DsTick + DsTick
         /\ w > 0 => /\ (w - 1) * DsTick = w * DsTick - DsTick
                     /\ w * DsTick >= DsTick
<1>1. PICK n \in Nat : n = DsTick BY DsSizes
<1>2. /\ w * n + p \in Nat /\ (w + 1) * n = w * n + n
      /\ (w - 1) * n = w * n - n
  OBVIOUS
<1>3. w > 0 => w * n >= n
  <2> SUFFICES ASSUME w > 0 PROVE w * n >= n OBVIOUS
  <2>1. w - 1 \in Nat OBVIOUS
  <2>2. (w - 1) * n \in Nat BY <2>1
  <2> QED BY <1>2, <2>2
<1> QED BY <1>1, <1>2, <1>3

\* A tick moves the actor's clock to the deadline, or nearer to it.
LEMMA DsClock ==
  ASSUME NEW n \in 0 .. DsMod - 1, NEW r \in 1 .. DsWait, NEW dl, dl = DsAfter(n, r),
         NEW k, k = (n + DsTick) % DsMod
  PROVE  /\ k \in 0 .. DsMod - 1
         /\ r <= DsTick => 2 * ((k - dl) % DsMod) < DsMod
         /\ r > DsTick => /\ ~(2 * ((k - dl) % DsMod) < DsMod)
                          /\ dl = DsAfter(k, r - DsTick)
<1>0. PICK m, t, w : m = DsMod /\ t = DsTick /\ w = DsWait OBVIOUS
<1>1. /\ m \in Nat /\ t \in Nat /\ w \in Nat /\ m > 0 /\ t > 0
      /\ 2 * (w + t) < m /\ n \in 0 .. m - 1 /\ r \in 1 .. w
  BY <1>0, DsSizes
<1>2. k = IF n + t < m THEN n + t ELSE n + t - m
  <2>1. t \in 0 .. m - 1 BY <1>1
  <2>2. (n + t) % m = IF n + t < m THEN n + t ELSE n + t - m BY <1>1, <2>1, ModSum
  <2> QED BY <1>0, <2>2
<1>3. dl = IF n + r < m THEN n + r ELSE n + r - m BY <1>0 DEF DsAfter
<1>4. k \in 0 .. m - 1 /\ dl \in 0 .. m - 1 BY <1>1, <1>2, <1>3
<1>5. (k - dl) % m = IF dl <= k THEN k - dl ELSE k - dl + m BY <1>1, <1>4, ModDifference
<1>6. PICK e : e = (k - dl) % m OBVIOUS
<1>7. r <= t => e = t - r BY <1>1, <1>2, <1>3, <1>5, <1>6
<1>8. r > t => e = m + t - r BY <1>1, <1>2, <1>3, <1>5, <1>6
<1>9. r <= t => 2 * e < m BY <1>1, <1>7
<1>10. r > t => ~(2 * e < m) BY <1>1, <1>8
<1>11. r > t => dl = IF k + (r - t) < m THEN k + (r - t) ELSE k + (r - t) - m
  BY <1>1, <1>2, <1>3
<1> QED BY <1>0, <1>4, <1>6, <1>9, <1>10, <1>11 DEF DsAfter

\* Without a tick the deadline that lies ahead is not due.
LEMMA DsAhead ==
  ASSUME NEW n \in 0 .. DsMod - 1, NEW r \in 1 .. DsWait, NEW dl, dl = DsAfter(n, r)
  PROVE  ~(2 * ((n - dl) % DsMod) < DsMod)
<1>0. PICK m, w : m = DsMod /\ w = DsWait OBVIOUS
<1>1. m \in Nat /\ w \in Nat /\ m > 0 /\ 2 * w < m /\ n \in 0 .. m - 1 /\ r \in 1 .. w
  BY <1>0, DsSizes
<1>2. dl = IF n + r < m THEN n + r ELSE n + r - m BY <1>0 DEF DsAfter
<1>3. dl \in 0 .. m - 1 BY <1>1, <1>2
<1>4. (n - dl) % m = IF dl <= n THEN n - dl ELSE n - dl + m BY <1>1, <1>3, ModDifference
<1>5. PICK e : e = (n - dl) % m OBVIOUS
<1>6. e = m - r BY <1>1, <1>2, <1>4, <1>5
<1> QED BY <1>0, <1>1, <1>5, <1>6

\* A conversion that starts takes no longer than the actor waits for it.
LEMMA DsStartKeeps ==
  ASSUME NEW d \in DsContexts, NEW lag \in Nat, dsSensor \in DsSensors, DsStart(d, lag)
  PROVE  /\ ds' \in DsContexts /\ dsSensor' \in DsSensors
         /\ DsOnTime(ds', dsSensor'.busy, lag)
<1>1. PICK rc \in DsAnswers :
        /\ ds' = DsRecordStart(d, rc, lag)
        /\ dsSensor' = IF rc = "OK" THEN [dsSensor EXCEPT !.busy = DsWait] ELSE dsSensor
  BY DEF DsStart
<1>2. CASE rc = "OK"
  <2>1. PICK dl : dl = (d.now + DsWait) % DsMod OBVIOUS
  <2>2. d.now \in 0 .. DsMod - 1 /\ DsWait \in 0 .. DsMod - 1 BY DsFields, DsSizes
  <2>3. dl = DsAfter(d.now, DsWait) BY <2>1, <2>2, DsSizes, ModSum DEF DsAfter
  <2>4. dl \in 0 .. DsMod - 1 BY <2>2, <2>3, DsSizes DEF DsAfter
  <2>5. ds' = [d EXCEPT !.pending = TRUE, !.deadline = dl, !.lag = lag]
    BY <1>1, <1>2, <2>1 DEF DsRecordStart
  <2>6. dsSensor' = [dsSensor EXCEPT !.busy = DsWait] BY <1>1, <1>2
  <2>7. ds' \in DsContexts BY <2>4, <2>5 DEF DsContexts
  <2>8. ds'.pending = TRUE /\ ds'.deadline = dl /\ ds'.lag = lag /\ ds'.now = d.now
    BY <2>5 DEF DsContexts
  <2>9. DsWait \in 0 .. DsWait /\ DsWait \in 1 .. DsWait /\ DsWait + lag <= DsWait + lag
    BY DsSizes
  <2>10. dsSensor' \in DsSensors /\ dsSensor'.busy = DsWait BY <2>6, <2>9 DEF DsSensors
  <2>11. DsOnTime(ds', dsSensor'.busy, lag) BY <2>3, <2>8, <2>9, <2>10 DEF DsOnTime
  <2> QED BY <2>7, <2>10, <2>11
<1>3. CASE rc # "OK"
  <2>1. ds' = [d EXCEPT !.pending = FALSE] /\ dsSensor' = dsSensor
    BY <1>1, <1>3 DEF DsRecordStart
  <2>2. ds' \in DsContexts /\ ds'.pending = FALSE BY <2>1 DEF DsContexts
  <2> QED BY <2>1, <2>2 DEF DsOnTime
<1> QED BY <1>2, <1>3

\* ev_ds18b20_actor_try_read keeps the samples and the next conversion in time.
LEMMA DsTryReadKeeps ==
  ASSUME NEW d \in DsContexts, NEW lag \in Nat, dsSensor \in DsSensors,
         dsSample \in DsSamples, EarlyByLagOnly,
         DsReadable(d, dsSensor.busy, lag), DsTryRead(d, lag)
  PROVE  /\ ds' \in DsContexts /\ dsSensor' \in DsSensors /\ dsSample' \in DsSamples
         /\ EarlyByLagOnly'
         /\ DsOnTime(ds', dsSensor'.busy, lag)
<1>1. CASE ~d.pending \/ ~DsDeadlineDue(d)
  <2>1. ds' = d /\ dsSensor' = dsSensor /\ dsSample' = dsSample BY <1>1 DEF DsTryRead
  <2>2. DsOnTime(d, dsSensor.busy, lag)
    <3>1. CASE ~d.pending BY <3>1 DEF DsOnTime
    <3>2. CASE d.pending BY <1>1, <3>2 DEF DsReadable
    <3> QED BY <3>1, <3>2
  <2> QED BY <2>1, <2>2 DEF EarlyByLagOnly
<1>2. CASE d.pending /\ DsDeadlineDue(d)
  <2>1. PICK read : read = [d EXCEPT !.pending = FALSE] OBVIOUS
  <2>2. /\ dsSample' = [missing |-> dsSensor.busy, lag |-> d.lag]
        /\ \/ \E rc \in DsReads : DsStart([read EXCEPT !.valid = @ \/ rc = "OK"], lag)
           \/ /\ ds' = [read EXCEPT !.valid = TRUE, !.failed = TRUE]
              /\ dsSensor' = dsSensor
    BY <1>2, <2>1 DEF DsTryRead
  <2>3. dsSensor.busy \in 0 .. DsWait /\ d.lag \in Nat BY DsFields
  <2>4. dsSensor.busy \in Nat BY <2>3, DsSizes
  <2>5. dsSample'.missing = dsSensor.busy /\ dsSample'.lag = d.lag BY <2>2
  <2>6. dsSample' \in DsSamples BY <2>2, <2>3, <2>4 DEF DsSamples
  <2>7. EarlyByLagOnly'
    <3>1. dsSensor.busy <= d.lag BY <1>2 DEF DsReadable
    <3> QED BY <2>5, <3>1 DEF EarlyByLagOnly
  <2>8. read \in DsContexts /\ read.pending = FALSE BY <2>1 DEF DsContexts
  <2>9. CASE \E rc \in DsReads : DsStart([read EXCEPT !.valid = @ \/ rc = "OK"], lag)
    <3>1. PICK rc \in DsReads : DsStart([read EXCEPT !.valid = @ \/ rc = "OK"], lag)
      BY <2>9
    <3>2. PICK q : q = [read EXCEPT !.valid = @ \/ rc = "OK"] OBVIOUS
    <3>3. q \in DsContexts BY <2>8, <3>2 DEF DsContexts
    <3>4. DsStart(q, lag) BY <3>1, <3>2
    <3> QED BY <2>6, <2>7, <3>3, <3>4, DsStartKeeps
  <2>10. CASE ds' = [read EXCEPT !.valid = TRUE, !.failed = TRUE] /\ dsSensor' = dsSensor
    <3>1. ds' \in DsContexts /\ ds'.pending = FALSE BY <2>8, <2>10 DEF DsContexts
    <3> QED BY <2>6, <2>7, <2>10, <3>1 DEF DsOnTime
  <2> QED BY <2>2, <2>9, <2>10
<1> QED BY <1>1, <1>2

\* EV_BOOT_COMPLETED
LEMMA DsBootKeeps == ASSUME DsInv, DsBoot PROVE DsInv'
<1>1. PICK d, lag : d = [ds EXCEPT !.booted = TRUE] /\ lag = DsLag OBVIOUS
<1>2. d \in DsContexts BY <1>1 DEF DsInv, DsContexts
<1>3. lag \in Nat
  <2>1. dsTicks.waiting \in Nat /\ dsTicks.phase \in Nat BY DsFields, DsSizes DEF DsInv
  <2> QED BY <1>1, <2>1, DsLate DEF DsLag
<1>4. DsStart(d, lag) /\ dsSensor \in DsSensors /\ dsTicks' = dsTicks /\ dsSample' = dsSample
  BY <1>1 DEF DsBoot, DsInv
<1>5. ds' \in DsContexts /\ dsSensor' \in DsSensors /\ DsOnTime(ds', dsSensor'.busy, lag)
  BY <1>2, <1>3, <1>4, DsStartKeeps
<1>6. DsLag' = lag BY <1>1, <1>4 DEF DsLag
<1> QED BY <1>4, <1>5, <1>6 DEF DsInv, EarlyByLagOnly

\* EV_TICK_100MS
LEMMA DsTickKeeps == ASSUME DsInv, DsHandleTick PROVE DsInv'
<1>0. /\ ds \in DsContexts /\ dsSensor \in DsSensors /\ dsTicks \in DsQueues
      /\ dsSample \in DsSamples /\ EarlyByLagOnly /\ DsOnTime(ds, dsSensor.busy, DsLag)
  BY DEF DsInv
<1>1. PICK d, lag, k : /\ k = (ds.now + DsTick) % DsMod
                       /\ d = [ds EXCEPT !.now = k] /\ lag = DsLag - DsTick
  OBVIOUS
<1>2. /\ dsTicks.waiting > 0 /\ dsTicks' = [dsTicks EXCEPT !.waiting = @ - 1]
      /\ DsTryRead(d, lag)
  BY <1>0, <1>1 DEF DsHandleTick
<1>3. /\ dsTicks.waiting \in Nat /\ dsTicks.phase \in Nat
      /\ dsTicks.waiting \in 0 .. DsMailbox /\ dsTicks.phase \in 0 .. DsTick - 1
  BY <1>0, DsFields, DsSizes
<1>4. PICK w, p : w = dsTicks.waiting /\ p = dsTicks.phase OBVIOUS
<1>5. DsLag = w * DsTick + p BY <1>4 DEF DsLag
<1>6. dsTicks' \in DsQueues /\ dsTicks'.waiting = w - 1 /\ dsTicks'.phase = p
  <2>1. w - 1 \in 0 .. DsMailbox BY <1>2, <1>3, <1>4, DsSizes
  <2> QED BY <1>0, <1>2, <1>4, <2>1 DEF DsQueues
<1>7. lag = (w - 1) * DsTick + p /\ lag \in Nat /\ DsLag = lag + DsTick /\ DsLag \in Nat
  <2>1. w \in Nat /\ p \in Nat /\ w > 0 BY <1>2, <1>3, <1>4
  <2>2. /\ w * DsTick + p \in Nat /\ (w - 1) * DsTick = w * DsTick - DsTick
        /\ w * DsTick >= DsTick
    BY <2>1, DsLate
  <2>3. PICK z : z = w * DsTick OBVIOUS
  <2>4. z \in Int BY <2>1, <2>3, DsSizes
  <2> QED BY <1>1, <1>5, <2>1, <2>2, <2>3, <2>4, DsSizes
<1>8. DsLag' = lag BY <1>6, <1>7 DEF DsLag
<1>9. ds.now \in 0 .. DsMod - 1 /\ ds.deadline \in 0 .. DsMod - 1 /\ ds.lag \in Nat
      /\ ds.pending \in BOOLEAN /\ dsSensor.busy \in 0 .. DsWait
  BY <1>0, DsFields
<1>10. k \in 0 .. DsMod - 1
  <2>1. DsTick \in 0 .. DsMod - 1 BY DsSizes
  <2>2. k = IF ds.now + DsTick < DsMod THEN ds.now + DsTick ELSE ds.now + DsTick - DsMod
    BY <1>1, <1>9, <2>1, DsSizes, ModSum
  <2> QED BY <1>9, <2>1, <2>2, DsSizes
<1>11. d \in DsContexts BY <1>0, <1>1, <1>10 DEF DsContexts
<1>12. d.pending = ds.pending /\ d.now = k /\ d.deadline = ds.deadline /\ d.lag = ds.lag
  BY <1>0, <1>1 DEF DsContexts
<1>13. DsReadable(d, dsSensor.busy, lag)
  <2> SUFFICES ASSUME ds.pending
               PROVE  IF DsDeadlineDue(d) THEN dsSensor.busy <= d.lag
                      ELSE DsOnTime(d, dsSensor.busy, lag)
    BY <1>12 DEF DsReadable
  <2>1. PICK r \in 1 .. DsWait :
          /\ ds.deadline = DsAfter(ds.now, r)
          /\ dsSensor.busy = 0 \/ dsSensor.busy + DsLag <= r + ds.lag
    BY <1>0 DEF DsOnTime
  <2>2. /\ r <= DsTick => 2 * ((k - ds.deadline) % DsMod) < DsMod
        /\ r > DsTick => /\ ~(2 * ((k - ds.deadline) % DsMod) < DsMod)
                         /\ ds.deadline = DsAfter(k, r - DsTick)
    BY <1>1, <1>9, <2>1, DsClock
  <2>3. CASE r <= DsTick
    <3>1. DsDeadlineDue(d) BY <1>12, <2>2, <2>3 DEF DsDeadlineDue
    <3>2. dsSensor.busy <= ds.lag BY <1>7, <1>9, <2>1, <2>3, DsSizes
    <3> QED BY <1>12, <3>1, <3>2
  <2>4. CASE r > DsTick
    <3>1. ~DsDeadlineDue(d) BY <1>12, <2>2, <2>4 DEF DsDeadlineDue
    <3>2. r - DsTick \in 1 .. DsWait BY <2>1, <2>4, DsSizes
    <3>3. dsSensor.busy = 0 \/ dsSensor.busy + lag <= (r - DsTick) + ds.lag
      BY <1>7, <1>9, <2>1, <2>4, DsSizes
    <3>4. DsOnTime(d, dsSensor.busy, lag) BY <1>12, <2>2, <2>4, <3>2, <3>3 DEF DsOnTime
    <3> QED BY <3>1, <3>4
  <2> QED BY <2>1, <2>3, <2>4, DsSizes
<1>14. /\ ds' \in DsContexts /\ dsSensor' \in DsSensors /\ dsSample' \in DsSamples
       /\ EarlyByLagOnly' /\ DsOnTime(ds', dsSensor'.busy, lag)
  BY <1>0, <1>2, <1>7, <1>11, <1>13, DsTryReadKeeps
<1> QED BY <1>6, <1>8, <1>14 DEF DsInv

\* EV_TICK_1S
LEMMA DsTick1sKeeps == ASSUME DsInv, DsHandleTick1s PROVE DsInv'
<1>0. /\ ds \in DsContexts /\ dsSensor \in DsSensors /\ dsTicks \in DsQueues
      /\ dsSample \in DsSamples /\ EarlyByLagOnly /\ DsOnTime(ds, dsSensor.busy, DsLag)
  BY DEF DsInv
<1>1. PICK lag : lag = DsLag OBVIOUS
<1>2. lag \in Nat
  <2>1. dsTicks.waiting \in Nat /\ dsTicks.phase \in Nat BY <1>0, DsFields, DsSizes
  <2> QED BY <1>1, <2>1, DsLate DEF DsLag
<1>3. DsTryRead(ds, lag) /\ dsTicks' = dsTicks BY <1>1 DEF DsHandleTick1s
<1>4. DsReadable(ds, dsSensor.busy, lag)
  <2> SUFFICES ASSUME ds.pending
               PROVE  IF DsDeadlineDue(ds) THEN dsSensor.busy <= ds.lag
                      ELSE DsOnTime(ds, dsSensor.busy, lag)
    BY DEF DsReadable
  <2>1. PICK r \in 1 .. DsWait : ds.deadline = DsAfter(ds.now, r) BY <1>0 DEF DsOnTime
  <2>2. ds.now \in 0 .. DsMod - 1 BY <1>0, DsFields
  <2>3. ~DsDeadlineDue(ds) BY <2>1, <2>2, DsAhead DEF DsDeadlineDue
  <2> QED BY <1>0, <1>1, <2>3
<1>5. /\ ds' \in DsContexts /\ dsSensor' \in DsSensors /\ dsSample' \in DsSamples
      /\ EarlyByLagOnly' /\ DsOnTime(ds', dsSensor'.busy, lag)
  BY <1>0, <1>2, <1>3, <1>4, DsTryReadKeeps
<1>6. DsLag' = lag BY <1>1, <1>3 DEF DsLag
<1> QED BY <1>0, <1>3, <1>5, <1>6 DEF DsInv

\* Time passes: the conversion gets shorter by what the actor may get later.
LEMMA DsTimeKeeps == ASSUME DsInv, DsTime PROVE DsInv'
<1>0. /\ ds \in DsContexts /\ dsSensor \in DsSensors /\ dsTicks \in DsQueues
      /\ dsSample \in DsSamples /\ EarlyByLagOnly /\ DsOnTime(ds, dsSensor.busy, DsLag)
  BY DEF DsInv
<1>1. /\ dsSensor' = [dsSensor EXCEPT !.busy = IF @ = 0 THEN 0 ELSE @ - 1]
      /\ ds' = ds /\ dsSample' = dsSample
  BY DEF DsTime
<1>2. PICK b, c : b = dsSensor.busy /\ c = IF b = 0 THEN 0 ELSE b - 1 OBVIOUS
<1>3. b \in 0 .. DsWait /\ c \in 0 .. DsWait
  <2>1. b \in 0 .. DsWait BY <1>0, <1>2, DsFields
  <2> QED BY <1>2, <2>1, DsSizes
<1>4. dsSensor' \in DsSensors /\ dsSensor'.busy = c
  BY <1>0, <1>1, <1>2, <1>3 DEF DsSensors
<1>5. PICK w, p : w = dsTicks.waiting /\ p = dsTicks.phase OBVIOUS
<1>6. w \in 0 .. DsMailbox /\ p \in 0 .. DsTick - 1 /\ w \in Nat /\ p \in Nat
  BY <1>0, <1>5, DsFields, DsSizes
<1>7. PICK x, y : /\ x = IF p + 1 < DsTick THEN w ELSE IF w < DsMailbox THEN w + 1 ELSE DsMailbox
                  /\ y = IF p + 1 < DsTick THEN p + 1 ELSE 0
  OBVIOUS
<1>8. dsTicks' \in DsQueues /\ dsTicks'.waiting = x /\ dsTicks'.phase = y
  <2>1. x \in 0 .. DsMailbox /\ y \in 0 .. DsTick - 1 BY <1>6, <1>7, DsSizes
  <2>2. dsTicks' = IF p + 1 < DsTick THEN [dsTicks EXCEPT !.phase = p + 1]
                   ELSE [waiting |-> IF w < DsMailbox THEN w + 1 ELSE DsMailbox, phase |-> 0]
    BY <1>0, <1>5 DEF DsTime, DsQueues
  <2>3. CASE p + 1 < DsTick
    <3>1. dsTicks' = [dsTicks EXCEPT !.phase = y] BY <1>7, <2>2, <2>3
    <3> QED BY <1>0, <1>5, <1>7, <2>1, <2>3, <3>1 DEF DsQueues
  <2>4. CASE ~(p + 1 < DsTick)
    <3>1. dsTicks' = [waiting |-> x, phase |-> y] BY <1>7, <2>2, <2>4
    <3> QED BY <2>1, <3>1 DEF DsQueues
  <2> QED BY <2>3, <2>4
<1>9. DsLag = w * DsTick + p /\ DsLag' = x * DsTick + y BY <1>5, <1>8 DEF DsLag
<1>10. DsLag \in Nat /\ DsLag' \in Int /\ DsLag' <= DsLag + 1
  <2>1. w * DsTick + p \in Nat /\ (w + 1) * DsTick = w * DsTick + DsTick BY <1>6, DsLate
  <2>2. PICK z : z = w * DsTick OBVIOUS
  <2>3. z \in Int BY <1>6, <2>2, DsSizes
  <2>4. CASE p + 1 < DsTick BY <1>6, <1>7, <1>9, <2>1, <2>2, <2>3, <2>4
  <2>5. CASE ~(p + 1 < DsTick) /\ w < DsMailbox
    <3>1. x * DsTick = z + DsTick /\ y = 0 BY <1>7, <2>1, <2>2, <2>5
    <3> QED BY <1>6, <1>9, <2>1, <2>2, <2>3, <2>5, <3>1, DsSizes
  <2>6. CASE ~(p + 1 < DsTick) /\ ~(w < DsMailbox)
    <3>1. w = DsMailbox /\ x = w /\ y = 0 BY <1>6, <1>7, <2>6, DsSizes
    <3> QED BY <1>6, <1>9, <2>1, <2>2, <2>3, <3>1
  <2> QED BY <2>4, <2>5, <2>6
<1>11. DsOnTime(ds, c, DsLag')
  <2>0. PICK l, m : l = DsLag /\ m = DsLag' OBVIOUS
  <2> SUFFICES ASSUME ds.pending
               PROVE  \E r \in 1 .. DsWait : /\ ds.deadline = DsAfter(ds.now, r)
                                             /\ c = 0 \/ c + m <= r + ds.lag
    BY <2>0 DEF DsOnTime
  <2>1. PICK r \in 1 .. DsWait : /\ ds.deadline = DsAfter(ds.now, r)
                                 /\ b = 0 \/ b + l <= r + ds.lag
    BY <1>0, <1>2, <2>0 DEF DsOnTime
  <2>2. l \in Nat /\ m \in Int /\ m <= l + 1 /\ ds.lag \in Nat
    BY <1>0, <1>10, <2>0, DsFields
  <2>3. c = 0 \/ c + m <= r + ds.lag BY <1>2, <1>3, <2>1, <2>2, DsSizes
  <2> QED BY <2>1, <2>3
<1> QED BY <1>0, <1>1, <1>4, <1>8, <1>11 DEF DsInv, EarlyByLagOnly

\* The sensor is unplugged or plugged in: it converts nothing.
LEMMA DsPlugKeeps == ASSUME DsInv, DsPlug PROVE DsInv'
<1>1. /\ ds \in DsContexts /\ dsTicks \in DsQueues /\ dsSample \in DsSamples
      /\ EarlyByLagOnly /\ DsOnTime(ds, dsSensor.busy, DsLag)
      /\ ds' = ds /\ dsTicks' = dsTicks /\ dsSample' = dsSample
  BY DEF DsInv, DsPlug
<1>2. dsSensor' = [present |-> ~dsSensor.present, busy |-> 0] BY DEF DsPlug
<1>3. 0 \in 0 .. DsWait BY DsSizes
<1>4. (~dsSensor.present) \in BOOLEAN OBVIOUS
<1>5. dsSensor' \in DsSensors /\ dsSensor'.busy = 0 BY <1>2, <1>3, <1>4 DEF DsSensors
<1>6. DsOnTime(ds, 0, DsLag) BY <1>1 DEF DsOnTime
<1>7. DsLag' = DsLag BY <1>1 DEF DsLag
<1> QED BY <1>1, <1>5, <1>6, <1>7 DEF DsInv, EarlyByLagOnly

\* A restart forgets the conversion.
LEMMA DsRestartKeeps == ASSUME DsInv, DsRestart PROVE DsInv'
<1>1. /\ dsSensor \in DsSensors /\ dsSample \in DsSamples /\ EarlyByLagOnly
      /\ ds' = DsFresh /\ dsTicks' = [waiting |-> 0, phase |-> 0]
      /\ dsSensor' = dsSensor /\ dsSample' = dsSample
  BY DEF DsInv, DsRestart
<1>2. 0 \in 0 .. DsMod - 1 /\ 0 \in 0 .. DsMailbox /\ 0 \in 0 .. DsTick - 1 /\ 0 \in Nat
  BY DsSizes
<1>3. ds' \in DsContexts /\ ~ds'.pending BY <1>1, <1>2 DEF DsFresh, DsContexts
<1>4. dsTicks' \in DsQueues BY <1>1, <1>2 DEF DsQueues
<1> QED BY <1>1, <1>3, <1>4 DEF DsInv, DsOnTime, EarlyByLagOnly

\* The sensor's actor keeps its invariant.
LEMMA DsInvHolds == DsInit /\ [][DsNext]_dsVars => []DsInv
<1>1. DsInit => DsInv
  <2> SUFFICES ASSUME DsInit PROVE DsInv OBVIOUS
  <2>1. /\ 0 \in 0 .. DsMod - 1 /\ 0 \in 0 .. DsMailbox /\ 0 \in 0 .. DsTick - 1
        /\ 0 \in Nat /\ 0 \in 0 .. DsWait
    BY DsSizes
  <2>2. ds \in DsContexts /\ ~ds.pending BY <2>1 DEF DsInit, DsFresh, DsContexts
  <2>3. dsSensor \in DsSensors BY <2>1 DEF DsInit, DsSensors
  <2>4. dsTicks \in DsQueues BY <2>1 DEF DsInit, DsQueues
  <2>5. dsSample \in DsSamples /\ dsSample.missing <= dsSample.lag
    BY <2>1 DEF DsInit, DsSamples
  <2> QED BY <2>2, <2>3, <2>4, <2>5 DEF DsInv, DsOnTime, EarlyByLagOnly
<1>2. DsInv /\ [DsNext]_dsVars => DsInv'
  <2> SUFFICES ASSUME DsInv, [DsNext]_dsVars PROVE DsInv' OBVIOUS
  <2>1. CASE UNCHANGED dsVars BY <2>1 DEF dsVars, DsInv, DsOnTime, DsLag, EarlyByLagOnly
  <2> QED
    BY <2>1, DsBootKeeps, DsTickKeeps, DsTick1sKeeps, DsTimeKeeps, DsPlugKeeps,
       DsRestartKeeps
    DEF DsNext
<1> QED BY <1>1, <1>2, PTL

\* The sensor is one of the actors.
LEMMA DsRuns == Spec => DsInit /\ [][DsNext]_dsVars
<1>1. Init => DsInit BY DEF Init
<1>2. [Next]_actorsVars => [DsNext]_dsVars BY DEF Next, actorsVars
<1> QED BY <1>1, <1>2, PTL DEF Spec

\* A scratchpad is read before the end of its conversion by no more than the
\* actor was late when it started the conversion: for every length of tick and
\* conversion, width of the actor's clock and depth of its mailbox, across
\* wraps, lost ticks, bus errors, unplugging and restarts (ev_ds18b20_actor.c).
THEOREM NoEarlyRead == Spec => []EarlyByLagOnly
<1>1. DsInv => EarlyByLagOnly BY DEF DsInv
<1> QED BY <1>1, DsInvHolds, DsRuns, PTL

-----------------------------------------------------------------------------
(* The light sensor. *)

BhContexts ==
  [booted : BOOLEAN, failed : BOOLEAN, present : BOOLEAN, pending : BOOLEAN,
   ready : BOOLEAN, now : 0 .. BhMod - 1, deadline : 0 .. BhMod - 1,
   backoff : 0 .. BhLimit, retry : 0 .. BhMod - 1]

\* The actor's clock r ticks after it reads n.
BhAfter(n, r) == IF n + r < BhMod THEN n + r ELSE n + r - BhMod

\* A delay that f failures in a row call for.
BhLong(delay, f) == delay >= BhDoubled[f - 1] \/ delay >= BhLimit

\* Without a failure there is no delay, and after f of them a long one.
BhPaid(delay, f) ==
  \/ delay = 0 /\ f = 0
  \/ delay > 0 /\ f > 0 /\ BhLong(delay, f)

\* Nobody waits for a measurement after a failure, and what is left of the delay
\* is what the clock says.
BhWaits(b, quiet, f) ==
  /\ BhPaid(b.backoff, f)
  /\ b.pending => f = 0
  /\ ~b.pending => /\ f > 0
                   /\ \E r \in 1 .. BhLimit : /\ r + quiet = b.backoff
                                              /\ b.retry = BhAfter(b.now, r)

BhInv ==
  /\ bh \in BhContexts /\ bhAnswers \in BOOLEAN
  /\ bhQuiet \in Nat /\ bhFailures \in 0 .. BhCount
  /\ ~bh.booted => bh.backoff = 0 /\ bhFailures = 0
  /\ bh.booted /\ ~bh.failed => BhWaits(bh, bhQuiet, bhFailures)

\* The delays and the clock.
LEMMA BhSizes ==
  /\ BhWait \in Nat /\ BhWait > 0 /\ BhInitial \in Nat /\ BhInitial > 0
  /\ BhLimit \in Nat /\ BhInitial < BhLimit /\ BhCount \in Nat /\ BhCount > 0
  /\ BhMod \in Nat /\ 2 * (BhWait + BhLimit) < BhMod /\ BhMod > 0
BY BhAssumption

\* The parts of the actor's context.
LEMMA BhFields ==
  \A b \in BhContexts :
    /\ b.booted \in BOOLEAN /\ b.failed \in BOOLEAN /\ b.pending \in BOOLEAN
    /\ b.now \in 0 .. BhMod - 1 /\ b.retry \in 0 .. BhMod - 1
    /\ b.backoff \in 0 .. BhLimit
BY DEF BhContexts

\* Delays doubled up to n times.
BhDoubles(f, n) ==
  f = [k \in 0 .. n |-> IF k = 0 THEN BhInitial ELSE 2 * f[k - 1]]

\* The first n doublings exist.
LEMMA BhDoublesExist == \A n \in Nat : \E f : BhDoubles(f, n)
<1> DEFINE S == {n \in Nat : \E f : BhDoubles(f, n)}
<1>1. 0 \in S
  <2>1. BhDoubles([k \in 0 .. 0 |-> BhInitial], 0) BY DEF BhDoubles
  <2> QED BY <2>1
<1>2. ASSUME NEW n \in S PROVE n + 1 \in S
  <2>1. n \in Nat OBVIOUS
  <2>2. PICK f : BhDoubles(f, n) OBVIOUS
  <2> DEFINE h == [k \in 0 .. n + 1 |-> IF k = n + 1 THEN 2 * f[n] ELSE f[k]]
  <2>3. \A k \in 0 .. n : h[k] = f[k] BY <2>1
  <2>4. ASSUME NEW k \in 0 .. n + 1
        PROVE  h[k] = IF k = 0 THEN BhInitial ELSE 2 * h[k - 1]
    <3> HIDE DEF h
    <3>1. CASE k = n + 1
      <4>1. k - 1 = n /\ h[k - 1] = f[n] /\ k # 0 BY <2>1, <2>3, <3>1
      <4>2. h[k] = 2 * f[n] BY <2>1, <3>1 DEF h
      <4> QED BY <4>1, <4>2
    <3>2. CASE k # n + 1
      <4>1. k \in 0 .. n /\ (k # 0 => k - 1 \in 0 .. n) BY <2>1, <2>4, <3>2
      <4>2. f[k] = IF k = 0 THEN BhInitial ELSE 2 * f[k - 1] BY <2>2, <4>1 DEF BhDoubles
      <4>3. h[k] = f[k] /\ (k # 0 => h[k - 1] = f[k - 1]) BY <2>3, <4>1
      <4> QED BY <4>2, <4>3
    <3> QED BY <3>1, <3>2
  <2>5. h = [k \in 0 .. n + 1 |-> h[k]] OBVIOUS
  <2> HIDE DEF h
  <2>6. BhDoubles(h, n + 1) BY <2>4, <2>5 DEF BhDoubles
  <2> QED BY <2>1, <2>6
<1>3. S \in SUBSET Nat OBVIOUS
<1> HIDE DEF S
<1>4. Nat \subseteq S BY <1>1, <1>2, <1>3, NaturalsBySteps
<1> QED BY <1>4 DEF S

\* BhDoubled doubles.
LEMMA BhDoubledIs ==
  /\ BhDoubled[0] = BhInitial
  /\ \A k \in 1 .. BhCount : BhDoubled[k] = 2 * BhDoubled[k - 1]
<1>1. \E f : BhDoubles(f, BhCount) BY BhSizes, BhDoublesExist
<1>2. BhDoubled = CHOOSE f : BhDoubles(f, BhCount) BY DEF BhDoubled, BhDoubles
<1>3. BhDoubles(BhDoubled, BhCount) BY <1>1, <1>2
<1>4. BhDoubled[0] = BhInitial BY <1>3, BhSizes DEF BhDoubles
<1>5. ASSUME NEW k \in 1 .. BhCount PROVE BhDoubled[k] = 2 * BhDoubled[k - 1]
  <2>1. k \in 0 .. BhCount /\ k # 0 BY BhSizes
  <2> QED BY <1>3, <2>1 DEF BhDoubles
<1> QED BY <1>4, <1>5

\* The doubled delays are counts of ticks.
LEMMA BhDoubledCounts == \A k \in 0 .. BhCount : BhDoubled[k] \in Nat
<1> DEFINE S == {n \in Nat : n <= BhCount => BhDoubled[n] \in Nat}
<1>1. 0 \in S BY BhDoubledIs, BhSizes
<1>2. ASSUME NEW n \in S PROVE n + 1 \in S
  <2>1. SUFFICES ASSUME n + 1 <= BhCount PROVE BhDoubled[n + 1] \in Nat OBVIOUS
  <2>2. PICK k \in 1 .. BhCount : k = n + 1 /\ k - 1 = n BY <2>1, BhSizes
  <2>3. BhDoubled[n] \in Nat BY <2>1, BhSizes
  <2>4. BhDoubled[k] = 2 * BhDoubled[n] BY <2>2, BhDoubledIs
  <2> QED BY <2>2, <2>3, <2>4
<1>3. S \in SUBSET Nat OBVIOUS
<1> HIDE DEF S
<1>4. Nat \subseteq S BY <1>1, <1>2, <1>3, NaturalsBySteps
<1> QED BY <1>4, BhSizes DEF S

\* One more failure: the next delay is long enough for it.
LEMMA BhNextIsPaid ==
  ASSUME NEW delay \in 0 .. BhLimit, NEW f \in 0 .. BhCount, BhPaid(delay, f),
         NEW g, g = IF f < BhCount THEN f + 1 ELSE BhCount
  PROVE  /\ BhNextBackoff(delay) \in 1 .. BhLimit /\ g \in 1 .. BhCount
         /\ BhPaid(BhNextBackoff(delay), g)
<1>1. g \in 1 .. BhCount BY BhSizes
<1>2. PICK half \in Nat : half = BhLimit \div 2 /\ 2 * half <= BhLimit BY BhSizes
<1>3. PICK x : x = BhNextBackoff(delay) OBVIOUS
<1>4. CASE delay = 0
  <2>1. f = 0 BY <1>4 DEF BhPaid
  <2>2. g = 1 /\ x = BhInitial BY <1>3, <1>4, <2>1, BhSizes DEF BhNextBackoff
  <2>3. x \in 1 .. BhLimit BY <2>2, BhSizes
  <2>4. BhLong(x, g) BY <2>2, BhDoubledIs, BhSizes DEF BhLong
  <2> QED BY <1>1, <1>3, <2>3, <2>4, BhSizes DEF BhPaid
<1>5. CASE delay > 0 /\ delay < half
  <2>1. f > 0 /\ BhLong(delay, f) BY <1>5 DEF BhPaid
  <2>2. x = 2 * delay BY <1>2, <1>3, <1>5 DEF BhNextBackoff
  <2>3. x \in 1 .. BhLimit /\ ~(delay >= BhLimit) BY <1>2, <1>5, <2>2, BhSizes
  <2>4. PICK d \in Nat : d = BhDoubled[f - 1]
    <3>1. f - 1 \in 0 .. BhCount BY <2>1, BhSizes
    <3> QED BY <3>1, BhDoubledCounts
  <2>5. delay >= d BY <2>1, <2>3, <2>4 DEF BhLong
  <2>6. BhDoubled[g - 1] = d \/ BhDoubled[g - 1] = 2 * d
    <3>1. CASE f < BhCount
      <4>1. PICK k \in 1 .. BhCount : k = f /\ g - 1 = k BY <2>1, <3>1, BhSizes
      <4>2. BhDoubled[k] = 2 * BhDoubled[k - 1] BY BhDoubledIs
      <4> QED BY <2>4, <4>1, <4>2
    <3>2. CASE ~(f < BhCount)
      <4>1. g = f BY <3>2, BhSizes
      <4> QED BY <2>4, <4>1
    <3> QED BY <3>1, <3>2
  <2>7. PICK e : e = BhDoubled[g - 1] OBVIOUS
  <2>8. x >= e BY <1>5, <2>2, <2>4, <2>5, <2>6, <2>7
  <2>9. BhLong(x, g) BY <2>7, <2>8 DEF BhLong
  <2> QED BY <1>1, <1>3, <2>3, <2>9, BhSizes DEF BhPaid
<1>6. CASE delay > 0 /\ ~(delay < half)
  <2>1. x = BhLimit BY <1>2, <1>3, <1>6, BhSizes DEF BhNextBackoff
  <2>2. x \in 1 .. BhLimit BY <2>1, BhSizes
  <2>3. BhLong(x, g) BY <2>1, BhSizes DEF BhLong
  <2> QED BY <1>1, <1>3, <2>2, <2>3, BhSizes DEF BhPaid
<1> QED BY <1>2, <1>4, <1>5, <1>6, BhSizes

\* A tick brings the actor's clock to the end of the delay, or nearer to it.
LEMMA BhClock ==
  ASSUME NEW n \in 0 .. BhMod - 1, NEW r \in 1 .. BhLimit, NEW at, at = BhAfter(n, r),
         NEW k, k = (n + 1) % BhMod
  PROVE  /\ k \in 0 .. BhMod - 1 /\ k # n
         /\ BhDeadlineDue(k, at) <=> r = 1
         /\ r # 1 => r - 1 \in 1 .. BhLimit /\ at = BhAfter(k, r - 1)
<1>0. PICK m, w : m = BhMod /\ w = BhLimit OBVIOUS
<1>1. m \in Nat /\ w \in Nat /\ m > 2 /\ 2 * w < m /\ n \in 0 .. m - 1 /\ r \in 1 .. w
  BY <1>0, BhSizes
<1>2. k = IF n + 1 < m THEN n + 1 ELSE n + 1 - m
  <2>1. 1 \in 0 .. m - 1 BY <1>1
  <2>2. (n + 1) % m = IF n + 1 < m THEN n + 1 ELSE n + 1 - m BY <1>1, <2>1, ModSum
  <2> QED BY <1>0, <2>2
<1>3. at = IF n + r < m THEN n + r ELSE n + r - m BY <1>0 DEF BhAfter
<1>4. k \in 0 .. m - 1 /\ at \in 0 .. m - 1 /\ k # n BY <1>1, <1>2, <1>3
<1>5. (k - at) % m = IF at <= k THEN k - at ELSE k - at + m BY <1>1, <1>4, ModDifference
<1>6. PICK e : e = (k - at) % m OBVIOUS
<1>7. r = 1 => e = 0 BY <1>1, <1>2, <1>3, <1>5, <1>6
<1>8. r # 1 => e = m + 1 - r BY <1>1, <1>2, <1>3, <1>5, <1>6
<1>9. r = 1 => 2 * e < m BY <1>1, <1>7
<1>10. r # 1 => ~(2 * e < m) BY <1>1, <1>8
<1>11. r # 1 => /\ r - 1 \in 1 .. w
                /\ at = IF k + (r - 1) < m THEN k + (r - 1) ELSE k + (r - 1) - m
  BY <1>1, <1>2, <1>3
<1>12. BhDeadlineDue(k, at) <=> 2 * e < m BY <1>0, <1>6 DEF BhDeadlineDue
<1>13. BhDeadlineDue(k, at) <=> r = 1 BY <1>9, <1>10, <1>12
<1> QED BY <1>0, <1>4, <1>11, <1>13 DEF BhAfter

\* An attempt that fails puts the next one off.
LEMMA BhRetryKeeps ==
  ASSUME NEW b \in BhContexts, b.pending = FALSE, bhFailures \in 0 .. BhCount,
         BhPaid(b.backoff, bhFailures),
         NEW rc, rc # "OK", bh' = BhScheduleRetry(b), BhUsed(rc)
  PROVE  /\ bh' \in BhContexts /\ bhQuiet' \in Nat /\ bhFailures' \in 0 .. BhCount
         /\ BhWaits(bh', bhQuiet', bhFailures')
         /\ bh'.booted = b.booted /\ bh'.failed = b.failed
<1>1. b.now \in 0 .. BhMod - 1 /\ b.backoff \in 0 .. BhLimit BY BhFields
<1>2. PICK x, g, f, d : /\ x = BhNextBackoff(b.backoff) /\ f = bhFailures /\ d = b.backoff
                        /\ g = IF f < BhCount THEN f + 1 ELSE BhCount
  OBVIOUS
<1>3. bhQuiet' = 0 /\ bhFailures' = g BY <1>2 DEF BhUsed
<1>4. x \in 1 .. BhLimit /\ g \in 1 .. BhCount /\ BhPaid(x, g)
  <2>1. d \in 0 .. BhLimit /\ f \in 0 .. BhCount /\ BhPaid(d, f) BY <1>1, <1>2
  <2>2. x = BhNextBackoff(d) BY <1>2
  <2> QED BY <1>2, <2>1, <2>2, BhNextIsPaid
<1>5. PICK at : at = (b.now + x) % BhMod OBVIOUS
<1>6. at = BhAfter(b.now, x) /\ at \in 0 .. BhMod - 1
  <2>1. x \in 0 .. BhMod - 1 BY <1>4, BhSizes
  <2>2. at = BhAfter(b.now, x) BY <1>1, <1>5, <2>1, BhSizes, ModSum DEF BhAfter
  <2> QED BY <1>1, <2>1, <2>2, BhSizes DEF BhAfter
<1>7. bh' = [b EXCEPT !.backoff = x, !.retry = at] BY <1>2, <1>5 DEF BhScheduleRetry
<1>8. x \in 0 .. BhLimit BY <1>4
<1>9. bh' \in BhContexts BY <1>6, <1>7, <1>8 DEF BhContexts
<1>10. /\ bh'.backoff = x /\ bh'.retry = at /\ bh'.pending = FALSE /\ bh'.now = b.now
       /\ bh'.booted = b.booted /\ bh'.failed = b.failed
  BY <1>7 DEF BhContexts
<1>11. g \in 0 .. BhCount /\ g > 0 /\ x + 0 = x BY <1>4, BhSizes
<1>12. BhWaits(bh', 0, g) BY <1>4, <1>6, <1>10, <1>11 DEF BhWaits
<1> QED BY <1>3, <1>9, <1>10, <1>11, <1>12

\* A measurement is started, or not.
LEMMA BhStartKeeps ==
  ASSUME NEW b \in BhContexts, bhFailures \in 0 .. BhCount,
         BhPaid(b.backoff, bhFailures), BhStart(b)
  PROVE  /\ bh' \in BhContexts /\ bhQuiet' \in Nat /\ bhFailures' \in 0 .. BhCount
         /\ BhWaits(bh', bhQuiet', bhFailures')
         /\ bh'.booted = b.booted /\ bh'.failed = b.failed
<1>1. PICK rc \in BhResults : bh' = BhRecordStart(b, rc) /\ BhUsed(rc) BY DEF BhStart
<1>2. CASE rc = "OK"
  <2>1. PICK at : at = (b.now + BhWait) % BhMod OBVIOUS
  <2>2. at \in 0 .. BhMod - 1
    <3>1. b.now + BhWait \in Int BY BhFields, BhSizes
    <3> QED BY <2>1, <3>1, BhSizes, ModTurns
  <2>3. bh' = [b EXCEPT !.present = TRUE, !.pending = TRUE, !.deadline = at,
                        !.backoff = 0, !.retry = 0]
    BY <1>1, <1>2, <2>1 DEF BhRecordStart
  <2>4. 0 \in 0 .. BhLimit /\ 0 \in 0 .. BhMod - 1 /\ 0 \in 0 .. BhCount BY BhSizes
  <2>5. bh' \in BhContexts BY <2>2, <2>3, <2>4 DEF BhContexts
  <2>6. /\ bh'.pending = TRUE /\ bh'.backoff = 0
        /\ bh'.booted = b.booted /\ bh'.failed = b.failed
    BY <2>3 DEF BhContexts
  <2>7. bhQuiet' = 0 /\ bhFailures' = 0 BY <1>1, <1>2 DEF BhUsed
  <2>8. BhWaits(bh', bhQuiet', bhFailures') BY <2>6, <2>7 DEF BhWaits, BhPaid
  <2> QED BY <2>4, <2>5, <2>6, <2>7, <2>8
<1>3. CASE rc # "OK"
  <2>1. PICK c : c = [b EXCEPT !.pending = FALSE, !.present = @ /\ rc # "ERR_NOT_FOUND"]
    OBVIOUS
  <2>2. c \in BhContexts BY <2>1 DEF BhContexts
  <2>3. /\ c.pending = FALSE /\ c.backoff = b.backoff
        /\ c.booted = b.booted /\ c.failed = b.failed
    BY <2>1 DEF BhContexts
  <2>4. bh' = BhScheduleRetry(c) BY <1>1, <1>3, <2>1 DEF BhRecordStart
  <2>5. /\ bh' \in BhContexts /\ bhQuiet' \in Nat /\ bhFailures' \in 0 .. BhCount
        /\ BhWaits(bh', bhQuiet', bhFailures')
        /\ bh'.booted = c.booted /\ bh'.failed = c.failed
    BY <1>1, <1>3, <2>2, <2>3, <2>4, BhRetryKeeps
  <2> QED BY <2>3, <2>5
<1> QED BY <1>2, <1>3

\* A measurement is read, and the next one is started; or the handler failed.
LEMMA BhReadKeeps ==
  ASSUME NEW b \in BhContexts, bhFailures \in 0 .. BhCount,
         BhPaid(b.backoff, bhFailures), BhRead(b)
  PROVE  /\ bh' \in BhContexts /\ bhQuiet' \in Nat /\ bhFailures' \in 0 .. BhCount
         /\ bh'.booted = b.booted
         /\ ~bh'.failed => BhWaits(bh', bhQuiet', bhFailures')
<1>1. PICK idle : idle = [b EXCEPT !.pending = FALSE] OBVIOUS
<1>2. /\ idle \in BhContexts /\ idle.pending = FALSE /\ idle.backoff = b.backoff
      /\ idle.booted = b.booted
  BY <1>1 DEF BhContexts
<1>3. CASE \E rc \in BhResults \ {"OK"} :
             /\ bh' = BhScheduleRetry([idle EXCEPT !.present = @ /\ rc # "ERR_NOT_FOUND"])
             /\ BhUsed(rc)
  <2>1. PICK rc \in BhResults \ {"OK"} :
          /\ bh' = BhScheduleRetry([idle EXCEPT !.present = @ /\ rc # "ERR_NOT_FOUND"])
          /\ BhUsed(rc)
    BY <1>3
  <2>2. PICK c : c = [idle EXCEPT !.present = @ /\ rc # "ERR_NOT_FOUND"] OBVIOUS
  <2>3. /\ c \in BhContexts /\ c.pending = FALSE /\ c.backoff = b.backoff
        /\ c.booted = b.booted
    BY <1>2, <2>2 DEF BhContexts
  <2>4. rc # "OK" /\ bh' = BhScheduleRetry(c) BY <2>1, <2>2
  <2>5. BhPaid(c.backoff, bhFailures) BY <2>3
  <2>6. /\ bh' \in BhContexts /\ bhQuiet' \in Nat /\ bhFailures' \in 0 .. BhCount
        /\ BhWaits(bh', bhQuiet', bhFailures') /\ bh'.booted = c.booted
    BY <2>1, <2>3, <2>4, <2>5, BhRetryKeeps
  <2> QED BY <2>3, <2>6
<1>4. CASE BhStart([idle EXCEPT !.present = TRUE, !.ready = TRUE])
  <2>1. PICK c : c = [idle EXCEPT !.present = TRUE, !.ready = TRUE] OBVIOUS
  <2>2. c \in BhContexts /\ c.backoff = b.backoff /\ c.booted = b.booted
    BY <1>2, <2>1 DEF BhContexts
  <2>3. BhStart(c) /\ BhPaid(c.backoff, bhFailures) BY <1>4, <2>1, <2>2
  <2> QED BY <2>2, <2>3, BhStartKeeps
<1>5. CASE bh' = [idle EXCEPT !.present = TRUE, !.failed = TRUE] /\ BhUsed("OK")
  <2>1. bh' \in BhContexts /\ bh'.failed = TRUE /\ bh'.booted = b.booted
    BY <1>2, <1>5 DEF BhContexts
  <2>2. bhQuiet' = 0 /\ bhFailures' = 0 BY <1>5 DEF BhUsed
  <2> QED BY <2>1, <2>2, BhSizes
<1> QED BY <1>1, <1>3, <1>4, <1>5 DEF BhRead

\* EV_BOOT_COMPLETED
LEMMA BhBootKeeps == ASSUME BhInv, BhBoot PROVE BhInv'
<1>1. /\ bh \in BhContexts /\ bhAnswers \in BOOLEAN /\ bhFailures \in 0 .. BhCount
      /\ bh.backoff = 0 /\ bhFailures = 0
  BY DEF BhInv, BhBoot
<1>2. PICK b : b = [bh EXCEPT !.booted = TRUE] OBVIOUS
<1>3. b \in BhContexts /\ b.booted = TRUE /\ b.backoff = 0 BY <1>1, <1>2 DEF BhContexts
<1>4. BhStart(b) /\ bhAnswers' = bhAnswers BY <1>2 DEF BhBoot
<1>5. BhPaid(b.backoff, bhFailures) BY <1>1, <1>3 DEF BhPaid
<1>6. /\ bh' \in BhContexts /\ bhQuiet' \in Nat /\ bhFailures' \in 0 .. BhCount
      /\ BhWaits(bh', bhQuiet', bhFailures') /\ bh'.booted = b.booted
  BY <1>1, <1>3, <1>4, <1>5, BhStartKeeps
<1> QED BY <1>1, <1>3, <1>4, <1>6 DEF BhInv

\* EV_TICK_100MS: the delay is waited for to its end.
LEMMA BhTickKeeps ==
  ASSUME BhInv, BhTick
  PROVE  /\ BhInv'
         /\ bhFailures > 0 /\ bhQuiet' = 0 => \/ bhQuiet + 1 >= BhDoubled[bhFailures - 1]
                                              \/ bhQuiet + 1 >= BhLimit
<1>1. /\ bh \in BhContexts /\ bhAnswers \in BOOLEAN /\ bhQuiet \in Nat
      /\ bhFailures \in 0 .. BhCount
      /\ bh.booted = TRUE /\ bh.failed = FALSE /\ BhWaits(bh, bhQuiet, bhFailures)
  <2>1. bh \in BhContexts /\ bh.booted /\ ~bh.failed BY DEF BhInv, BhTick
  <2>2. bh.booted = TRUE /\ bh.failed = FALSE BY <2>1, BhFields
  <2> QED BY <2>1, <2>2 DEF BhInv
<1>2. PICK k, b : k = (bh.now + 1) % BhMod /\ b = [bh EXCEPT !.now = (@ + 1) % BhMod] OBVIOUS
<1>3. bh.now \in 0 .. BhMod - 1 BY <1>1, BhFields
<1>4. k \in 0 .. BhMod - 1
  <2>1. bh.now + 1 \in Int BY <1>3
  <2> QED BY <1>2, <2>1, BhSizes, ModTurns
<1>5. /\ b \in BhContexts /\ b.now = k /\ b.booted = TRUE /\ b.failed = FALSE
      /\ b.pending = bh.pending /\ b.backoff = bh.backoff /\ b.retry = bh.retry
  BY <1>1, <1>2, <1>4 DEF BhContexts
<1>6. /\ IF b.pending /\ BhDeadlineDue(b.now, b.deadline) THEN BhRead(b)
         ELSE IF ~b.pending /\ BhRetryDue(b) THEN BhStart(b)
         ELSE bh' = b /\ bhQuiet' = bhQuiet + 1 /\ UNCHANGED bhFailures
      /\ bhAnswers' = bhAnswers
  BY <1>2 DEF BhTick
<1>7. /\ BhPaid(b.backoff, bhFailures)
      /\ b.pending => bhFailures = 0
      /\ ~b.pending => /\ bhFailures > 0
                       /\ \E r \in 1 .. BhLimit : /\ r + bhQuiet = b.backoff
                                                  /\ b.retry = BhAfter(bh.now, r)
  BY <1>1, <1>5 DEF BhWaits
<1>8. CASE b.pending /\ BhDeadlineDue(b.now, b.deadline)
  <2>1. BhRead(b) BY <1>6, <1>8
  <2>2. /\ bh' \in BhContexts /\ bhQuiet' \in Nat /\ bhFailures' \in 0 .. BhCount
        /\ bh'.booted = b.booted
        /\ ~bh'.failed => BhWaits(bh', bhQuiet', bhFailures')
    BY <1>1, <1>5, <1>7, <2>1, BhReadKeeps
  <2>3. BhInv' BY <1>1, <1>5, <1>6, <2>2 DEF BhInv
  <2>4. bhFailures = 0 BY <1>7, <1>8
  <2> QED BY <2>3, <2>4
<1>9. CASE b.pending /\ ~BhDeadlineDue(b.now, b.deadline)
  <2>1. bh' = b /\ bhQuiet' = bhQuiet + 1 /\ bhFailures' = bhFailures BY <1>6, <1>9
  <2>2. BhWaits(b, bhQuiet + 1, bhFailures) BY <1>7, <1>9 DEF BhWaits
  <2>3. bhQuiet + 1 \in Nat BY <1>1
  <2>4. BhInv' BY <1>1, <1>5, <1>6, <2>1, <2>2, <2>3 DEF BhInv
  <2>5. bhFailures = 0 BY <1>7, <1>9
  <2> QED BY <2>4, <2>5
<1>10. CASE ~b.pending
  <2>1. /\ bhFailures > 0
        /\ \E r \in 1 .. BhLimit : r + bhQuiet = b.backoff /\ b.retry = BhAfter(bh.now, r)
    BY <1>7, <1>10
  <2>2. PICK r \in 1 .. BhLimit : r + bhQuiet = b.backoff /\ b.retry = BhAfter(bh.now, r)
    BY <2>1
  <2>3. /\ BhDeadlineDue(k, b.retry) <=> r = 1
        /\ r # 1 => r - 1 \in 1 .. BhLimit /\ b.retry = BhAfter(k, r - 1)
    BY <1>2, <1>3, <2>2, BhClock
  <2>4. b.backoff > 0 /\ BhLong(b.backoff, bhFailures)
    BY <1>7, <2>1, BhSizes DEF BhPaid
  <2>5. BhRetryDue(b) <=> r = 1
    <3>1. b.backoff # 0 BY <2>4
    <3> QED BY <1>5, <2>3, <3>1 DEF BhRetryDue
  <2>6. CASE r = 1
    <3>1. BhStart(b) BY <1>6, <1>10, <2>5, <2>6
    <3>2. /\ bh' \in BhContexts /\ bhQuiet' \in Nat /\ bhFailures' \in 0 .. BhCount
          /\ bh'.booted = b.booted
          /\ BhWaits(bh', bhQuiet', bhFailures')
      BY <1>1, <1>5, <1>7, <3>1, BhStartKeeps
    <3>3. BhInv' BY <1>1, <1>5, <1>6, <3>2 DEF BhInv
    <3>4. bhQuiet + 1 = b.backoff BY <1>1, <2>2, <2>6
    <3> QED BY <2>4, <3>3, <3>4 DEF BhLong
  <2>7. CASE r # 1
    <3>1. bh' = b /\ bhQuiet' = bhQuiet + 1 /\ bhFailures' = bhFailures
      BY <1>6, <1>10, <2>5, <2>7
    <3>2. PICK q \in 1 .. BhLimit : q = r - 1 /\ b.retry = BhAfter(b.now, q)
      BY <1>5, <2>3, <2>7
    <3>3. q + (bhQuiet + 1) = b.backoff BY <1>1, <2>2, <3>2, BhSizes
    <3>4. BhWaits(b, bhQuiet + 1, bhFailures)
      BY <1>7, <1>10, <2>1, <3>2, <3>3 DEF BhWaits
    <3>5. bhQuiet + 1 \in Nat /\ bhQuiet + 1 # 0 BY <1>1
    <3>6. BhInv' BY <1>1, <1>5, <1>6, <3>1, <3>4, <3>5 DEF BhInv
    <3> QED BY <3>1, <3>5, <3>6
  <2> QED BY <2>6, <2>7
<1> QED BY <1>8, <1>9, <1>10

\* The sensor's actor keeps its invariant.
LEMMA BhKeeps == ASSUME BhInv, [BhNext]_bhVars PROVE BhInv'
<1>1. CASE BhBoot BY <1>1, BhBootKeeps
<1>2. CASE BhTick BY <1>2, BhTickKeeps
<1>3. CASE BhPlug
  <2>1. bhAnswers' \in BOOLEAN /\ bh' = bh /\ bhQuiet' = bhQuiet /\ bhFailures' = bhFailures
    BY <1>3 DEF BhPlug
  <2> QED BY <2>1 DEF BhInv, BhWaits
<1>4. CASE BhRestart
  <2>1. bh' = BhFresh /\ bhQuiet' = 0 /\ bhFailures' = 0 /\ bhAnswers' = bhAnswers
    BY <1>4 DEF BhRestart
  <2>2. BhFresh \in BhContexts /\ BhFresh.booted = FALSE /\ BhFresh.backoff = 0
    BY BhSizes DEF BhFresh, BhContexts
  <2> QED BY <2>1, <2>2, BhSizes DEF BhInv
<1>5. CASE UNCHANGED bhVars
  <2>1. bh' = bh /\ bhAnswers' = bhAnswers /\ bhQuiet' = bhQuiet /\ bhFailures' = bhFailures
    BY <1>5 DEF bhVars
  <2> QED BY <2>1 DEF BhInv, BhWaits
<1> QED BY <1>1, <1>2, <1>3, <1>4, <1>5 DEF BhNext

\* The sensor's invariant holds.
LEMMA BhInvHolds == BhInit /\ [][BhNext]_bhVars => []BhInv
<1>1. BhInit => BhInv
  <2> SUFFICES ASSUME BhInit PROVE BhInv OBVIOUS
  <2>1. bh = BhFresh /\ bhAnswers = TRUE /\ bhQuiet = 0 /\ bhFailures = 0 BY DEF BhInit
  <2>2. BhFresh \in BhContexts /\ BhFresh.booted = FALSE /\ BhFresh.backoff = 0
    BY BhSizes DEF BhFresh, BhContexts
  <2> QED BY <2>1, <2>2, BhSizes DEF BhInv
<1>2. BhInv /\ [BhNext]_bhVars => BhInv' BY BhKeeps
<1> QED BY <1>1, <1>2, PTL

\* No step uses the bus too early.
LEMMA BhNeverEarly ==
  ASSUME BhInv, [BhNext]_bhVars
  PROVE  [bhFailures > 0 /\ bh'.now # bh.now /\ bh'.booted /\ bhQuiet' = 0 =>
            \/ bhQuiet + 1 >= BhDoubled[bhFailures - 1]
            \/ bhQuiet + 1 >= BhLimit]_bhVars
<1>1. CASE BhBoot
  <2>1. bhFailures = 0 BY <1>1 DEF BhInv, BhBoot
  <2> QED BY <2>1
<1>2. CASE BhTick BY <1>2, BhTickKeeps
<1>3. CASE BhPlug BY <1>3 DEF BhPlug
<1>4. CASE BhRestart
  <2>1. bh'.booted = FALSE BY <1>4 DEF BhRestart, BhFresh
  <2> QED BY <2>1
<1>5. CASE UNCHANGED bhVars BY <1>5
<1> QED BY <1>1, <1>2, <1>3, <1>4, <1>5 DEF BhNext

\* The sensor is one of the actors.
LEMMA BhRuns == Spec => BhInit /\ [][BhNext]_bhVars
<1>1. Init => BhInit BY DEF Init
<1>2. [Next]_actorsVars => [BhNext]_bhVars BY DEF Next, actorsVars
<1> QED BY <1>1, <1>2, PTL DEF Spec

\* After k failures in a row the bus is left alone for the initial delay doubled
\* k - 1 times, or for the longest delay: for every delay, limit and width of the
\* actor's clock that has room for them, in whichever of powering on, starting and
\* reading the sensor failed (ev_bh1750_actor.c).
THEOREM RetriesAreSpaced == Spec => BackoffIsKept
<1>1. BhInv /\ [BhNext]_bhVars =>
        [bhFailures > 0 /\ bh'.now # bh.now /\ bh'.booted /\ bhQuiet' = 0 =>
           \/ bhQuiet + 1 >= BhDoubled[bhFailures - 1]
           \/ bhQuiet + 1 >= BhLimit]_bhVars
  BY BhNeverEarly
<1> QED BY <1>1, BhInvHolds, BhRuns, PTL DEF BackoffIsKept

-----------------------------------------------------------------------------
(* The clock: the calendar. *)

\* The ranges of years, months and two-digit numbers.
RtcYearRange == 1970 .. 2099
RtcMonthRange == 1 .. 12
RtcSixty == 0 .. 59
RtcHundred == 0 .. 99

\* Until 2100 every fourth year is a leap year.
RtcLeapYear(y) == IF y % 4 = 0 THEN 1 ELSE 0

\* The program's rule for leap years is the chip's.
LEMMA RtcLeap ==
  \A y \in 1970 .. 2099 : ev_rtc_actor_is_leap_year(y) <=> y % 4 = 0
<1> SUFFICES ASSUME NEW y \in 1970 .. 2099
             PROVE  ev_rtc_actor_is_leap_year(y) <=> y % 4 = 0
  OBVIOUS
<1>1. y % 100 = 0 => y = 2000 OBVIOUS
<1>2. y % 400 = 0 => y % 4 = 0 OBVIOUS
<1>3. 2000 % 400 = 0 /\ 2000 % 4 = 0 OBVIOUS
<1> QED BY <1>1, <1>2, <1>3 DEF ev_rtc_actor_is_leap_year

\* The leap years before a year.
LEMMA RtcLeapsCounted ==
  \A y \in 1970 .. 2098 :
    ((y + 1) - 1969) \div 4 = (y - 1969) \div 4 + RtcLeapYear(y)
  BY DEF RtcLeapYear

RtcYearDays(y) == IF ev_rtc_actor_is_leap_year(y) THEN 366 ELSE 365

\* The first loop of ev_rtc_actor_build_unix_time.
RtcYears(y) ==
  CHOOSE years : years = [i \in 1970 .. y |->
    IF i = 1970 THEN 0
    ELSE years[i - 1] + IF ev_rtc_actor_is_leap_year(i - 1) THEN 366 ELSE 365]

\* The second.
RtcMonths(y, m) ==
  CHOOSE months : months = [i \in 1 .. m |->
    IF i = 1 THEN 0 ELSE months[i - 1] + ev_rtc_actor_days_in_month(y, i - 1)]

\* The days before a date are what the two loops return.
LEMMA RtcLoops ==
  \A y, m : RtcDaysBefore(y, m) = RtcYears(y)[y] + RtcMonths(y, m)[m]
  BY DEF RtcDaysBefore, RtcYears, RtcMonths

\* A loop that adds D[b], D[b + 1] and so on.
RtcAdds(f, b, n, D) == f = [i \in b .. n |-> IF i = b THEN 0 ELSE f[i - 1] + D[i - 1]]

\* Such a loop exists, starts at 0 and adds its step.
LEMMA RtcAddsUp ==
  ASSUME NEW b \in Nat, NEW n \in Nat, b <= n, NEW D \in [Nat -> Int]
  PROVE  /\ \E f : RtcAdds(f, b, n, D)
         /\ \A g : RtcAdds(g, b, n, D) =>
              g[b] = 0 /\ \A i \in b + 1 .. n : g[i] = g[i - 1] + D[i - 1]
<1> DEFINE F == [i \in Nat |-> [v \in Int |-> v + IF i = 0 THEN 0 ELSE D[i - 1]]]
<1>1. F \in [Nat -> [Int -> Int]]
  <2>1. \A i \in Nat : i # 0 => D[i - 1] \in Int OBVIOUS
  <2> QED BY <2>1
<1>2. \A i \in Nat : i # 0 => \A v \in Int : F[i][v] = v + D[i - 1] OBVIOUS
<1> HIDE DEF F
<1>3. \E f : RtcAdds(f, b, n, D)
  <2>1. PICK f \in [b .. n -> Int] : LoopSteps(f, b, n, F) BY <1>1, LoopExists
  <2>2. ASSUME NEW i \in b .. n
        PROVE  f[i] = IF i = b THEN 0 ELSE f[i - 1] + D[i - 1]
    <3>1. f[i] = IF i = b THEN 0 ELSE F[i][f[i - 1]] BY <2>1 DEF LoopSteps
    <3>2. CASE i # b
      <4>1. i \in Nat /\ i # 0 /\ i - 1 \in b .. n BY <3>2
      <4>2. f[i - 1] \in Int BY <4>1
      <4> QED BY <1>2, <3>1, <3>2, <4>1, <4>2
    <3> QED BY <3>1, <3>2
  <2>3. f = [i \in b .. n |-> f[i]] OBVIOUS
  <2> QED BY <2>2, <2>3 DEF RtcAdds
<1>4. ASSUME NEW g, RtcAdds(g, b, n, D)
      PROVE  g[b] = 0 /\ \A i \in b + 1 .. n : g[i] = g[i - 1] + D[i - 1]
  <2>1. \A i \in b .. n : g[i] = IF i = b THEN 0 ELSE g[i - 1] + D[i - 1]
    BY <1>4 DEF RtcAdds
  <2>2. b \in b .. n /\ \A i \in b + 1 .. n : i \in b .. n /\ i # b OBVIOUS
  <2> QED BY <2>1, <2>2
<1> QED BY <1>3, <1>4

\* What the first loop computes.
LEMMA RtcYearsAre ==
  ASSUME NEW y \in RtcYearRange
  PROVE  RtcYears(y)[y] = 365 * (y - 1970) + ((y - 1969) \div 4)
<1>1. y \in 1970 .. 2099 BY DEF RtcYearRange
<1>2. PICK g : g = RtcYears(y) OBVIOUS
<1> DEFINE D == [i \in Nat |-> RtcYearDays(i)]
<1>3. D \in [Nat -> Int] /\ \A i \in Nat : D[i] = RtcYearDays(i) BY DEF RtcYearDays
<1> HIDE DEF D
<1>4. PICK b \in Nat, n \in Nat : b = 1970 /\ n = y /\ b <= n BY <1>1
<1> DEFINE Steps(f) ==
      f = [i \in b .. n |-> IF i = b THEN 0 ELSE f[i - 1] + RtcYearDays(i - 1)]
<1>5. g = CHOOSE f : Steps(f) BY <1>2, <1>4 DEF RtcYears, RtcYearDays
<1>6. \A f : RtcAdds(f, b, n, D) <=> Steps(f)
  <2>1. \A i \in b .. n : i # b => D[i - 1] = RtcYearDays(i - 1) BY <1>3
  <2> QED BY <2>1 DEF RtcAdds
<1> HIDE DEF Steps
<1>7. b \in Nat /\ n \in Nat /\ b <= n BY <1>4
<1>8. \E f : RtcAdds(f, b, n, D) BY <1>3, <1>7, RtcAddsUp
<1>9. RtcAdds(g, b, n, D) BY <1>5, <1>6, <1>8
<1>10. g[b] = 0 /\ \A i \in b + 1 .. n : g[i] = g[i - 1] + D[i - 1]
  BY <1>3, <1>4, <1>9, RtcAddsUp
<1>11. g[1970] = 0 /\ \A i \in 1971 .. y : g[i] = g[i - 1] + RtcYearDays(i - 1)
  <2>1. \A i \in 1971 .. y : i - 1 \in Nat /\ i \in b + 1 .. n BY <1>1, <1>4
  <2> QED BY <1>3, <1>4, <1>10, <2>1
<1> DEFINE S == {k \in Nat : 1970 + k <= y =>
                   g[1970 + k] = 365 * k + ((1970 + k - 1969) \div 4)}
<1>12. 0 \in S BY <1>11
<1>13. ASSUME NEW k \in S PROVE k + 1 \in S
  <2>1. SUFFICES ASSUME 1970 + (k + 1) <= y
                 PROVE  g[1970 + (k + 1)]
                          = 365 * (k + 1) + ((1970 + (k + 1) - 1969) \div 4)
    OBVIOUS
  <2>2. PICK z \in 1970 .. 2098 : z = 1970 + k /\ z + 1 \in 1971 .. y BY <1>1, <2>1
  <2>3. g[z] = 365 * k + ((z - 1969) \div 4)
    <3>1. k \in Nat /\ 1970 + k <= y BY <1>1, <2>1
    <3>2. g[1970 + k] = 365 * k + ((1970 + k - 1969) \div 4) BY <3>1
    <3> QED BY <2>2, <3>2
  <2>4. g[z + 1] = g[z] + RtcYearDays(z)
    <3>1. PICK i \in 1971 .. y : i = z + 1 /\ i - 1 = z BY <2>2
    <3> QED BY <1>11, <3>1
  <2>5. RtcYearDays(z) = 365 + RtcLeapYear(z)
    BY RtcLeap DEF RtcYearDays, RtcLeapYear
  <2>6. ((z + 1) - 1969) \div 4 = (z - 1969) \div 4 + RtcLeapYear(z) BY RtcLeapsCounted
  <2>7. RtcLeapYear(z) \in Int /\ (z - 1969) \div 4 \in Int BY DEF RtcLeapYear
  <2>8. g[z + 1] = 365 * (k + 1) + (((z + 1) - 1969) \div 4)
    <3>1. PICK q, r, l : /\ q = (z - 1969) \div 4 /\ r = ((z + 1) - 1969) \div 4
                         /\ l = RtcLeapYear(z)
      OBVIOUS
    <3>2. q \in Int /\ l \in Int /\ k \in Nat BY <2>7, <3>1
    <3>3. g[z + 1] = 365 * k + q + (365 + l) /\ r = q + l
      BY <2>3, <2>4, <2>5, <2>6, <3>1
    <3>4. g[z + 1] = 365 * (k + 1) + r BY <3>2, <3>3
    <3> QED BY <3>1, <3>4
  <2>9. z + 1 = 1970 + (k + 1) BY <2>2
  <2> QED BY <2>8, <2>9
<1>14. S \in SUBSET Nat OBVIOUS
<1> HIDE DEF S
<1>15. Nat \subseteq S BY <1>12, <1>13, <1>14, NaturalsBySteps
<1>16. y - 1970 \in S /\ 1970 + (y - 1970) = y BY <1>1, <1>15
<1>17. g[y] = 365 * (y - 1970) + ((y - 1969) \div 4) BY <1>1, <1>16 DEF S
<1> QED BY <1>2, <1>17

\* The days of the months before m in a year that is a leap year or not.
RtcMonthStarts == <<0, 31, 59, 90, 120, 151, 181, 212, 243, 273, 304, 334>>
RtcOffset(y, m) == RtcMonthStarts[m] + (IF m > 2 /\ y % 4 = 0 THEN 1 ELSE 0)

\* The program's months.
LEMMA RtcMonthDays ==
  ASSUME NEW y \in 1970 .. 2099
  PROVE  /\ ev_rtc_actor_days_in_month(y, 1) = 31
         /\ ev_rtc_actor_days_in_month(y, 2) = 28 + RtcLeapYear(y)
         /\ ev_rtc_actor_days_in_month(y, 3) = 31
         /\ ev_rtc_actor_days_in_month(y, 4) = 30
         /\ ev_rtc_actor_days_in_month(y, 5) = 31
         /\ ev_rtc_actor_days_in_month(y, 6) = 30
         /\ ev_rtc_actor_days_in_month(y, 7) = 31
         /\ ev_rtc_actor_days_in_month(y, 8) = 31
         /\ ev_rtc_actor_days_in_month(y, 9) = 30
         /\ ev_rtc_actor_days_in_month(y, 10) = 31
         /\ ev_rtc_actor_days_in_month(y, 11) = 30
         /\ ev_rtc_actor_days_in_month(y, 12) = 31
<1>1. ev_rtc_actor_is_leap_year(y) <=> RtcLeapYear(y) = 1 BY RtcLeap DEF RtcLeapYear
<1>2. RtcLeapYear(y) \in {0, 1} BY DEF RtcLeapYear
<1> QED BY <1>1, <1>2 DEF ev_rtc_actor_days_in_month

\* A month starts where the one before ends.
LEMMA RtcOffsets ==
  ASSUME NEW y \in RtcYearRange
  PROVE  /\ \A m \in RtcMonthRange : RtcOffset(y, m) \in Nat
                               /\ ev_rtc_actor_days_in_month(y, m) \in 28 .. 31
         /\ RtcOffset(y, 1) = 0
         /\ \A m \in RtcMonthRange : m # 12 =>
              RtcOffset(y, m + 1) = RtcOffset(y, m) + ev_rtc_actor_days_in_month(y, m)
         /\ RtcOffset(y, 12) + 31 = 365 + RtcLeapYear(y)
<1>1. y \in 1970 .. 2099 BY DEF RtcYearRange
<1>2. RtcLeapYear(y) \in {0, 1} /\ (y % 4 = 0 <=> RtcLeapYear(y) = 1)
  BY <1>1 DEF RtcLeapYear
<1>3. PICK l \in {0, 1} : l = RtcLeapYear(y) BY <1>2
<1>4. /\ RtcOffset(y, 1) = 0 /\ RtcOffset(y, 2) = 31 /\ RtcOffset(y, 3) = 59 + l
      /\ RtcOffset(y, 4) = 90 + l /\ RtcOffset(y, 5) = 120 + l /\ RtcOffset(y, 6) = 151 + l
  BY <1>2, <1>3 DEF RtcOffset, RtcMonthStarts
<1>5. /\ RtcOffset(y, 7) = 181 + l /\ RtcOffset(y, 8) = 212 + l /\ RtcOffset(y, 9) = 243 + l
      /\ RtcOffset(y, 10) = 273 + l /\ RtcOffset(y, 11) = 304 + l
      /\ RtcOffset(y, 12) = 334 + l
  BY <1>2, <1>3 DEF RtcOffset, RtcMonthStarts
<1>6. \A m \in RtcMonthRange : m \in {1, 2, 3, 4, 5, 6, 7, 8, 9, 10, 11, 12}
  BY DEF RtcMonthRange
<1>7. ASSUME NEW m \in RtcMonthRange
      PROVE  RtcOffset(y, m) \in Nat /\ ev_rtc_actor_days_in_month(y, m) \in 28 .. 31
  BY <1>1, <1>3, <1>4, <1>5, <1>6, RtcMonthDays
<1>8. ASSUME NEW m \in RtcMonthRange, m # 12
      PROVE  RtcOffset(y, m + 1) = RtcOffset(y, m) + ev_rtc_actor_days_in_month(y, m)
  <2>1. m \in 1 .. 11 BY <1>8 DEF RtcMonthRange
  <2>2. m \in {1, 2, 3, 4, 5, 6, 7, 8, 9, 10, 11} BY <2>1
  <2> QED BY <1>1, <1>3, <1>4, <1>5, <2>2, RtcMonthDays
<1> QED BY <1>3, <1>4, <1>5, <1>7, <1>8

\* What the second loop computes.
LEMMA RtcMonthsAre ==
  ASSUME NEW y \in RtcYearRange, NEW m \in RtcMonthRange
  PROVE  RtcMonths(y, m)[m] = RtcOffset(y, m)
<1>1. m \in 1 .. 12 BY DEF RtcMonthRange
<1>2. PICK g : g = RtcMonths(y, m) OBVIOUS
<1> DEFINE D == [i \in Nat |-> IF i \in RtcMonthRange THEN ev_rtc_actor_days_in_month(y, i) ELSE 0]
<1>3. /\ D \in [Nat -> Int]
      /\ \A i \in RtcMonthRange : D[i] = ev_rtc_actor_days_in_month(y, i)
  <2>1. \A i \in RtcMonthRange : ev_rtc_actor_days_in_month(y, i) \in 28 .. 31
    BY RtcOffsets
  <2>2. \A i \in RtcMonthRange : i \in Nat BY DEF RtcMonthRange
  <2> QED BY <2>1, <2>2
<1> HIDE DEF D
<1>4. PICK b \in Nat, n \in Nat : b = 1 /\ n = m /\ b <= n BY <1>1
<1> DEFINE Steps(f) == f = [i \in b .. n |->
             IF i = b THEN 0 ELSE f[i - 1] + ev_rtc_actor_days_in_month(y, i - 1)]
<1>5. g = CHOOSE f : Steps(f) BY <1>2, <1>4 DEF RtcMonths
<1>6. \A f : RtcAdds(f, b, n, D) <=> Steps(f)
  <2>1. \A i \in b .. n : i # b => D[i - 1] = ev_rtc_actor_days_in_month(y, i - 1)
    <3>1. \A i \in b .. n : i # b => i - 1 \in RtcMonthRange
      BY <1>1, <1>4 DEF RtcMonthRange
    <3> QED BY <1>3, <3>1
  <2> QED BY <2>1 DEF RtcAdds
<1> HIDE DEF Steps
<1>7. \E f : RtcAdds(f, b, n, D) BY <1>3, <1>4, RtcAddsUp
<1>8. RtcAdds(g, b, n, D) BY <1>5, <1>6, <1>7
<1>9. g[b] = 0 /\ \A i \in b + 1 .. n : g[i] = g[i - 1] + D[i - 1]
  BY <1>3, <1>4, <1>8, RtcAddsUp
<1>10. /\ g[1] = 0
       /\ \A k \in Nat : k + 1 < m => g[k + 2] = g[k + 1] + D[k + 1]
  <2>1. ASSUME NEW k \in Nat, k + 1 < m PROVE g[k + 2] = g[k + 1] + D[k + 1]
    <3>1. PICK i \in b + 1 .. n : i = k + 2 /\ i - 1 = k + 1 BY <1>1, <1>4, <2>1
    <3> QED BY <1>9, <3>1
  <2> QED BY <1>4, <1>9, <2>1
<1> DEFINE S == {k \in Nat : k + 1 <= m => g[k + 1] = RtcOffset(y, k + 1)}
<1>11. 0 \in S
  <2>1. RtcOffset(y, 1) = 0 BY RtcOffsets
  <2> QED BY <1>10, <2>1
<1>12. ASSUME NEW k \in S PROVE k + 1 \in S
  <2>1. SUFFICES ASSUME (k + 1) + 1 <= m
                 PROVE  g[(k + 1) + 1] = RtcOffset(y, (k + 1) + 1)
    OBVIOUS
  <2>2. PICK i : i = k + 1 OBVIOUS
  <2>3. k \in Nat /\ k + 1 < m /\ k + 2 = i + 1 /\ i \in RtcMonthRange /\ i # 12
    BY <1>1, <2>1, <2>2 DEF RtcMonthRange
  <2>4. g[i] = RtcOffset(y, i) BY <1>1, <2>2, <2>3
  <2>5. g[i + 1] = g[i] + D[i]
    <3>1. g[k + 2] = g[k + 1] + D[k + 1] BY <1>10, <2>3
    <3> QED BY <2>2, <2>3, <3>1
  <2>6. D[i] = ev_rtc_actor_days_in_month(y, i) BY <1>3, <2>3
  <2>7. RtcOffset(y, i + 1) = RtcOffset(y, i) + ev_rtc_actor_days_in_month(y, i)
    BY <2>3, RtcOffsets
  <2>8. g[i + 1] = RtcOffset(y, i + 1) BY <2>4, <2>5, <2>6, <2>7
  <2> QED BY <2>2, <2>8
<1>13. S \in SUBSET Nat OBVIOUS
<1> HIDE DEF S
<1>14. Nat \subseteq S BY <1>11, <1>12, <1>13, NaturalsBySteps
<1>15. m - 1 \in S /\ (m - 1) + 1 = m BY <1>1, <1>14
<1>16. g[m] = RtcOffset(y, m) BY <1>1, <1>15 DEF S
<1> QED BY <1>2, <1>16

\* The parts of a date of this century.
RtcDays(t) ==
  365 * (t.year - 1970) + ((t.year - 1969) \div 4) + RtcOffset(t.year, t.month) + t.day - 1

\* The fields of a date, and its seconds by days.
LEMMA RtcDateFields ==
  ASSUME NEW t \in RtcDates
  PROVE  /\ t.year \in 2000 .. 2099 /\ t.year \in RtcYearRange
         /\ t.month \in 1 .. 12 /\ t.month \in RtcMonthRange /\ t.day \in 1 .. 31
         /\ t.hours \in 0 .. 23 /\ t.minutes \in 0 .. 59 /\ t.seconds \in 0 .. 59
         /\ t.day <= ev_rtc_actor_days_in_month(t.year, t.month)
         /\ ev_rtc_actor_days_in_month(t.year, t.month) \in 28 .. 31
         /\ ev_rtc_actor_payload_is_valid(t)
         /\ t = [year |-> t.year, month |-> t.month, day |-> t.day, hours |-> t.hours,
                 minutes |-> t.minutes, seconds |-> t.seconds]
         /\ RtcDays(t) \in Int
         /\ RtcCalendar(t)
              = ((RtcDays(t) * 24 + t.hours) * 60 + t.minutes) * 60 + t.seconds
<1>1. /\ t \in [year : 2000 .. 2099, month : 1 .. 12, day : 1 .. 31,
                hours : 0 .. 23, minutes : 0 .. 59, seconds : 0 .. 59]
      /\ ev_rtc_actor_payload_is_valid(t)
  BY DEF RtcDates
<1>2. /\ t.year \in 2000 .. 2099 /\ t.year \in RtcYearRange
      /\ t.month \in 1 .. 12 /\ t.month \in RtcMonthRange /\ t.day \in 1 .. 31
      /\ t.hours \in 0 .. 23 /\ t.minutes \in 0 .. 59 /\ t.seconds \in 0 .. 59
  BY <1>1 DEF RtcYearRange, RtcMonthRange
<1>3. t = [year |-> t.year, month |-> t.month, day |-> t.day, hours |-> t.hours,
           minutes |-> t.minutes, seconds |-> t.seconds]
  BY <1>1
<1>4. ev_rtc_actor_days_in_month(t.year, t.month) \in 28 .. 31 BY <1>2, RtcOffsets
<1>5. t.day <= ev_rtc_actor_days_in_month(t.year, t.month)
  <2>1. t.day \in 1 .. ev_rtc_actor_days_in_month(t.year, t.month)
    BY <1>1 DEF ev_rtc_actor_payload_is_valid
  <2> QED BY <1>4, <2>1
<1>6. RtcDays(t) \in Int
  <2>1. PICK o \in Nat : o = RtcOffset(t.year, t.month) BY <1>2, RtcOffsets
  <2>2. PICK q \in Int : q = (t.year - 1969) \div 4 BY <1>2
  <2>3. RtcDays(t) = 365 * (t.year - 1970) + q + o + t.day - 1 BY <2>1, <2>2 DEF RtcDays
  <2> QED BY <1>2, <2>3
<1>7. RtcCalendar(t) = ((RtcDays(t) * 24 + t.hours) * 60 + t.minutes) * 60 + t.seconds
  <2>1. PICK s, l, q, y :
          /\ s = RtcMonthStarts[t.month]
          /\ l = IF t.month > 2 /\ t.year % 4 = 0 THEN 1 ELSE 0
          /\ q = (t.year - 1969) \div 4 /\ y = 365 * (t.year - 1970)
    OBVIOUS
  <2>2. RtcCalendar(t)
          = (((y + q + s + l + t.day - 1) * 24 + t.hours) * 60 + t.minutes) * 60 + t.seconds
    BY <2>1 DEF RtcCalendar, RtcMonthStarts
  <2>3. RtcDays(t) = y + q + (s + l) + t.day - 1 BY <2>1 DEF RtcDays, RtcOffset
  <2>4. s \in Int /\ l \in Int /\ q \in Int /\ y \in Int
    <3>1. t.month \in {1, 2, 3, 4, 5, 6, 7, 8, 9, 10, 11, 12} BY <1>2
    <3>2. s \in Int BY <2>1, <3>1 DEF RtcMonthStarts
    <3> QED BY <1>2, <2>1, <3>2
  <2>5. y + q + s + l + t.day - 1 = y + q + (s + l) + t.day - 1 BY <1>2, <2>4
  <2> QED BY <2>2, <2>3, <2>5
<1> QED BY <1>1, <1>2, <1>3, <1>4, <1>5, <1>6, <1>7

\* The program's loops count the seconds of the calendar.
LEMMA RtcBuildsUnixTime ==
  ASSUME NEW t \in RtcDates
  PROVE  ev_rtc_actor_build_unix_time(t) = RtcCalendar(t)
<1>1. t.year \in RtcYearRange /\ t.month \in RtcMonthRange BY RtcDateFields
<1>2. PICK o \in Nat, q \in Int, y \in Int :
        /\ o = RtcOffset(t.year, t.month) /\ q = (t.year - 1969) \div 4
        /\ y = 365 * (t.year - 1970)
  <2>1. RtcOffset(t.year, t.month) \in Nat BY <1>1, RtcOffsets
  <2>2. (t.year - 1969) \div 4 \in Int /\ 365 * (t.year - 1970) \in Int
    BY <1>1 DEF RtcYearRange
  <2> QED BY <2>1, <2>2
<1>3. RtcDaysBefore(t.year, t.month) = (y + q) + o
  BY <1>1, <1>2, RtcLoops, RtcYearsAre, RtcMonthsAre
<1>4. RtcDays(t) = y + q + o + t.day - 1 BY <1>2 DEF RtcDays
<1>5. PICK n \in Int : n = RtcDays(t) BY RtcDateFields
<1>6. t.day \in Int /\ t.hours \in Int /\ t.minutes \in Int /\ t.seconds \in Int
  BY RtcDateFields
<1>7. (y + q) + o + t.day - 1 = n BY <1>4, <1>5
<1>8. ev_rtc_actor_build_unix_time(t)
        = n * 86400 + t.hours * 3600 + t.minutes * 60 + t.seconds
  BY <1>3, <1>7 DEF ev_rtc_actor_build_unix_time
<1>9. RtcCalendar(t) = ((n * 24 + t.hours) * 60 + t.minutes) * 60 + t.seconds
  BY <1>5, RtcDateFields
<1> QED BY <1>6, <1>8, <1>9

-----------------------------------------------------------------------------
(* The clock: the registers. *)

\* Two decimal digits survive, and stay below the bits that mean something else.
LEMMA RtcBcdKept ==
  /\ \A n \in RtcHundred : RtcBcd(n) \in Nat /\ ev_rtc_actor_bcd_to_decimal(RtcBcd(n)) = n
  /\ \A n \in RtcSixty : RtcBcd(n) % 128 = RtcBcd(n)
  /\ \A n \in RtcHundred : n <= 31 => RtcBcd(n) % 64 = RtcBcd(n)
  /\ \A n \in RtcMonthRange : RtcBcd(n) % 32 = RtcBcd(n) /\ RtcBcd(n) < 32
<1>1. ASSUME NEW n \in 0 .. 99
      PROVE  \E a \in 0 .. 9, b \in 0 .. 9 :
               /\ n = 10 * a + b /\ RtcBcd(n) = 16 * a + b
               /\ ev_rtc_actor_bcd_to_decimal(16 * a + b) = 10 * a + b
  <2>1. PICK a \in Int, b \in 0 .. 9 : a = n \div 10 /\ b = n % 10 /\ n = 10 * a + b
    OBVIOUS
  <2>2. a \in 0 .. 9 BY <2>1
  <2>3. (16 * a + b) \div 16 = a /\ (16 * a + b) % 16 = b BY <2>1, <2>2
  <2>4. RtcBcd(n) = 16 * a + b BY <2>1 DEF RtcBcd
  <2>5. ev_rtc_actor_bcd_to_decimal(16 * a + b) = 10 * a + b
    BY <2>3 DEF ev_rtc_actor_bcd_to_decimal
  <2> QED BY <2>1, <2>2, <2>4, <2>5
<1>2. ASSUME NEW n \in 0 .. 99
      PROVE  RtcBcd(n) \in Nat /\ ev_rtc_actor_bcd_to_decimal(RtcBcd(n)) = n
  BY <1>1
<1>3. ASSUME NEW n \in 0 .. 59 PROVE RtcBcd(n) % 128 = RtcBcd(n)
  <2>1. PICK a \in 0 .. 9, b \in 0 .. 9 : n = 10 * a + b /\ RtcBcd(n) = 16 * a + b
    BY <1>1
  <2>2. 16 * a + b \in 0 .. 127 BY <2>1
  <2> QED BY <2>1, <2>2
<1>4. ASSUME NEW n \in 0 .. 31 PROVE RtcBcd(n) % 64 = RtcBcd(n)
  <2>1. PICK a \in 0 .. 9, b \in 0 .. 9 : n = 10 * a + b /\ RtcBcd(n) = 16 * a + b
    BY <1>1
  <2>2. 16 * a + b \in 0 .. 63 BY <2>1
  <2> QED BY <2>1, <2>2
<1>5. ASSUME NEW n \in 0 .. 12 PROVE RtcBcd(n) % 32 = RtcBcd(n) /\ RtcBcd(n) < 32
  <2>1. PICK a \in 0 .. 9, b \in 0 .. 9 : n = 10 * a + b /\ RtcBcd(n) = 16 * a + b
    BY <1>1
  <2>2. 16 * a + b \in 0 .. 31 BY <2>1
  <2> QED BY <2>1, <2>2
<1>6. /\ \A n \in RtcHundred : n \in 0 .. 99 /\ (n <= 31 => n \in 0 .. 31)
      /\ \A n \in RtcSixty : n \in 0 .. 59
      /\ \A n \in RtcMonthRange : n \in 0 .. 12
  BY DEF RtcHundred, RtcSixty, RtcMonthRange
<1> QED BY <1>2, <1>3, <1>4, <1>5, <1>6

\* The hour is read back in either mode.
RtcHours(h, twelve) ==
  IF twelve THEN 64 + (IF h >= 12 THEN 32 ELSE 0) + RtcBcd(IF h % 12 = 0 THEN 12 ELSE h % 12)
  ELSE RtcBcd(h)

\* The hour read back is the hour written.
LEMMA RtcHoursKept ==
  ASSUME NEW h \in 0 .. 23, NEW twelve \in BOOLEAN
  PROVE  ev_rtc_actor_decode_hours(RtcHours(h, twelve)) = h
<1>1. CASE twelve
  <2>1. PICK k \in 1 .. 12 : k = IF h % 12 = 0 THEN 12 ELSE h % 12 OBVIOUS
  <2>2. k \in RtcMonthRange /\ k \in RtcHundred BY DEF RtcMonthRange, RtcHundred
  <2>3. PICK c \in 0 .. 31 : c = RtcBcd(k) /\ ev_rtc_actor_bcd_to_decimal(c) = k
    <3>1. RtcBcd(k) \in Nat /\ RtcBcd(k) < 32 /\ ev_rtc_actor_bcd_to_decimal(RtcBcd(k)) = k
      BY <2>2, RtcBcdKept
    <3> QED BY <3>1
  <2>4. CASE h >= 12
    <3>1. PICK r \in Nat : r = 64 + 32 + c OBVIOUS
    <3>2. RtcHours(h, twelve) = r BY <1>1, <2>1, <2>3, <2>4, <3>1 DEF RtcHours
    <3>3. (r \div 64) % 2 = 1 /\ (r \div 32) % 2 = 1 /\ r % 32 = c
      <4>1. r \div 64 = 1 /\ r \div 32 = 3 /\ r % 32 = c BY <3>1
      <4> QED BY <4>1
    <3>4. ev_rtc_actor_decode_hours(r) = IF k < 12 THEN k + 12 ELSE k
      BY <2>3, <3>3 DEF ev_rtc_actor_decode_hours
    <3> QED BY <2>1, <2>4, <3>2, <3>4
  <2>5. CASE h < 12
    <3>1. PICK r \in Nat : r = 64 + 0 + c OBVIOUS
    <3>2. RtcHours(h, twelve) = r BY <1>1, <2>1, <2>3, <2>5, <3>1 DEF RtcHours
    <3>3. (r \div 64) % 2 = 1 /\ (r \div 32) % 2 # 1 /\ r % 32 = c
      <4>1. r \div 64 = 1 /\ r \div 32 = 2 /\ r % 32 = c BY <3>1
      <4> QED BY <4>1
    <3>4. ev_rtc_actor_decode_hours(r) = IF k = 12 THEN 0 ELSE k
      BY <2>3, <3>3 DEF ev_rtc_actor_decode_hours
    <3> QED BY <2>1, <2>5, <3>2, <3>4
  <2> QED BY <2>4, <2>5
<1>2. CASE ~twelve
  <2>1. PICK c \in Nat : c = RtcBcd(h) /\ ev_rtc_actor_bcd_to_decimal(c) = h /\ c % 64 = c
    <3>1. h \in RtcHundred /\ h <= 31 BY DEF RtcHundred
    <3>2. /\ RtcBcd(h) \in Nat /\ RtcBcd(h) % 64 = RtcBcd(h)
          /\ ev_rtc_actor_bcd_to_decimal(RtcBcd(h)) = h
      BY <3>1, RtcBcdKept
    <3> QED BY <3>2
  <2>2. RtcHours(h, twelve) = c BY <1>2, <2>1 DEF RtcHours
  <2>3. (c \div 64) % 2 # 1
    <3>1. c < 64 /\ c \div 64 = 0 BY <2>1
    <3> QED BY <3>1
  <2> QED BY <2>1, <2>2, <2>3 DEF ev_rtc_actor_decode_hours
<1> QED BY <1>1, <1>2

\* A date of this century is read back as it is.
LEMMA RtcDateKept ==
  ASSUME NEW t \in RtcDates, NEW twelve \in BOOLEAN
  PROVE  RtcDecode(RtcRegisters(t, twelve)) = t
<1>1. PICK r : r = RtcRegisters(t, twelve) OBVIOUS
<1>2. /\ r.seconds = RtcBcd(t.seconds) /\ r.minutes = RtcBcd(t.minutes)
      /\ r.hours = RtcHours(t.hours, twelve) /\ r.day = RtcBcd(t.day)
      /\ r.month = RtcBcd(t.month) /\ r.year = RtcBcd(t.year - 2000)
  BY <1>1 DEF RtcRegisters, RtcHours
<1>3. /\ t.year - 2000 \in RtcHundred /\ t.month \in RtcMonthRange /\ t.month \in RtcHundred
      /\ t.day \in RtcHundred /\ t.day <= 31 /\ t.hours \in 0 .. 23
      /\ t.minutes \in RtcSixty /\ t.minutes \in RtcHundred
      /\ t.seconds \in RtcSixty /\ t.seconds \in RtcHundred
  <2>1. /\ t.year \in 2000 .. 2099 /\ t.month \in 1 .. 12 /\ t.month \in RtcMonthRange
        /\ t.day \in 1 .. 31 /\ t.hours \in 0 .. 23 /\ t.minutes \in 0 .. 59
        /\ t.seconds \in 0 .. 59
    BY RtcDateFields
  <2> QED BY <2>1 DEF RtcHundred, RtcSixty
<1>4. /\ ev_rtc_actor_bcd_to_decimal(r.seconds % 128) = t.seconds
      /\ ev_rtc_actor_bcd_to_decimal(r.minutes % 128) = t.minutes
  BY <1>2, <1>3, RtcBcdKept
<1>5. ev_rtc_actor_bcd_to_decimal(r.day % 64) = t.day BY <1>2, <1>3, RtcBcdKept
<1>6. ev_rtc_actor_bcd_to_decimal(r.month % 32) = t.month /\ ~(r.month >= 128)
  <2>1. /\ RtcBcd(t.month) \in Nat /\ RtcBcd(t.month) < 32
        /\ RtcBcd(t.month) % 32 = RtcBcd(t.month)
        /\ ev_rtc_actor_bcd_to_decimal(RtcBcd(t.month)) = t.month
    BY <1>3, RtcBcdKept
  <2> QED BY <1>2, <2>1
<1>7. 2000 + ev_rtc_actor_bcd_to_decimal(r.year) = t.year
  <2>1. ev_rtc_actor_bcd_to_decimal(r.year) = t.year - 2000 BY <1>2, <1>3, RtcBcdKept
  <2>2. t.year \in 2000 .. 2099 BY RtcDateFields
  <2> QED BY <2>1, <2>2
<1>8. ev_rtc_actor_decode_hours(r.hours) = t.hours BY <1>2, <1>3, RtcHoursKept
<1>9. RtcDecode(r) = [year |-> t.year, month |-> t.month, day |-> t.day, hours |-> t.hours,
                      minutes |-> t.minutes, seconds |-> t.seconds]
  BY <1>4, <1>5, <1>6, <1>7, <1>8 DEF RtcDecode
<1> QED BY <1>1, <1>9, RtcDateFields

\* A date from its parts.
LEMMA RtcDateMade ==
  ASSUME NEW u,
         u = [seconds |-> u.seconds, minutes |-> u.minutes, hours |-> u.hours,
              day |-> u.day, month |-> u.month, year |-> u.year],
         u.year \in 2000 .. 2099, u.month \in 1 .. 12, u.day \in Nat, u.day # 0,
         u.day <= ev_rtc_actor_days_in_month(u.year, u.month),
         u.hours \in 0 .. 23, u.minutes \in 0 .. 59, u.seconds \in 0 .. 59
  PROVE  u \in RtcDates
<1>1. PICK last \in 28 .. 31 : last = ev_rtc_actor_days_in_month(u.year, u.month)
  <2>1. u.year \in RtcYearRange /\ u.month \in RtcMonthRange
    BY DEF RtcYearRange, RtcMonthRange
  <2> QED BY <2>1, RtcOffsets
<1>2. u.day \in 1 .. last /\ u.day \in 1 .. 31 BY <1>1
<1>3. u \in [year : 2000 .. 2099, month : 1 .. 12, day : 1 .. 31,
             hours : 0 .. 23, minutes : 0 .. 59, seconds : 0 .. 59]
  BY <1>2
<1>4. ev_rtc_actor_payload_is_valid(u) BY <1>1, <1>2 DEF ev_rtc_actor_payload_is_valid
<1> QED BY <1>3, <1>4 DEF RtcDates

\* The chip's months have the program's lengths.
RtcLast(t) ==
  IF t.month = 2 THEN (IF t.year % 4 = 0 THEN 29 ELSE 28)
  ELSE IF t.month \in {4, 6, 9, 11} THEN 30 ELSE 31

\* The last day of a month is the same for both.
LEMMA RtcLastIs ==
  ASSUME NEW t \in RtcDates
  PROVE  RtcLast(t) = ev_rtc_actor_days_in_month(t.year, t.month)
<1>1. PICK y \in 1970 .. 2099, m \in {1, 2, 3, 4, 5, 6, 7, 8, 9, 10, 11, 12} :
        y = t.year /\ m = t.month
  <2>1. t.year \in 2000 .. 2099 /\ t.month \in 1 .. 12 BY RtcDateFields
  <2>2. t.month \in {1, 2, 3, 4, 5, 6, 7, 8, 9, 10, 11, 12} BY <2>1
  <2> QED BY <2>1, <2>2
<1>2. PICK l \in {0, 1} : l = RtcLeapYear(y) /\ (y % 4 = 0 <=> l = 1) BY DEF RtcLeapYear
<1>3. RtcLast(t) = IF m = 2 THEN 28 + l ELSE IF m \in {4, 6, 9, 11} THEN 30 ELSE 31
  BY <1>1, <1>2 DEF RtcLast
<1>4. ev_rtc_actor_days_in_month(y, m)
        = IF m = 2 THEN 28 + l ELSE IF m \in {4, 6, 9, 11} THEN 30 ELSE 31
  BY <1>2, RtcMonthDays
<1> QED BY <1>1, <1>3, <1>4

\* The chip's next second is the calendar's.
LEMMA RtcLaterIs ==
  ASSUME NEW t \in RtcDates, RtcThisCentury(RtcLater(t))
  PROVE  /\ RtcLater(t) \in RtcDates
         /\ RtcCalendar(RtcLater(t)) = RtcCalendar(t) + 1
<1> DEFINE u == RtcLater(t)
<1>1. PICK y, m, d, h, n, s, last, days :
        /\ y = t.year /\ m = t.month /\ d = t.day /\ h = t.hours /\ n = t.minutes
        /\ s = t.seconds /\ last = RtcLast(t) /\ days = RtcDays(t)
  OBVIOUS
<1>2. /\ y \in 2000 .. 2099 /\ m \in 1 .. 12 /\ d \in 1 .. 31 /\ h \in 0 .. 23
       /\ n \in 0 .. 59 /\ s \in 0 .. 59 /\ days \in Int
  BY <1>1, RtcDateFields
<1>3. last \in 28 .. 31 BY <1>1, RtcDateFields, RtcLastIs
<1>4. /\ d <= last /\ last = ev_rtc_actor_days_in_month(y, m)
      /\ m \in RtcMonthRange /\ y \in RtcYearRange
  BY <1>1, <1>2, <1>3, RtcDateFields, RtcLastIs DEF RtcYearRange, RtcMonthRange
<1>5. RtcCalendar(t) = ((days * 24 + h) * 60 + n) * 60 + s BY <1>1, RtcDateFields
<1>6. u = [seconds |-> (s + 1) % 60,
           minutes |-> IF s = 59 THEN (n + 1) % 60 ELSE n,
           hours |-> IF s = 59 /\ n = 59 THEN (h + 1) % 24 ELSE h,
           day |-> IF ~(h = 23 /\ n = 59 /\ s = 59) THEN d
                   ELSE IF d = last THEN 1 ELSE d + 1,
           month |-> IF h = 23 /\ n = 59 /\ s = 59 /\ d = last THEN (m % 12) + 1 ELSE m,
           year |-> IF h = 23 /\ n = 59 /\ s = 59 /\ d = last /\ m = 12
                      THEN y + 1 ELSE y]
  BY <1>1 DEF RtcLater, RtcLast
<1> HIDE DEF u
<1>7. ASSUME u \in RtcDates, NEW e \in Int, RtcDays(u) = e,
             ((e * 24 + u.hours) * 60 + u.minutes) * 60 + u.seconds
               = ((days * 24 + h) * 60 + n) * 60 + s + 1
      PROVE  u \in RtcDates /\ RtcCalendar(u) = RtcCalendar(t) + 1
  <2>1. RtcCalendar(u) = ((e * 24 + u.hours) * 60 + u.minutes) * 60 + u.seconds
    BY <1>7, RtcDateFields
  <2> QED BY <1>5, <1>7, <2>1
<1>8. days = 365 * (y - 1970) + ((y - 1969) \div 4) + RtcOffset(y, m) + d - 1
  BY <1>1 DEF RtcDays
<1>9. d \in Nat /\ d # 0 BY <1>2
<1>10. CASE s # 59
  <2>1. s + 1 \in 0 .. 59 /\ (s + 1) % 60 = s + 1 BY <1>2, <1>10
  <2>2. u = [seconds |-> s + 1, minutes |-> n, hours |-> h, day |-> d, month |-> m,
             year |-> y]
    BY <1>6, <1>10, <2>1
  <2>3. ((days * 24 + h) * 60 + n) * 60 + (s + 1) = ((days * 24 + h) * 60 + n) * 60 + s + 1
    BY <1>2
  <2>4. /\ u.year = y /\ u.month = m /\ u.day = d
         /\ u.hours = h /\ u.minutes = n /\ u.seconds = s + 1
    BY <2>2
  <2>5. u = [seconds |-> u.seconds, minutes |-> u.minutes, hours |-> u.hours,
            day |-> u.day, month |-> u.month, year |-> u.year]
    BY <2>2, <2>4
  <2>6. u \in RtcDates
    BY <1>2, <1>4, <1>9, <2>1, <2>5, <2>4, RtcDateMade
  <2>7. RtcDays(u) = days BY <1>8, <2>4 DEF RtcDays
  <2>8. ((days * 24 + u.hours) * 60 + u.minutes) * 60 + u.seconds
           = ((days * 24 + h) * 60 + n) * 60 + s + 1
    BY <2>3, <2>4
  <2> QED BY <1>2, <1>7, <2>6, <2>7, <2>8 DEF u
<1>11. CASE s = 59 /\ n # 59
  <2>1. n + 1 \in 0 .. 59 /\ (n + 1) % 60 = n + 1 /\ (s + 1) % 60 = 0 /\ 0 \in 0 .. 59
    BY <1>2, <1>11
  <2>2. u = [seconds |-> 0, minutes |-> n + 1, hours |-> h, day |-> d, month |-> m,
             year |-> y]
    BY <1>6, <1>11, <2>1
  <2>3. ((days * 24 + h) * 60 + (n + 1)) * 60 + 0 = ((days * 24 + h) * 60 + n) * 60 + s + 1
    BY <1>2, <1>11
  <2>4. /\ u.year = y /\ u.month = m /\ u.day = d
         /\ u.hours = h /\ u.minutes = n + 1 /\ u.seconds = 0
    BY <2>2
  <2>5. u = [seconds |-> u.seconds, minutes |-> u.minutes, hours |-> u.hours,
            day |-> u.day, month |-> u.month, year |-> u.year]
    BY <2>2, <2>4
  <2>6. u \in RtcDates
    BY <1>2, <1>4, <1>9, <2>1, <2>5, <2>4, RtcDateMade
  <2>7. RtcDays(u) = days BY <1>8, <2>4 DEF RtcDays
  <2>8. ((days * 24 + u.hours) * 60 + u.minutes) * 60 + u.seconds
           = ((days * 24 + h) * 60 + n) * 60 + s + 1
    BY <2>3, <2>4
  <2> QED BY <1>2, <1>7, <2>6, <2>7, <2>8 DEF u
<1>12. CASE s = 59 /\ n = 59 /\ h # 23
  <2>1. /\ h + 1 \in 0 .. 23 /\ (h + 1) % 24 = h + 1 /\ (n + 1) % 60 = 0
        /\ (s + 1) % 60 = 0 /\ 0 \in 0 .. 59
    BY <1>2, <1>12
  <2>2. u = [seconds |-> 0, minutes |-> 0, hours |-> h + 1, day |-> d, month |-> m,
             year |-> y]
    BY <1>6, <1>12, <2>1
  <2>3. ((days * 24 + (h + 1)) * 60 + 0) * 60 + 0 = ((days * 24 + h) * 60 + n) * 60 + s + 1
    BY <1>2, <1>12
  <2>4. /\ u.year = y /\ u.month = m /\ u.day = d
         /\ u.hours = h + 1 /\ u.minutes = 0 /\ u.seconds = 0
    BY <2>2
  <2>5. u = [seconds |-> u.seconds, minutes |-> u.minutes, hours |-> u.hours,
            day |-> u.day, month |-> u.month, year |-> u.year]
    BY <2>2, <2>4
  <2>6. u \in RtcDates
    BY <1>2, <1>4, <1>9, <2>1, <2>5, <2>4, RtcDateMade
  <2>7. RtcDays(u) = days BY <1>8, <2>4 DEF RtcDays
  <2>8. ((days * 24 + u.hours) * 60 + u.minutes) * 60 + u.seconds
           = ((days * 24 + h) * 60 + n) * 60 + s + 1
    BY <2>3, <2>4
  <2> QED BY <1>2, <1>7, <2>6, <2>7, <2>8 DEF u
<1>13. CASE s = 59 /\ n = 59 /\ h = 23
  <2>1. /\ (h + 1) % 24 = 0 /\ (n + 1) % 60 = 0 /\ (s + 1) % 60 = 0
        /\ 0 \in 0 .. 59 /\ 0 \in 0 .. 23
    BY <1>13
  <2>2. days + 1 \in Int
        /\ (((days + 1) * 24 + 0) * 60 + 0) * 60 + 0
             = ((days * 24 + h) * 60 + n) * 60 + s + 1
    BY <1>2, <1>13
  <2>3. PICK o \in Nat : o = RtcOffset(y, m) BY <1>4, RtcOffsets
  <2>4. PICK q \in Int : q = (y - 1969) \div 4 BY <1>2
  <2>5. days = 365 * (y - 1970) + q + o + d - 1 BY <1>8, <2>3, <2>4
  <2>6. CASE d # last
    <3>1. u = [seconds |-> 0, minutes |-> 0, hours |-> 0, day |-> d + 1, month |-> m,
               year |-> y]
      BY <1>6, <1>13, <2>1, <2>6
    <3>2. d + 1 \in Nat /\ d + 1 # 0 /\ d + 1 <= last BY <1>2, <1>3, <1>4, <2>6
    <3>3. days + 1 = 365 * (y - 1970) + q + o + (d + 1) - 1 BY <1>2, <2>5
    <3>4. days + 1 = 365 * (y - 1970) + ((y - 1969) \div 4) + RtcOffset(y, m) + (d + 1) - 1
      BY <2>3, <2>4, <3>3
    <3>5. /\ u.year = y /\ u.month = m /\ u.day = d + 1
           /\ u.hours = 0 /\ u.minutes = 0 /\ u.seconds = 0
      BY <3>1
    <3>6. u = [seconds |-> u.seconds, minutes |-> u.minutes, hours |-> u.hours,
              day |-> u.day, month |-> u.month, year |-> u.year]
      BY <3>1, <3>5
    <3>7. u \in RtcDates
      BY <1>2, <1>4, <2>1, <3>2, <3>6, <3>5, RtcDateMade
    <3>8. RtcDays(u) = days + 1 BY <3>4, <3>5 DEF RtcDays
    <3>9. (((days + 1) * 24 + u.hours) * 60 + u.minutes) * 60 + u.seconds
             = ((days * 24 + h) * 60 + n) * 60 + s + 1
      BY <2>2, <3>5
    <3> QED BY <1>7, <2>2, <3>7, <3>8, <3>9 DEF u
  <2>7. CASE d = last /\ m # 12
    <3>1. m + 1 \in 1 .. 12 /\ (m % 12) + 1 = m + 1 /\ m + 1 \in RtcMonthRange
      BY <1>2, <2>7 DEF RtcMonthRange
    <3>2. u = [seconds |-> 0, minutes |-> 0, hours |-> 0, day |-> 1, month |-> m + 1,
               year |-> y]
      BY <1>6, <1>13, <2>1, <2>7, <3>1
    <3>3. PICK p \in Nat : p = RtcOffset(y, m + 1) /\ p = o + last
      BY <1>4, <2>3, <2>7, <3>1, RtcOffsets
    <3>4. days + 1 = 365 * (y - 1970) + q + p + 1 - 1 BY <1>2, <2>5, <2>7, <3>3
    <3>5. days + 1 = 365 * (y - 1970) + ((y - 1969) \div 4) + RtcOffset(y, m + 1) + 1 - 1
      BY <2>4, <3>3, <3>4
    <3>6. 1 <= ev_rtc_actor_days_in_month(y, m + 1)
      <4>1. ev_rtc_actor_days_in_month(y, m + 1) \in 28 .. 31 BY <1>4, <3>1, RtcOffsets
      <4> QED BY <4>1
    <3>7. 1 \in Nat /\ 1 # 0 OBVIOUS
    <3>8. /\ u.year = y /\ u.month = m + 1 /\ u.day = 1
           /\ u.hours = 0 /\ u.minutes = 0 /\ u.seconds = 0
      BY <3>2
    <3>9. u = [seconds |-> u.seconds, minutes |-> u.minutes, hours |-> u.hours,
              day |-> u.day, month |-> u.month, year |-> u.year]
      BY <3>2, <3>8
    <3>10. u \in RtcDates
      BY <1>2, <2>1, <3>1, <3>6, <3>7, <3>9, <3>8, RtcDateMade
    <3>11. RtcDays(u) = days + 1 BY <3>5, <3>8 DEF RtcDays
    <3>12. (((days + 1) * 24 + u.hours) * 60 + u.minutes) * 60 + u.seconds
             = ((days * 24 + h) * 60 + n) * 60 + s + 1
      BY <2>2, <3>8
    <3> QED BY <1>7, <2>2, <3>10, <3>11, <3>12 DEF u
  <2>8. CASE d = last /\ m = 12
    <3>1. (m % 12) + 1 = 1 /\ 1 \in 1 .. 12 /\ 1 \in RtcMonthRange
      BY <2>8 DEF RtcMonthRange
    <3>2. u = [seconds |-> 0, minutes |-> 0, hours |-> 0, day |-> 1, month |-> 1,
               year |-> y + 1]
      BY <1>6, <1>13, <2>1, <2>8, <3>1
    <3>3. y + 1 \in 2000 .. 2099 /\ y \in 1970 .. 2098 /\ y + 1 \in RtcYearRange
      <4>1. u.year = y + 1 BY <3>2
      <4>2. y + 1 < 2100 BY <4>1 DEF u, RtcThisCentury
      <4> QED BY <1>2, <4>2 DEF RtcYearRange
    <3>4. PICK l \in {0, 1} : l = RtcLeapYear(y) BY DEF RtcLeapYear
    <3>5. last = 31 /\ o + 31 = 365 + l
      <4>1. last = 31 BY <1>4, <2>8, <3>3, RtcMonthDays
      <4>2. o + 31 = 365 + l BY <1>4, <2>3, <2>8, <3>4, RtcOffsets
      <4> QED BY <4>1, <4>2
    <3>6. PICK p \in Int : p = ((y + 1) - 1969) \div 4 /\ p = q + l
      BY <2>4, <3>3, <3>4, RtcLeapsCounted
    <3>7. RtcOffset(y + 1, 1) = 0 BY <3>3, RtcOffsets
    <3>8. days + 1 = 365 * ((y + 1) - 1970) + p + 0 + 1 - 1
      BY <1>2, <2>5, <2>8, <3>5, <3>6
    <3>9. days + 1 = 365 * ((y + 1) - 1970) + (((y + 1) - 1969) \div 4)
                       + RtcOffset(y + 1, 1) + 1 - 1
      BY <3>6, <3>7, <3>8
    <3>10. 1 <= ev_rtc_actor_days_in_month(y + 1, 1)
      <4>1. ev_rtc_actor_days_in_month(y + 1, 1) \in 28 .. 31 BY <3>1, <3>3, RtcOffsets
      <4> QED BY <4>1
    <3>11. 1 \in Nat /\ 1 # 0 OBVIOUS
    <3>12. /\ u.year = y + 1 /\ u.month = 1 /\ u.day = 1
           /\ u.hours = 0 /\ u.minutes = 0 /\ u.seconds = 0
      BY <3>2
    <3>13. u = [seconds |-> u.seconds, minutes |-> u.minutes, hours |-> u.hours,
              day |-> u.day, month |-> u.month, year |-> u.year]
      BY <3>2, <3>12
    <3>14. u \in RtcDates
      BY <2>1, <3>1, <3>3, <3>10, <3>11, <3>13, <3>12, RtcDateMade
    <3>15. RtcDays(u) = days + 1 BY <3>9, <3>12 DEF RtcDays
    <3>16. (((days + 1) * 24 + u.hours) * 60 + u.minutes) * 60 + u.seconds
             = ((days * 24 + h) * 60 + n) * 60 + s + 1
      BY <2>2, <3>12
    <3> QED BY <1>7, <2>2, <3>14, <3>15, <3>16 DEF u
  <2> QED BY <2>6, <2>7, <2>8
<1> QED BY <1>10, <1>11, <1>12, <1>13 DEF u

-----------------------------------------------------------------------------
(* The clock: its invariant. *)

RtcContexts ==
  [booted : BOOLEAN, failed : BOOLEAN, sqw_enabled : BOOLEAN, missed : 0 .. RtcFallback,
   time_valid : BOOLEAN, last : Int]
RtcChips ==
  [set : BOOLEAN, twelve : BOOLEAN, sqw : BOOLEAN, date : RtcDates \cup {RtcNoDate}]
RtcDues == [tick : BOOLEAN, irq : BOOLEAN]
RtcShowns == [unix : Int, any : BOOLEAN, failed : BOOLEAN, passed : Nat]

\* The chip has the date of the calendar, once it is on.
RtcOnTime(r, c, u) ==
  /\ c.set => c.date \in RtcDates /\ u = RtcCalendar(c.date)
  /\ ~c.set => ~r.booted
  /\ ~r.booted => ~r.failed /\ ~r.time_valid

\* The time the actor compares with is the one it published.
RtcTold(r, s) == r.time_valid /\ ~r.failed => s.any /\ s.unix = r.last

\* A published time n seconds old: interrupts are missing, but not for so long
\* that the actor polls.  The tick of this second is counted when it is handled.
RtcLagIs(n, tick, missed) ==
  /\ n \in Nat
  /\ tick => n <= 1 \/ (n - 1 <= missed /\ missed < RtcFallback)
  /\ ~tick => n = 0 \/ (n <= missed /\ missed < RtcFallback)

RtcLags(r, msgs, u, s) ==
  r.booted /\ ~s.failed => s.any /\ RtcLagIs(u - s.unix, msgs.tick, r.missed)

\* Messages are sent to an actor that has booted.
RtcAsked(r, msgs) == msgs.tick \/ msgs.irq => r.booted

RtcInv ==
  /\ rtc \in RtcContexts /\ rtcChip \in RtcChips /\ rtcDue \in RtcDues
  /\ rtcUnix \in Int /\ rtcShown \in RtcShowns
  /\ RtcOnTime(rtc, rtcChip, rtcUnix)
  /\ RtcTold(rtc, rtcShown)
  /\ RtcAsked(rtc, rtcDue)
  /\ RtcLags(rtc, rtcDue, rtcUnix, rtcShown)

\* The sizes, apart from their assumption.
LEMMA RtcSizes ==
  /\ RtcFallback \in Nat /\ RtcFallback >= 1 /\ 0 \in 0 .. RtcFallback
  /\ \A start \in RtcStarts :
       start.date \in RtcDates /\ start.unix = RtcCalendar(start.date)
<1>1. RtcFallback \in Nat \ {0} BY RtcAssumption
<1>2. 0 \in 0 .. RtcFallback /\ RtcFallback >= 1 BY <1>1
<1> QED BY <1>1, <1>2, RtcAssumption

\* Seconds are whole.
LEMMA RtcCalendarTyped ==
  ASSUME NEW t \in RtcDates
  PROVE  RtcCalendar(t) \in Int
<1>1. PICK days \in Int : days = RtcDays(t) BY RtcDateFields
<1>2. RtcCalendar(t) = ((days * 24 + t.hours) * 60 + t.minutes) * 60 + t.seconds
  BY <1>1, RtcDateFields
<1>3. t.hours \in Int /\ t.minutes \in Int /\ t.seconds \in Int BY RtcDateFields
<1> QED BY <1>2, <1>3

\* The lag: none after a read, one more when a second passes, counted when the
\* tick of that second finds no reason to poll.
LEMMA RtcLagging ==
  /\ \A tick \in BOOLEAN, k \in 0 .. RtcFallback : RtcLagIs(0, tick, k)
  /\ \A n \in Int, k \in 0 .. RtcFallback : RtcLagIs(n, FALSE, k) => RtcLagIs(n + 1, TRUE, k)
  /\ \A n \in Int, k \in 0 .. RtcFallback :
       k + 1 < RtcFallback /\ RtcLagIs(n, TRUE, k) => RtcLagIs(n, FALSE, k + 1)
  /\ \A tick \in BOOLEAN, n \in Int, k \in 0 .. RtcFallback :
       RtcLagIs(n, tick, k) => 0 <= n /\ n <= RtcFallback
<1>1. ASSUME NEW tick \in BOOLEAN, NEW k \in 0 .. RtcFallback PROVE RtcLagIs(0, tick, k)
  <2>1. CASE tick BY <2>1 DEF RtcLagIs
  <2>2. CASE ~tick BY <2>2 DEF RtcLagIs
  <2> QED BY <2>1, <2>2
<1>2. ASSUME NEW n \in Int, NEW k \in 0 .. RtcFallback, RtcLagIs(n, FALSE, k)
      PROVE  RtcLagIs(n + 1, TRUE, k)
  BY <1>2, RtcSizes DEF RtcLagIs
<1>3. ASSUME NEW n \in Int, NEW k \in 0 .. RtcFallback, k + 1 < RtcFallback,
             RtcLagIs(n, TRUE, k)
      PROVE  RtcLagIs(n, FALSE, k + 1)
  BY <1>3, RtcSizes DEF RtcLagIs
<1>4. ASSUME NEW tick \in BOOLEAN, NEW n \in Int, NEW k \in 0 .. RtcFallback,
             RtcLagIs(n, tick, k)
      PROVE  0 <= n /\ n <= RtcFallback
  <2>1. CASE tick BY <1>4, <2>1, RtcSizes DEF RtcLagIs
  <2>2. CASE ~tick BY <1>4, <2>2, RtcSizes DEF RtcLagIs
  <2> QED BY <2>1, <2>2
<1> QED BY <1>1, <1>2, <1>3, <1>4

\* A read of the chip: published, refused, or failed.
LEMMA RtcRefreshKeeps ==
  ASSUME RtcInv, rtcChip.set, NEW r \in RtcContexts, RtcRefresh(r),
         r.booted, ~r.failed, r.time_valid = rtc.time_valid, r.last = rtc.last, ~rtc.failed,
         rtcDue' \in RtcDues, UNCHANGED <<rtcChip, rtcUnix>>
  PROVE  RtcInv'
<1>1. PICK t, unix : /\ t = RtcDecode(RtcRegisters(rtcChip.date, rtcChip.twelve))
                     /\ unix = ev_rtc_actor_build_unix_time(t)
  OBVIOUS
<1>2. /\ rtcChip.date \in RtcDates /\ rtcUnix = RtcCalendar(rtcChip.date)
      /\ rtcChip.twelve \in BOOLEAN
  BY DEF RtcInv, RtcOnTime, RtcChips
<1>3. t = rtcChip.date BY <1>1, <1>2, RtcDateKept
<1>4. unix = rtcUnix /\ unix \in Int BY <1>1, <1>2, <1>3, RtcBuildsUnixTime DEF RtcInv
<1>5. rtcShown \in RtcShowns /\ RtcTold(rtc, rtcShown) BY DEF RtcInv
<1>6. ASSUME rtc' \in RtcContexts, rtc'.booted, rtcShown' \in RtcShowns,
             RtcTold(rtc, rtcShown)', RtcLags(rtc, rtcDue, rtcUnix, rtcShown)'
      PROVE  RtcInv'
  <2>1. rtcChip' \in RtcChips /\ rtcUnix' \in Int BY DEF RtcInv
  <2>2. RtcOnTime(rtc, rtcChip, rtcUnix)' BY <1>2, <1>6 DEF RtcOnTime
  <2>3. RtcAsked(rtc, rtcDue)' BY <1>6 DEF RtcAsked
  <2> QED BY <1>6, <2>1, <2>2, <2>3 DEF RtcInv
<1>7. CASE rtc' = r /\ rtcShown' = [rtcShown EXCEPT !.failed = TRUE]
  <2>1. /\ rtcShown' \in RtcShowns /\ rtcShown'.failed = TRUE
        /\ rtcShown'.any = rtcShown.any /\ rtcShown'.unix = rtcShown.unix
    BY <1>5, <1>7 DEF RtcShowns
  <2>2. RtcTold(rtc, rtcShown)' BY <1>5, <1>7, <2>1 DEF RtcTold
  <2>3. RtcLags(rtc, rtcDue, rtcUnix, rtcShown)' BY <2>1 DEF RtcLags
  <2> QED BY <1>6, <1>7, <2>1, <2>2, <2>3
<1>8. CASE /\ rtc' = [r EXCEPT !.time_valid = TRUE, !.last = unix]
           /\ rtcShown' = IF r.time_valid /\ r.last = unix
                            THEN [rtcShown EXCEPT !.failed = FALSE]
                            ELSE [rtcShown EXCEPT !.unix = unix, !.any = TRUE,
                                                  !.failed = FALSE]
  <2>1. /\ rtc' \in RtcContexts /\ rtc'.booted /\ rtc'.last = unix
        /\ rtc'.missed \in 0 .. RtcFallback
    BY <1>4, <1>8 DEF RtcContexts
  <2>2. rtcShown' \in RtcShowns /\ rtcShown'.any /\ rtcShown'.unix = unix
    <3>1. CASE r.time_valid /\ r.last = unix
      <4>1. rtcShown.any /\ rtcShown.unix = unix BY <1>5, <3>1 DEF RtcTold
      <4>2. rtcShown' = [rtcShown EXCEPT !.failed = FALSE] BY <1>8, <3>1
      <4> QED BY <1>5, <4>1, <4>2 DEF RtcShowns
    <3>2. CASE ~(r.time_valid /\ r.last = unix)
      <4>1. rtcShown' = [rtcShown EXCEPT !.unix = unix, !.any = TRUE, !.failed = FALSE]
        BY <1>8, <3>2
      <4> QED BY <1>4, <1>5, <4>1 DEF RtcShowns
    <3> QED BY <3>1, <3>2
  <2>3. RtcTold(rtc, rtcShown)' BY <2>1, <2>2 DEF RtcTold
  <2>4. rtcUnix' - rtcShown'.unix = 0 BY <1>4, <2>2
  <2>5. RtcLagIs(0, rtcDue'.tick, rtc'.missed) BY <2>1, RtcLagging DEF RtcDues
  <2>6. RtcLags(rtc, rtcDue, rtcUnix, rtcShown)' BY <2>2, <2>4, <2>5 DEF RtcLags
  <2> QED BY <1>6, <2>1, <2>2, <2>3, <2>6
<1>9. CASE /\ rtc' = [r EXCEPT !.time_valid = TRUE, !.last = unix, !.failed = TRUE]
           /\ rtcShown' = [rtcShown EXCEPT !.failed = TRUE]
  <2>1. rtc' \in RtcContexts /\ rtc'.booted /\ rtc'.failed
    BY <1>4, <1>9 DEF RtcContexts
  <2>2. rtcShown' \in RtcShowns /\ rtcShown'.failed BY <1>5, <1>9 DEF RtcShowns
  <2>3. RtcTold(rtc, rtcShown)' BY <2>1 DEF RtcTold
  <2>4. RtcLags(rtc, rtcDue, rtcUnix, rtcShown)' BY <2>2 DEF RtcLags
  <2> QED BY <1>6, <2>1, <2>2, <2>3, <2>4
<1> QED BY <1>1, <1>7, <1>8, <1>9 DEF RtcRefresh

\* The actor before it boots.
LEMMA RtcFreshTyped ==
  /\ RtcFresh \in RtcContexts /\ ~RtcFresh.booted /\ ~RtcFresh.failed
  /\ ~RtcFresh.time_valid
  BY RtcSizes DEF RtcFresh, RtcContexts

\* Nothing is claimed before the actor boots.
LEMMA RtcStartHolds == RtcInit => RtcInv
<1> SUFFICES ASSUME RtcInit PROVE RtcInv
  OBVIOUS
<1>1. rtc \in RtcContexts /\ ~rtc.booted /\ ~rtc.failed /\ ~rtc.time_valid
  BY RtcFreshTyped DEF RtcInit
<1>2. rtcChip \in RtcChips /\ ~rtcChip.set BY DEF RtcInit, RtcChips
<1>3. rtcDue \in RtcDues /\ rtcUnix \in Int /\ rtcShown \in RtcShowns
  BY DEF RtcInit, RtcDues, RtcShowns
<1>4. RtcAsked(rtc, rtcDue) BY DEF RtcInit, RtcAsked
<1> QED BY <1>1, <1>2, <1>3, <1>4 DEF RtcInv, RtcOnTime, RtcTold, RtcLags

\* The chip starts with a date of the calendar.
LEMMA RtcPowerOnKeeps ==
  ASSUME RtcInv, RtcPowerOn
  PROVE  RtcInv'
<1>1. PICK start \in RtcStarts, twelve \in BOOLEAN :
        /\ rtcChip' = [set |-> TRUE, twelve |-> twelve, sqw |-> FALSE, date |-> start.date]
        /\ rtcUnix' = start.unix
  BY DEF RtcPowerOn
<1>2. UNCHANGED <<rtc, rtcDue, rtcShown>> /\ ~rtcChip.set BY DEF RtcPowerOn
<1>3. start.date \in RtcDates /\ start.unix = RtcCalendar(start.date) BY RtcSizes
<1>4. rtcUnix' \in Int BY <1>1, <1>3, RtcCalendarTyped
<1>5. rtcChip' \in RtcChips /\ rtcChip'.set /\ rtcChip'.date = start.date
  BY <1>1, <1>3 DEF RtcChips
<1>6. ~rtc.booted /\ ~rtc.failed /\ ~rtc.time_valid BY <1>2 DEF RtcInv, RtcOnTime
<1>7. RtcOnTime(rtc, rtcChip, rtcUnix)' BY <1>1, <1>2, <1>3, <1>5, <1>6 DEF RtcOnTime
<1>8. RtcTold(rtc, rtcShown)' /\ RtcLags(rtc, rtcDue, rtcUnix, rtcShown)'
  BY <1>2, <1>6 DEF RtcTold, RtcLags
<1>9. RtcAsked(rtc, rtcDue)' BY <1>2 DEF RtcInv, RtcAsked
<1> QED BY <1>2, <1>4, <1>5, <1>7, <1>8, <1>9 DEF RtcInv

\* Booting reads the chip.
LEMMA RtcBootKeeps ==
  ASSUME RtcInv, RtcBoot
  PROVE  RtcInv'
<1>1. PICK r : r = [rtc EXCEPT !.booted = TRUE] OBVIOUS
<1>2. rtc \in RtcContexts /\ ~rtc.failed BY DEF RtcInv, RtcOnTime, RtcBoot
<1>3. /\ r \in RtcContexts /\ r.booted /\ r.failed = rtc.failed
      /\ r.time_valid = rtc.time_valid /\ r.last = rtc.last
  BY <1>1, <1>2 DEF RtcContexts
<1>4. /\ rtcChip.set /\ RtcRefresh(r) /\ UNCHANGED <<rtcChip, rtcUnix>>
      /\ rtcDue' \in RtcDues
  BY <1>1 DEF RtcBoot, RtcInv
<1> QED BY <1>2, <1>3, <1>4, RtcRefreshKeeps

\* The square wave is enabled, or is not.
LEMMA RtcMcpReadyKeeps ==
  ASSUME RtcInv, RtcMcpReady
  PROVE  RtcInv'
<1>1. PICK b \in BOOLEAN : rtc' = [rtc EXCEPT !.sqw_enabled = b]
  <2>1. PICK written, on \in BOOLEAN : rtc' = [rtc EXCEPT !.sqw_enabled = written /\ on]
    BY DEF RtcMcpReady
  <2>2. PICK b \in BOOLEAN : b = (written /\ on) OBVIOUS
  <2> QED BY <2>1, <2>2
<1>2. PICK b2 \in BOOLEAN : rtcChip' = [rtcChip EXCEPT !.sqw = b2]
  <2>1. PICK written, on \in BOOLEAN :
          rtcChip' = [rtcChip EXCEPT !.sqw = @ \/ (written /\ on)]
    BY DEF RtcMcpReady
  <2>2. PICK b2 \in BOOLEAN : b2 = (rtcChip.sqw \/ (written /\ on)) OBVIOUS
  <2> QED BY <2>1, <2>2
<1>3. UNCHANGED <<rtcDue, rtcUnix, rtcShown>> BY DEF RtcMcpReady
<1>4. /\ rtc' \in RtcContexts /\ rtc'.booted = rtc.booted /\ rtc'.failed = rtc.failed
      /\ rtc'.missed = rtc.missed /\ rtc'.time_valid = rtc.time_valid /\ rtc'.last = rtc.last
  BY <1>1 DEF RtcInv, RtcContexts
<1>5. rtcChip' \in RtcChips /\ rtcChip'.set = rtcChip.set /\ rtcChip'.date = rtcChip.date
  BY <1>2 DEF RtcInv, RtcChips
<1>6. RtcOnTime(rtc, rtcChip, rtcUnix)' BY <1>3, <1>4, <1>5 DEF RtcInv, RtcOnTime
<1>7. RtcTold(rtc, rtcShown)' BY <1>3, <1>4 DEF RtcInv, RtcTold
<1>8. RtcLags(rtc, rtcDue, rtcUnix, rtcShown)' BY <1>3, <1>4 DEF RtcInv, RtcLags
<1>9. RtcAsked(rtc, rtcDue)' BY <1>3, <1>4 DEF RtcInv, RtcAsked
<1> QED BY <1>3, <1>4, <1>5, <1>6, <1>7, <1>8, <1>9 DEF RtcInv

\* An interrupt makes the actor read the chip.
LEMMA RtcIrqKeeps ==
  ASSUME RtcInv, RtcIrq
  PROVE  RtcInv'
<1>1. PICK r : r = [rtc EXCEPT !.missed = 0] OBVIOUS
<1>2. rtc \in RtcContexts /\ rtcDue \in RtcDues BY DEF RtcInv
<1>3. /\ RtcRefresh(r) /\ UNCHANGED <<rtcChip, rtcUnix>> /\ ~rtc.failed
      /\ rtcDue' = [rtcDue EXCEPT !.irq = FALSE]
  BY <1>1 DEF RtcIrq
<1>4. /\ r \in RtcContexts /\ r.booted = rtc.booted /\ r.failed = rtc.failed
      /\ r.time_valid = rtc.time_valid /\ r.last = rtc.last
  BY <1>1, <1>2, RtcSizes DEF RtcContexts
<1>5. rtcDue' \in RtcDues BY <1>2, <1>3 DEF RtcDues
<1>6. rtc.booted /\ rtcChip.set BY DEF RtcIrq, RtcInv, RtcOnTime, RtcAsked
<1> QED BY <1>3, <1>4, <1>5, <1>6, RtcRefreshKeeps

\* The tick reads the chip, or counts one more missing interrupt.
LEMMA RtcTickKeeps ==
  ASSUME RtcInv, RtcTick
  PROVE  RtcInv'
<1>1. rtc \in RtcContexts /\ rtcDue \in RtcDues BY DEF RtcInv
<1>2. PICK k \in 0 .. RtcFallback : k = rtc.missed BY <1>1 DEF RtcContexts
<1>3. PICK m \in 0 .. RtcFallback : m = IF k < RtcFallback THEN k + 1 ELSE k
  BY <1>2, RtcSizes
<1>4. PICK r : r = [rtc EXCEPT !.missed = m] OBVIOUS
<1>5. r = [rtc EXCEPT !.missed = IF @ < RtcFallback THEN @ + 1 ELSE @]
  BY <1>2, <1>3, <1>4
<1>6. /\ ~rtc.failed /\ rtcDue.tick /\ rtcDue' = [rtcDue EXCEPT !.tick = FALSE]
      /\ UNCHANGED <<rtcChip, rtcUnix>>
      /\ IF ~r.sqw_enabled \/ r.missed >= RtcFallback THEN RtcRefresh(r)
         ELSE rtc' = r /\ UNCHANGED rtcShown
  BY <1>5 DEF RtcTick
<1>7. /\ r \in RtcContexts /\ r.booted = rtc.booted /\ r.failed = rtc.failed
      /\ r.time_valid = rtc.time_valid /\ r.last = rtc.last /\ r.missed = m
  BY <1>1, <1>4 DEF RtcContexts
<1>8. rtcDue' \in RtcDues /\ rtcDue'.tick = FALSE BY <1>1, <1>6 DEF RtcDues
<1>9. rtc.booted /\ rtcChip.set BY <1>6 DEF RtcInv, RtcOnTime, RtcAsked
<1>10. CASE RtcRefresh(r) BY <1>6, <1>7, <1>8, <1>9, <1>10, RtcRefreshKeeps
<1>11. CASE ~(m >= RtcFallback) /\ rtc' = r /\ UNCHANGED rtcShown
  <2>1. m < RtcFallback /\ m = k + 1 BY <1>2, <1>3, <1>11, RtcSizes
  <2>2. RtcOnTime(rtc, rtcChip, rtcUnix)' BY <1>6, <1>7, <1>11 DEF RtcInv, RtcOnTime
  <2>3. RtcTold(rtc, rtcShown)' BY <1>7, <1>11 DEF RtcInv, RtcTold
  <2>4. RtcAsked(rtc, rtcDue)' BY <1>7, <1>9, <1>11 DEF RtcAsked
  <2>5. RtcLags(rtc, rtcDue, rtcUnix, rtcShown)'
    <3>1. SUFFICES ASSUME ~rtcShown.failed
                   PROVE  rtcShown.any /\ RtcLagIs(rtcUnix - rtcShown.unix, FALSE, m)
      BY <1>6, <1>7, <1>8, <1>11 DEF RtcLags
    <3>2. rtcShown.any /\ RtcLagIs(rtcUnix - rtcShown.unix, TRUE, k)
      BY <1>2, <1>6, <1>9, <3>1 DEF RtcInv, RtcLags
    <3>3. rtcUnix - rtcShown.unix \in Int BY DEF RtcInv, RtcShowns
    <3> QED BY <2>1, <3>2, <3>3, RtcLagging
  <2> QED BY <1>6, <1>7, <1>8, <1>11, <2>2, <2>3, <2>4, <2>5 DEF RtcInv
<1> QED BY <1>6, <1>7, <1>10, <1>11

\* A second passes, on the chip and on the calendar.
LEMMA RtcSecondKeeps ==
  ASSUME RtcInv, RtcSecond
  PROVE  RtcInv'
<1>1. /\ rtc \in RtcContexts /\ rtcDue \in RtcDues /\ rtcChip \in RtcChips
      /\ rtcUnix \in Int /\ rtcShown \in RtcShowns
  BY DEF RtcInv
<1>2. /\ rtc.booted /\ ~rtcDue.tick /\ RtcThisCentury(RtcLater(rtcChip.date))
      /\ rtcChip' = [rtcChip EXCEPT !.date = RtcLater(@)]
      /\ rtcUnix' = rtcUnix + 1 /\ UNCHANGED rtc
      /\ rtcShown' = [rtcShown EXCEPT !.passed = @ + 1]
  BY DEF RtcSecond
<1>3. PICK edge \in BOOLEAN : rtcDue' = [tick |-> TRUE, irq |-> edge]
  <2>1. PICK e \in {FALSE, rtcChip.sqw} : rtcDue' = [tick |-> TRUE, irq |-> e]
    BY DEF RtcSecond
  <2>2. rtcChip.sqw \in BOOLEAN BY <1>1 DEF RtcChips
  <2>3. e \in BOOLEAN BY <2>2
  <2> QED BY <2>1, <2>3
<1>4. PICK t : t = RtcLater(rtcChip.date) OBVIOUS
<1>5. rtcChip.set /\ rtcChip.date \in RtcDates /\ rtcUnix = RtcCalendar(rtcChip.date)
  BY <1>2 DEF RtcInv, RtcOnTime
<1>6. t \in RtcDates /\ RtcCalendar(t) = RtcCalendar(rtcChip.date) + 1
  BY <1>2, <1>4, <1>5, RtcLaterIs
<1>7. rtcChip' \in RtcChips /\ rtcChip'.set = rtcChip.set /\ rtcChip'.date = t
  BY <1>1, <1>2, <1>4, <1>6 DEF RtcChips
<1>8. rtcUnix' \in Int /\ rtcUnix' = RtcCalendar(t) BY <1>1, <1>2, <1>5, <1>6
<1>9. PICK p \in Nat : p = rtcShown.passed + 1 BY <1>1 DEF RtcShowns
<1>10. /\ rtcShown' \in RtcShowns /\ rtcShown'.unix = rtcShown.unix
       /\ rtcShown'.any = rtcShown.any /\ rtcShown'.failed = rtcShown.failed
  BY <1>1, <1>2, <1>9 DEF RtcShowns
<1>11. rtcDue' \in RtcDues /\ rtcDue'.tick = TRUE BY <1>3 DEF RtcDues
<1>12. RtcOnTime(rtc, rtcChip, rtcUnix)' BY <1>2, <1>5, <1>6, <1>7, <1>8 DEF RtcOnTime
<1>13. RtcTold(rtc, rtcShown)' BY <1>2, <1>10 DEF RtcInv, RtcTold
<1>14. RtcAsked(rtc, rtcDue)' BY <1>2 DEF RtcAsked
<1>15. RtcLags(rtc, rtcDue, rtcUnix, rtcShown)'
  <2>1. PICK n \in Int : n = rtcUnix - rtcShown.unix BY <1>1 DEF RtcShowns
  <2>2. rtcUnix' - rtcShown'.unix = n + 1 BY <1>1, <1>2, <1>10, <2>1 DEF RtcShowns
  <2>3. SUFFICES ASSUME ~rtcShown.failed
                 PROVE  rtcShown.any /\ RtcLagIs(n + 1, TRUE, rtc.missed)
    <3>1. rtc' = rtc /\ rtcShown'.any = rtcShown.any /\ rtcShown'.failed = rtcShown.failed
      BY <1>2, <1>10
    <3> QED BY <1>11, <2>2, <3>1 DEF RtcLags
  <2>4. rtcDue.tick = FALSE BY <1>1, <1>2 DEF RtcDues
  <2>5. rtcShown.any /\ RtcLagIs(n, FALSE, rtc.missed)
    <3>1. RtcLags(rtc, rtcDue, rtcUnix, rtcShown) BY DEF RtcInv
    <3>2. rtcShown.any /\ RtcLagIs(n, rtcDue.tick, rtc.missed)
      BY <1>2, <2>1, <2>3, <3>1 DEF RtcLags
    <3> QED BY <2>4, <3>2, Zenon
  <2>6. rtc.missed \in 0 .. RtcFallback BY <1>1 DEF RtcContexts
  <2> QED BY <2>5, <2>6, RtcLagging
<1> QED BY <1>1, <1>2, <1>7, <1>8, <1>10, <1>11, <1>12, <1>13, <1>14, <1>15 DEF RtcInv

\* A restart claims nothing.
LEMMA RtcRestartKeeps ==
  ASSUME RtcInv, RtcRestart
  PROVE  RtcInv'
<1>1. /\ rtc' = RtcFresh /\ rtcChip' = [rtcChip EXCEPT !.sqw = FALSE]
      /\ rtcDue' = [tick |-> FALSE, irq |-> FALSE] /\ UNCHANGED <<rtcUnix, rtcShown>>
  BY DEF RtcRestart
<1>2. rtc' \in RtcContexts /\ ~rtc'.booted /\ ~rtc'.failed /\ ~rtc'.time_valid
  BY <1>1, RtcFreshTyped
<1>3. rtcChip' \in RtcChips /\ rtcChip'.set = rtcChip.set /\ rtcChip'.date = rtcChip.date
  BY <1>1 DEF RtcInv, RtcChips
<1>4. rtcDue' \in RtcDues /\ RtcAsked(rtc, rtcDue)' BY <1>1 DEF RtcDues, RtcAsked
<1>5. RtcOnTime(rtc, rtcChip, rtcUnix)' BY <1>1, <1>2, <1>3 DEF RtcInv, RtcOnTime
<1>6. RtcTold(rtc, rtcShown)' /\ RtcLags(rtc, rtcDue, rtcUnix, rtcShown)'
  BY <1>2 DEF RtcTold, RtcLags
<1> QED BY <1>1, <1>2, <1>3, <1>4, <1>5, <1>6 DEF RtcInv

\* The clock is one of the actors.
LEMMA RtcRuns == Spec => RtcInit /\ [][RtcNext]_rtcVars
<1>1. Init => RtcInit BY DEF Init
<1>2. [Next]_actorsVars => [RtcNext]_rtcVars BY DEF Next, actorsVars
<1> QED BY <1>1, <1>2, PTL DEF Spec

\* The time last published is the true one of at most RtcFallback seconds ago,
\* for every date of this century, every threshold and any lost interrupts,
\* unless reading the chip failed since (ev_rtc_actor.c:35-125, :373).
THEOREM ClockIsFresh == Spec => []TimeIsFresh
<1>1. RtcInv /\ [RtcNext]_rtcVars => RtcInv'
  <2>1. CASE RtcNext
    BY <2>1, RtcPowerOnKeeps, RtcBootKeeps, RtcMcpReadyKeeps, RtcIrqKeeps, RtcTickKeeps,
       RtcSecondKeeps, RtcRestartKeeps
       DEF RtcNext
  <2>2. CASE UNCHANGED rtcVars
    BY <2>2 DEF rtcVars, RtcInv, RtcOnTime, RtcTold, RtcAsked, RtcLags
  <2> QED BY <2>1, <2>2
<1>2. RtcInv => TimeIsFresh
  <2>1. SUFFICES ASSUME RtcInv, rtc.booted, ~rtcShown.failed
                 PROVE  /\ rtcShown.any /\ rtcShown.unix <= rtcUnix
                        /\ rtcUnix - rtcShown.unix <= RtcFallback
    BY DEF TimeIsFresh
  <2>2. /\ rtc.missed \in 0 .. RtcFallback /\ rtcDue.tick \in BOOLEAN
        /\ rtcUnix \in Int /\ rtcShown.unix \in Int
    BY <2>1 DEF RtcInv, RtcContexts, RtcDues, RtcShowns
  <2>3. PICK n \in Int : n = rtcUnix - rtcShown.unix BY <2>2
  <2>4. rtcShown.any /\ RtcLagIs(n, rtcDue.tick, rtc.missed)
    BY <2>1, <2>3 DEF RtcInv, RtcLags
  <2>5. 0 <= n /\ n <= RtcFallback BY <2>2, <2>4, RtcLagging
  <2> QED BY <2>2, <2>3, <2>4, <2>5
<1> QED BY <1>1, <1>2, RtcStartHolds, RtcRuns, PTL

-----------------------------------------------------------------------------
(* The buttons. *)

McpContexts ==
  [booted : BOOLEAN, failed : BOOLEAN, configured : BOOLEAN, inputs_valid : BOOLEAN,
   input_shadow : SUBSET BtButtons, output_shadow : SUBSET BtLeds]
McpChips == [pressed : SUBSET BtButtons, olat : SUBSET BtLeds]
BtStates == [stable : BOOLEAN, debounce : Nat, hold : Nat, long : BOOLEAN]
BtPanels == [raw_valid : BOOLEAN, raw : SUBSET BtButtons, button : [BtButtons -> BtStates]]
BtMessages == [tick : BOOLEAN, pressed_mask : SUBSET BtButtons]

\* What the application should believe of a button.
BtShould(s) ==
  CASE ~s.stable -> "up"
    [] s.stable /\ s.long -> "long"
    [] s.stable /\ ~s.long -> "down"

BtTypes ==
  /\ mcp \in McpContexts /\ mcpChip \in McpChips
  /\ panel \in BtPanels /\ panelBox \in Seq(BtMessages)
  /\ btAbsorbed \in BOOLEAN

\* A shadow that no configuration replaced is what the panel has or will get,
\* also while the expander waits for its next configuration.
BtTold(m, p, box, absorbed) ==
  ~absorbed /\ ~m.failed => BtWillHave(box, p.raw) = m.input_shadow

BtHeardRight(p, heard) == heard = [b \in BtButtons |-> BtShould(p.button[b])]

BtDriven(m, chip) == m.configured => chip.olat = m.output_shadow

BtInv ==
  /\ BtTypes
  /\ BtHeardRight(panel, btHeard)
  /\ BtTold(mcp, panel, panelBox, btAbsorbed)
  /\ BtDriven(mcp, mcpChip)

\* The parts of the records.
LEMMA BtFields ==
  /\ \A m \in McpContexts : /\ m.booted \in BOOLEAN /\ m.failed \in BOOLEAN
                            /\ m.configured \in BOOLEAN /\ m.inputs_valid \in BOOLEAN
                            /\ m.input_shadow \in SUBSET BtButtons
                            /\ m.output_shadow \in SUBSET BtLeds
  /\ \A c \in McpChips : c.pressed \in SUBSET BtButtons /\ c.olat \in SUBSET BtLeds
  /\ \A m \in BtMessages : m.tick \in BOOLEAN /\ m.pressed_mask \in SUBSET BtButtons
  /\ \A p \in BtPanels : p.raw_valid \in BOOLEAN /\ p.raw \in SUBSET BtButtons
                         /\ p.button \in [BtButtons -> BtStates]
BY DEF McpContexts, McpChips, BtMessages, BtPanels

\* Either no mask waits, or one of them is the last.
LEMMA BtLastMask ==
  ASSUME NEW box \in Seq(BtMessages), NEW raw
  PROVE  \/ /\ \A i \in 1 .. Len(box) : box[i].tick
            /\ BtWillHave(box, raw) = raw
         \/ \E i \in 1 .. Len(box) :
              /\ ~box[i].tick /\ \A j \in 1 .. Len(box) : j > i => box[j].tick
              /\ BtWillHave(box, raw) = box[i].pressed_mask
<1>1. PICK n, masks : n = Len(box) /\ masks = {i \in 1 .. n : ~box[i].tick} OBVIOUS
<1>2. n \in Nat /\ DOMAIN box = 1 .. n /\ masks \in SUBSET (0 .. n) BY <1>1
<1>3. PICK last : last = CHOOSE i \in masks : \A j \in masks : j <= i OBVIOUS
<1>4. BtWillHave(box, raw) = IF masks = {} THEN raw ELSE box[last].pressed_mask
  BY <1>1, <1>2, <1>3 DEF BtWillHave
<1>5. CASE masks = {}
  <2>1. \A i \in 1 .. n : box[i].tick BY <1>1, <1>5
  <2> QED BY <1>1, <1>4, <1>5, <2>1
<1>6. CASE masks # {}
  <2>1. \E i \in masks : \A j \in masks : j <= i BY <1>2, <1>6, GreatestElement
  <2>2. last \in masks /\ \A j \in masks : j <= last BY <1>3, <2>1
  <2>3. last \in 1 .. n /\ ~box[last].tick BY <1>1, <2>2
  <2>4. \A j \in 1 .. n : j > last => box[j].tick
    <3>1. SUFFICES ASSUME NEW j \in 1 .. n, j > last, ~box[j].tick PROVE FALSE OBVIOUS
    <3>2. j \in masks BY <1>1, <3>1
    <3>3. j <= last BY <2>2, <3>2
    <3> QED BY <1>2, <2>3, <3>1, <3>3
  <2> QED BY <1>1, <1>4, <1>6, <2>3, <2>4
<1> QED BY <1>5, <1>6

\* A mask with only ticks behind it is the one.
LEMMA BtWillIs ==
  ASSUME NEW box \in Seq(BtMessages), NEW raw
  PROVE  /\ (\A i \in 1 .. Len(box) : box[i].tick) => BtWillHave(box, raw) = raw
         /\ \A i \in 1 .. Len(box) :
              ~box[i].tick /\ (\A j \in 1 .. Len(box) : j > i => box[j].tick)
                => BtWillHave(box, raw) = box[i].pressed_mask
<1>1. (\A i \in 1 .. Len(box) : box[i].tick) => BtWillHave(box, raw) = raw BY BtLastMask
<1>2. ASSUME NEW i \in 1 .. Len(box), ~box[i].tick,
             \A j \in 1 .. Len(box) : j > i => box[j].tick
      PROVE  BtWillHave(box, raw) = box[i].pressed_mask
  <2>1. PICK k \in 1 .. Len(box) :
          /\ ~box[k].tick /\ \A j \in 1 .. Len(box) : j > k => box[j].tick
          /\ BtWillHave(box, raw) = box[k].pressed_mask
    BY <1>2, BtLastMask
  <2>2. ~(k > i) /\ ~(i > k) BY <1>2, <2>1
  <2>3. k = i BY <2>2
  <2> QED BY <2>1, <2>3
<1> QED BY <1>1, <1>2

\* One more message.
LEMMA BtAppended ==
  ASSUME NEW box \in Seq(BtMessages), NEW x \in BtMessages, NEW raw
  PROVE  /\ Append(box, x) \in Seq(BtMessages) /\ Append(box, x) # box
         /\ x.tick => BtWillHave(Append(box, x), raw) = BtWillHave(box, raw)
         /\ ~x.tick => BtWillHave(Append(box, x), raw) = x.pressed_mask
<1>1. PICK n, o : n = Len(box) /\ o = Append(box, x) OBVIOUS
<1>2. /\ n \in Nat /\ o \in Seq(BtMessages) /\ Len(o) = n + 1 /\ o[n + 1] = x
      /\ \A i \in 1 .. n : o[i] = box[i]
  BY <1>1
<1>3. o # box BY <1>1, <1>2
<1>4. \A i \in 1 .. n + 1 : i \in 1 .. n \/ i = n + 1 BY <1>2
<1>5. ASSUME ~x.tick PROVE BtWillHave(o, raw) = x.pressed_mask
  <2>1. PICK k \in 1 .. Len(o) : k = n + 1 BY <1>2
  <2>2. ~o[k].tick /\ \A j \in 1 .. Len(o) : ~(j > k) BY <1>2, <1>5, <2>1
  <2>3. BtWillHave(o, raw) = o[k].pressed_mask BY <1>2, <2>2, BtWillIs
  <2> QED BY <1>2, <2>1, <2>3
<1>6. ASSUME x.tick PROVE BtWillHave(o, raw) = BtWillHave(box, raw)
  <2>1. CASE /\ \A i \in 1 .. Len(box) : box[i].tick
             /\ BtWillHave(box, raw) = raw
    <3>1. \A i \in 1 .. Len(o) : o[i].tick BY <1>1, <1>2, <1>4, <1>6, <2>1
    <3> QED BY <1>2, <2>1, <3>1, BtWillIs
  <2>2. CASE \E i \in 1 .. Len(box) :
               /\ ~box[i].tick /\ \A j \in 1 .. Len(box) : j > i => box[j].tick
               /\ BtWillHave(box, raw) = box[i].pressed_mask
    <3>1. PICK i \in 1 .. n :
            /\ ~box[i].tick /\ \A j \in 1 .. n : j > i => box[j].tick
            /\ BtWillHave(box, raw) = box[i].pressed_mask
      BY <1>1, <2>2
    <3>2. i \in 1 .. Len(o) /\ o[i] = box[i] BY <1>2, <3>1
    <3>3. \A j \in 1 .. Len(o) : j > i => o[j].tick BY <1>2, <1>4, <1>6, <3>1
    <3>4. BtWillHave(o, raw) = o[i].pressed_mask BY <1>2, <3>1, <3>2, <3>3, BtWillIs
    <3> QED BY <3>1, <3>2, <3>4
  <2> QED BY <2>1, <2>2, BtLastMask
<1> QED BY <1>1, <1>2, <1>3, <1>5, <1>6

\* The oldest message is handled.
LEMMA BtHandled ==
  ASSUME NEW box \in Seq(BtMessages), box # << >>, NEW raw, NEW after,
         after = IF Head(box).tick THEN raw ELSE Head(box).pressed_mask
  PROVE  /\ Head(box) \in BtMessages /\ Tail(box) \in Seq(BtMessages)
         /\ BtWillHave(Tail(box), after) = BtWillHave(box, raw)
<1>1. PICK n, o, x : n = Len(box) /\ o = Tail(box) /\ x = Head(box) OBVIOUS
<1>2. /\ n \in Nat /\ n > 0 /\ x = box[1] /\ x \in BtMessages
      /\ o \in Seq(BtMessages) /\ Len(o) = n - 1 /\ \A i \in 1 .. n - 1 : o[i] = box[i + 1]
  BY <1>1, HeadTailProperties
<1>3. \A i \in 1 .. n - 1 : i + 1 \in 1 .. n /\ i + 1 > 1 BY <1>2
<1>4. CASE /\ \A i \in 1 .. Len(box) : box[i].tick
           /\ BtWillHave(box, raw) = raw
  <2>1. \A i \in 1 .. Len(o) : o[i].tick BY <1>1, <1>2, <1>3, <1>4
  <2>2. 1 \in 1 .. Len(box) BY <1>1, <1>2
  <2>3. after = raw BY <1>1, <1>2, <1>4, <2>2
  <2>4. BtWillHave(o, after) = after BY <1>2, <2>1, BtWillIs
  <2> QED BY <1>1, <1>2, <1>4, <2>3, <2>4
<1>5. CASE \E i \in 1 .. Len(box) :
             /\ ~box[i].tick /\ \A j \in 1 .. Len(box) : j > i => box[j].tick
             /\ BtWillHave(box, raw) = box[i].pressed_mask
  <2>1. PICK i \in 1 .. n : /\ ~box[i].tick /\ \A j \in 1 .. n : j > i => box[j].tick
                            /\ BtWillHave(box, raw) = box[i].pressed_mask
    BY <1>1, <1>5
  <2>2. CASE i = 1
    <3>1. \A j \in 1 .. Len(o) : o[j].tick BY <1>2, <1>3, <2>1, <2>2
    <3>2. after = box[i].pressed_mask BY <1>1, <1>2, <2>1, <2>2
    <3>3. BtWillHave(o, after) = after BY <1>2, <3>1, BtWillIs
    <3> QED BY <1>1, <1>2, <2>1, <3>2, <3>3
  <2>3. CASE i # 1
    <3>1. PICK k \in 1 .. n - 1 : k + 1 = i BY <1>2, <2>3
    <3>2. k \in 1 .. Len(o) /\ o[k] = box[i] BY <1>2, <3>1
    <3>3. \A j \in 1 .. Len(o) : j > k => o[j].tick
      <4>1. SUFFICES ASSUME NEW j \in 1 .. n - 1, j > k PROVE o[j].tick BY <1>2
      <4>2. j + 1 \in 1 .. n /\ j + 1 > i BY <1>2, <3>1, <4>1
      <4> QED BY <1>2, <2>1, <4>2
    <3>4. BtWillHave(o, after) = o[k].pressed_mask BY <1>2, <2>1, <3>2, <3>3, BtWillIs
    <3> QED BY <1>1, <1>2, <2>1, <3>2, <3>4
  <2> QED BY <2>2, <2>3
<1> QED BY <1>4, <1>5, BtLastMask

\* A button's step, and what its events tell.
LEMMA BtStepHeard ==
  ASSUME NEW raw \in BOOLEAN, NEW s \in BtStates, NEW t, t = PanelStep(raw, s)
  PROVE  /\ t \in BtStates
         /\ BtHearAll(BtShould(s), PanelEvents(s, t)) = BtShould(t)
<1>1. /\ s.stable \in BOOLEAN /\ s.long \in BOOLEAN /\ s.debounce \in Nat /\ s.hold \in Nat
      /\ BtLong \in Nat /\ BtLong > 0 /\ BtDebounce \in Nat
  BY BtAssumption DEF BtStates
<1>2. CASE raw # s.stable /\ s.debounce + 1 < BtDebounce
  <2>1. raw # s.stable BY <1>2
  <2>9. s.debounce + 1 < BtDebounce /\ ~(s.debounce + 1 >= BtDebounce) BY <1>1, <1>2
  <2>8. t = [s EXCEPT !.debounce = s.debounce + 1] BY <2>1, <2>9, Zenon DEF PanelStep
  <2>2. t \in BtStates /\ t.stable = s.stable /\ t.long = s.long
    BY <1>1, <2>8 DEF BtStates
  <2>3. PanelEvents(s, t) = << >> BY <1>1, <2>2 DEF PanelEvents
  <2>4. BtShould(t) = BtShould(s) BY <2>2 DEF BtShould
  <2> QED BY <2>2, <2>3, <2>4 DEF BtHearAll
<1>3. CASE raw # s.stable /\ ~(s.debounce + 1 < BtDebounce)
  <2>1. t = [stable |-> raw, debounce |-> 0, hold |-> 0, long |-> FALSE]
    BY <1>1, <1>3 DEF PanelStep
  <2>2. t \in BtStates /\ t.stable = raw /\ t.long = FALSE BY <2>1 DEF BtStates
  <2>3. CASE raw = TRUE
    <3>1. s.stable = FALSE BY <1>1, <1>3, <2>3
    <3>2. PanelEvents(s, t) = << "PRESS" >> BY <2>2, <2>3, <3>1 DEF PanelEvents
    <3>3. BtShould(s) = "up" /\ BtShould(t) = "down" BY <2>2, <2>3, <3>1 DEF BtShould
    <3> QED BY <2>2, <3>2, <3>3 DEF BtHearAll, BtHear
  <2>4. CASE raw = FALSE
    <3>1. s.stable = TRUE BY <1>1, <1>3, <2>4
    <3>2. BtShould(t) = "up" BY <2>2, <2>4 DEF BtShould
    <3>3. CASE s.long = TRUE
      <4>1. PanelEvents(s, t) = << "RELEASE" >>
        BY <2>2, <2>4, <3>1, <3>3 DEF PanelEvents
      <4>2. BtShould(s) = "long" BY <3>1, <3>3 DEF BtShould
      <4> QED BY <2>2, <3>2, <4>1, <4>2 DEF BtHearAll, BtHear
    <3>4. CASE s.long = FALSE
      <4>1. PanelEvents(s, t) = << "RELEASE", "SHORT" >>
        BY <2>2, <2>4, <3>1, <3>4 DEF PanelEvents
      <4>2. BtShould(s) = "down" BY <3>1, <3>4 DEF BtShould
      <4>3. BtHear("down", "RELEASE") = "released" /\ BtHear("released", "SHORT") = "up"
        BY DEF BtHear
      <4> QED BY <2>2, <3>2, <4>1, <4>2, <4>3 DEF BtHearAll
    <3> QED BY <1>1, <3>3, <3>4
  <2> QED BY <2>3, <2>4
<1>4. CASE raw = s.stable /\ raw = FALSE
  <2>1. t = [s EXCEPT !.debounce = 0] BY <1>4 DEF PanelStep
  <2>2. t \in BtStates /\ t.stable = s.stable /\ t.long = s.long
    BY <1>1, <2>1 DEF BtStates
  <2>3. PanelEvents(s, t) = << >> BY <1>1, <2>2 DEF PanelEvents
  <2>4. BtShould(t) = BtShould(s) BY <2>2 DEF BtShould
  <2> QED BY <2>2, <2>3, <2>4 DEF BtHearAll
<1>5. CASE raw = s.stable /\ raw = TRUE
  <2>1. PICK hold \in Nat : hold = IF s.hold < BtLong THEN s.hold + 1 ELSE BtLong
    BY <1>1
  <2>2. t = [s EXCEPT !.debounce = 0, !.hold = hold, !.long = @ \/ hold >= BtLong]
    BY <1>5, <2>1 DEF PanelStep
  <2>3. PICK l \in BOOLEAN : l = (s.long \/ hold >= BtLong) OBVIOUS
  <2>4. t = [s EXCEPT !.debounce = 0, !.hold = hold, !.long = l] BY <2>2, <2>3
  <2>9. /\ t.stable = s.stable /\ t.debounce = 0 /\ t.hold = hold /\ t.long = l
        /\ t = [stable |-> s.stable, debounce |-> 0, hold |-> hold, long |-> l]
    BY <2>4 DEF BtStates
  <2>10. t \in BtStates BY <1>1, <2>9 DEF BtStates
  <2>5. t \in BtStates /\ t.stable = s.stable /\ t.long = l BY <2>9, <2>10
  <2>6. s.long => l BY <2>3
  <2>7. CASE s.long = l
    <3>1. PanelEvents(s, t) = << >> BY <1>1, <2>5, <2>7 DEF PanelEvents
    <3>2. BtShould(t) = BtShould(s) BY <2>5, <2>7 DEF BtShould
    <3> QED BY <2>5, <3>1, <3>2 DEF BtHearAll
  <2>8. CASE s.long # l
    <3>1. s.long = FALSE /\ l = TRUE BY <1>1, <2>6, <2>8
    <3>2. PanelEvents(s, t) = << "LONG" >> BY <1>5, <2>5, <3>1 DEF PanelEvents
    <3>3. BtShould(s) = "down" /\ BtShould(t) = "long" BY <1>5, <2>5, <3>1 DEF BtShould
    <3> QED BY <2>5, <3>2, <3>3 DEF BtHearAll, BtHear
  <2> QED BY <2>7, <2>8
<1> QED BY <1>1, <1>2, <1>3, <1>4, <1>5

\* The contexts the actor's operations make of one.
LEMMA BtContextsMade ==
  ASSUME NEW m \in McpContexts
  PROVE  /\ McpUnconfigured(m) \in McpContexts
         /\ ~McpUnconfigured(m).configured
         /\ McpUnconfigured(m).failed = m.failed
         /\ McpUnconfigured(m).input_shadow = m.input_shadow
         /\ McpUnconfigured(m).output_shadow = m.output_shadow
         /\ \A read \in SUBSET BtButtons :
              /\ McpConfigured(m, read) \in McpContexts
              /\ McpConfigured(m, read).failed = m.failed
              /\ McpConfigured(m, read).input_shadow = read
              /\ McpConfigured(m, read).output_shadow = m.output_shadow
              /\ [m EXCEPT !.input_shadow = read] \in McpContexts
              /\ [m EXCEPT !.input_shadow = read, !.failed = TRUE] \in McpContexts
         /\ [m EXCEPT !.failed = TRUE] \in McpContexts
         /\ [m EXCEPT !.booted = TRUE] \in McpContexts
  BY DEF McpContexts, McpUnconfigured, McpConfigured

\* A write that is acknowledged drives the LEDs.
LEMMA BtOlatWritten ==
  ASSUME BtTypes, NEW m \in McpContexts, NEW acked \in BOOLEAN, McpWriteOlat(m, acked)
  PROVE  /\ mcpChip' \in McpChips /\ mcpChip'.pressed = mcpChip.pressed
         /\ acked => mcpChip'.olat = m.output_shadow
<1>1. mcpChip \in McpChips /\ m.output_shadow \in SUBSET BtLeds BY BtFields DEF BtTypes
<1>2. PICK latched \in {TRUE, acked} :
        mcpChip' = IF latched THEN [mcpChip EXCEPT !.olat = m.output_shadow] ELSE mcpChip
  BY DEF McpWriteOlat
<1>3. CASE latched = TRUE
  <2>1. mcpChip' = [mcpChip EXCEPT !.olat = m.output_shadow] BY <1>2, <1>3
  <2> QED BY <1>1, <2>1 DEF McpChips
<1>4. CASE latched = FALSE
  <2>1. mcpChip' = mcpChip /\ acked = FALSE BY <1>2, <1>4
  <2> QED BY <1>1, <2>1
<1> QED BY <1>2, <1>3, <1>4

\* An attempt to configure that fails.
LEMMA BtConfigureFails ==
  ASSUME BtInv, NEW m \in McpContexts, m.input_shadow = mcp.input_shadow,
         m.failed = mcp.failed, McpConfigureFails(m), UNCHANGED <<panel, btHeard>>
  PROVE  BtInv'
<1>1. mcpChip' \in McpChips
  <2>1. CASE UNCHANGED mcpChip BY <2>1 DEF BtInv, BtTypes
  <2>2. CASE \E acked \in BOOLEAN : McpWriteOlat(m, acked)
    BY <2>2, BtOlatWritten DEF BtInv
  <2> QED BY <2>1, <2>2 DEF McpConfigureFails
<1>2. /\ mcp' = McpUnconfigured(m) /\ panelBox' = panelBox /\ btAbsorbed' = btAbsorbed
      /\ panel' = panel /\ btHeard' = btHeard
  BY DEF McpConfigureFails
<1>3. /\ mcp' \in McpContexts /\ ~mcp'.configured /\ mcp'.failed = mcp.failed
      /\ mcp'.input_shadow = mcp.input_shadow
  BY <1>2, BtContextsMade
<1>4. BtTypes' BY <1>1, <1>2, <1>3 DEF BtInv, BtTypes
<1>5. BtTold(mcp, panel, panelBox, btAbsorbed)' BY <1>2, <1>3 DEF BtInv, BtTold
<1>6. BtHeardRight(panel, btHeard)' /\ BtDriven(mcp, mcpChip)'
  BY <1>2, <1>3 DEF BtInv, BtHeardRight, BtDriven
<1> QED BY <1>4, <1>5, <1>6 DEF BtInv

\* An attempt to configure that cannot tell of it.
LEMMA BtReadyRefused ==
  ASSUME BtInv, NEW m \in McpContexts, McpReadyRefused(m), UNCHANGED <<panel, btHeard>>
  PROVE  BtInv'
<1>1. mcpChip' \in McpChips BY BtOlatWritten DEF BtInv, McpReadyRefused
<1>2. /\ mcp' = [McpUnconfigured(m) EXCEPT !.failed = TRUE]
      /\ panelBox' = panelBox /\ btAbsorbed' = btAbsorbed
      /\ panel' = panel /\ btHeard' = btHeard
  BY DEF McpReadyRefused
<1>3. McpUnconfigured(m) \in McpContexts /\ ~McpUnconfigured(m).configured
  BY BtContextsMade
<1>4. mcp' \in McpContexts /\ ~mcp'.configured /\ mcp'.failed
  BY <1>2, <1>3 DEF McpContexts
<1>5. BtTypes' BY <1>1, <1>2, <1>4 DEF BtInv, BtTypes
<1>6. BtTold(mcp, panel, panelBox, btAbsorbed)' BY <1>4 DEF BtTold
<1>7. BtHeardRight(panel, btHeard)' /\ BtDriven(mcp, mcpChip)'
  BY <1>2, <1>4 DEF BtInv, BtHeardRight, BtDriven
<1> QED BY <1>5, <1>6, <1>7 DEF BtInv

\* What the handler has of the expander when it reads the buttons.
BtReads(m, absorbed) ==
  /\ m \in McpContexts /\ absorbed \in BOOLEAN
  /\ BtTold(m, panel, panelBox, absorbed)

\* The buttons are read.
LEMMA BtGpioRead ==
  ASSUME BtTypes, NEW m, NEW absorbed, BtReads(m, absorbed), McpReadGpio(m), panel' = panel,
         btAbsorbed' = (absorbed /\ panelBox' = panelBox), NEW chip, BtDriven(m, chip)
  PROVE  /\ mcp' \in McpContexts /\ panelBox' \in Seq(BtMessages) /\ btAbsorbed' \in BOOLEAN
         /\ BtTold(mcp, panel, panelBox, btAbsorbed)'
         /\ BtDriven(mcp', chip)
<1>1. /\ m \in McpContexts /\ absorbed \in BOOLEAN
      /\ ~absorbed /\ ~m.failed => BtWillHave(panelBox, panel.raw) = m.input_shadow
      /\ panelBox \in Seq(BtMessages) /\ mcpChip.pressed \in SUBSET BtButtons
  BY BtFields DEF BtReads, BtTold, BtTypes
<1>2. btAbsorbed' \in BOOLEAN OBVIOUS
<1>3. CASE mcp' = McpUnconfigured(m) /\ UNCHANGED panelBox
  <2>1. /\ mcp' \in McpContexts /\ ~mcp'.configured /\ mcp'.failed = m.failed
        /\ mcp'.input_shadow = m.input_shadow
    BY <1>1, <1>3, BtContextsMade
  <2>2. btAbsorbed' = absorbed BY <1>1, <1>3
  <2>3. BtTold(mcp, panel, panelBox, btAbsorbed)' BY <1>1, <1>3, <2>1, <2>2 DEF BtTold
  <2> QED BY <1>1, <1>2, <1>3, <2>1, <2>3 DEF BtDriven
<1>4. CASE mcp' = m /\ UNCHANGED panelBox
  <2>1. btAbsorbed' = absorbed BY <1>1, <1>4
  <2>2. BtTold(mcp, panel, panelBox, btAbsorbed)' BY <1>1, <1>4, <2>1 DEF BtTold
  <2> QED BY <1>1, <1>2, <1>4, <2>2
<1>5. CASE /\ panelBox' = Append(panelBox, BtChanged(mcpChip.pressed))
           /\ mcp' = [m EXCEPT !.input_shadow = mcpChip.pressed]
  <2>1. PICK x : x = BtChanged(mcpChip.pressed) OBVIOUS
  <2>2. x \in BtMessages /\ ~x.tick /\ x.pressed_mask = mcpChip.pressed
    BY <1>1, <2>1 DEF BtChanged, BtMessages
  <2>3. /\ panelBox' \in Seq(BtMessages)
        /\ BtWillHave(panelBox', panel.raw) = mcpChip.pressed
    BY <1>1, <1>5, <2>1, <2>2, BtAppended
  <2>4. mcp' \in McpContexts BY <1>1, <1>5, BtContextsMade
  <2>5. /\ mcp'.input_shadow = mcpChip.pressed /\ mcp'.configured = m.configured
        /\ mcp'.output_shadow = m.output_shadow
    BY <1>1, <1>5 DEF McpContexts
  <2>6. BtTold(mcp, panel, panelBox, btAbsorbed)' BY <2>3, <2>5 DEF BtTold
  <2> QED BY <1>2, <2>3, <2>4, <2>5, <2>6 DEF BtDriven
<1>6. CASE /\ mcp' = [m EXCEPT !.input_shadow = mcpChip.pressed, !.failed = TRUE]
           /\ UNCHANGED panelBox
  <2>1. mcp' \in McpContexts BY <1>1, <1>6, BtContextsMade
  <2>2. /\ mcp'.failed /\ mcp'.configured = m.configured
        /\ mcp'.output_shadow = m.output_shadow
    BY <1>1, <1>6 DEF McpContexts
  <2>3. BtTold(mcp, panel, panelBox, btAbsorbed)' BY <2>2 DEF BtTold
  <2> QED BY <1>1, <1>2, <1>6, <2>1, <2>2, <2>3 DEF BtDriven
<1> QED BY <1>3, <1>4, <1>5, <1>6 DEF McpReadGpio

\* A configuration replaces the shadow by the buttons it reads.
LEMMA BtAbsorbs ==
  ASSUME BtInv, NEW m \in McpContexts, m.failed = mcp.failed, NEW read \in SUBSET BtButtons
  PROVE  BtReads(McpConfigured(m, read), McpAbsorbs(read))
<1>1. btAbsorbed \in BOOLEAN BY DEF BtInv, BtTypes
<1>2. McpAbsorbs(read) \in BOOLEAN BY <1>1 DEF McpAbsorbs
<1>3. /\ McpConfigured(m, read) \in McpContexts
      /\ McpConfigured(m, read).failed = mcp.failed
      /\ McpConfigured(m, read).input_shadow = read
  BY BtContextsMade
<1>4. ASSUME ~McpAbsorbs(read), ~mcp.failed
      PROVE  BtWillHave(panelBox, panel.raw) = read
  <2>1. read = mcp.input_shadow /\ ~btAbsorbed BY <1>4 DEF McpAbsorbs
  <2> QED BY <1>4, <2>1 DEF BtInv, BtTold
<1>5. BtTold(McpConfigured(m, read), panel, panelBox, McpAbsorbs(read))
  BY <1>3, <1>4 DEF BtTold
<1> QED BY <1>2, <1>3, <1>5 DEF BtReads

\* The boot keeps it.
LEMMA BtBootKeeps == BtInv /\ McpBoot => BtInv'
<1> SUFFICES ASSUME BtInv, McpBoot PROVE BtInv'
  OBVIOUS
<1>1. PICK m : m = [mcp EXCEPT !.booted = TRUE] OBVIOUS
<1>2. mcp \in McpContexts /\ mcpChip \in McpChips /\ mcpChip.pressed \in SUBSET BtButtons
  BY BtFields DEF BtInv, BtTypes
<1>3. m \in McpContexts BY <1>1, <1>2, BtContextsMade
<1>4. m.input_shadow = mcp.input_shadow /\ m.failed = mcp.failed
  BY <1>1, <1>2 DEF McpContexts
<1>5. UNCHANGED <<panel, btHeard>> BY DEF McpBoot
<1>6. CASE McpConfigureFails(m) BY <1>3, <1>4, <1>5, <1>6, BtConfigureFails
<1>7. CASE McpReadyRefused(m) BY <1>3, <1>5, <1>7, BtReadyRefused
<1>8. CASE /\ McpWriteOlat(m, TRUE)
           /\ mcp' = McpConfigured(m, mcpChip.pressed)
           /\ btAbsorbed' = McpAbsorbs(mcpChip.pressed)
           /\ UNCHANGED panelBox
  <2>1. BtReads(mcp', btAbsorbed') BY <1>2, <1>3, <1>4, <1>8, BtAbsorbs
  <2>2. BtTypes BY DEF BtInv
  <2>3. mcpChip' \in McpChips /\ mcpChip'.olat = m.output_shadow
    BY <1>3, <1>8, <2>2, BtOlatWritten
  <2>4. mcp'.output_shadow = m.output_shadow BY <1>2, <1>3, <1>8, BtContextsMade
  <2>5. BtTypes' BY <1>5, <1>8, <2>1, <2>3 DEF BtInv, BtTypes, BtReads
  <2>6. BtTold(mcp, panel, panelBox, btAbsorbed)'
    BY <1>5, <1>8, <2>1 DEF BtReads, BtTold
  <2>7. BtHeardRight(panel, btHeard)' /\ BtDriven(mcp, mcpChip)'
    BY <1>5, <2>3, <2>4 DEF BtInv, BtHeardRight, BtDriven
  <2> QED BY <2>5, <2>6, <2>7 DEF BtInv
<1> QED BY <1>1, <1>6, <1>7, <1>8 DEF McpBoot

\* A tick keeps it.
LEMMA BtMcpTickKeeps == BtInv /\ McpTick => BtInv'
<1> SUFFICES ASSUME BtInv, McpTick PROVE BtInv'
  OBVIOUS
<1>1. mcp \in McpContexts /\ mcpChip \in McpChips /\ BtTypes BY DEF BtInv, BtTypes
<1>2. UNCHANGED <<panel, btHeard>> BY DEF McpTick
<1>3. BtHeardRight(panel, btHeard)' BY <1>2 DEF BtInv, BtHeardRight
<1>4. panel' \in BtPanels BY <1>2 DEF BtInv, BtTypes
<1>5. CASE /\ McpReadGpio(mcp)
           /\ btAbsorbed' = (btAbsorbed /\ panelBox' = panelBox)
           /\ UNCHANGED mcpChip
  <2>1. BtReads(mcp, btAbsorbed) BY DEF BtInv, BtTypes, BtReads
  <2>2. BtDriven(mcp, mcpChip') BY <1>5 DEF BtInv, BtDriven
  <2>3. /\ mcp' \in McpContexts /\ panelBox' \in Seq(BtMessages) /\ btAbsorbed' \in BOOLEAN
        /\ BtTold(mcp, panel, panelBox, btAbsorbed)' /\ BtDriven(mcp, mcpChip)'
    BY <1>1, <1>2, <1>5, <2>1, <2>2, BtGpioRead
  <2> QED BY <1>1, <1>3, <1>4, <1>5, <2>3 DEF BtInv, BtTypes
<1>6. CASE McpConfigureFails(mcp) BY <1>1, <1>2, <1>6, BtConfigureFails
<1>7. CASE McpReadyRefused(mcp) BY <1>1, <1>2, <1>7, BtReadyRefused
<1>8. CASE /\ McpWriteOlat(mcp, TRUE)
           /\ \E read \in SUBSET BtButtons :
                /\ McpReadGpio(McpConfigured(mcp, read))
                /\ btAbsorbed' = (McpAbsorbs(read) /\ panelBox' = panelBox)
  <2>1. PICK read \in SUBSET BtButtons :
          /\ McpReadGpio(McpConfigured(mcp, read))
          /\ btAbsorbed' = (McpAbsorbs(read) /\ panelBox' = panelBox)
    BY <1>8
  <2>2. PICK m : m = McpConfigured(mcp, read) OBVIOUS
  <2>3. BtReads(m, McpAbsorbs(read)) BY <1>1, <2>2, BtAbsorbs
  <2>4. mcpChip' \in McpChips /\ mcpChip'.olat = mcp.output_shadow
    BY <1>1, <1>8, BtOlatWritten
  <2>5. m.output_shadow = mcp.output_shadow BY <1>1, <2>2, BtContextsMade
  <2>6. BtDriven(m, mcpChip') BY <2>4, <2>5 DEF BtDriven
  <2>7. McpReadGpio(m) BY <2>1, <2>2
  <2>8. /\ mcp' \in McpContexts /\ panelBox' \in Seq(BtMessages) /\ btAbsorbed' \in BOOLEAN
        /\ BtTold(mcp, panel, panelBox, btAbsorbed)' /\ BtDriven(mcp, mcpChip)'
    BY <1>1, <1>2, <2>1, <2>3, <2>6, <2>7, BtGpioRead
  <2> QED BY <1>3, <1>4, <2>4, <2>8 DEF BtInv, BtTypes
<1> QED BY <1>5, <1>6, <1>7, <1>8 DEF McpTick

\* A command for the LEDs keeps it.
LEMMA BtLedCmdKeeps == BtInv /\ McpLedCmd => BtInv'
<1> SUFFICES ASSUME BtInv, McpLedCmd PROVE BtInv'
  OBVIOUS
<1>1. mcp \in McpContexts /\ mcpChip \in McpChips /\ BtTypes BY DEF BtInv, BtTypes
<1>2. PICK valid \in SUBSET BtLeds, value \in SUBSET BtLeds :
        LET m == [mcp EXCEPT !.output_shadow = (@ \ valid) \cup (value \cap valid)]
        IN  IF ~mcp.configured THEN mcp' = m /\ UNCHANGED mcpChip
            ELSE \E acked \in BOOLEAN :
                   /\ McpWriteOlat(m, acked)
                   /\ mcp' = IF acked THEN m ELSE McpUnconfigured(m)
  BY DEF McpLedCmd
<1>3. PICK o, m : /\ o = (mcp.output_shadow \ valid) \cup (value \cap valid)
                  /\ m = [mcp EXCEPT !.output_shadow = o]
  OBVIOUS
<1>4. o \in SUBSET BtLeds BY <1>1, <1>3, BtFields
<1>5. /\ m \in McpContexts /\ m.input_shadow = mcp.input_shadow /\ m.failed = mcp.failed
      /\ m.configured = mcp.configured
  BY <1>1, <1>3, <1>4 DEF McpContexts
<1>6. /\ UNCHANGED <<panel, panelBox, btHeard, btAbsorbed>> BY DEF McpLedCmd
<1>7. \/ ~mcp.configured /\ mcp' = m /\ UNCHANGED mcpChip
      \/ \E acked \in BOOLEAN :
           McpWriteOlat(m, acked) /\ mcp' = IF acked THEN m ELSE McpUnconfigured(m)
  BY <1>2, <1>3
<1>8. /\ mcp' \in McpContexts /\ mcp'.input_shadow = mcp.input_shadow
      /\ mcp'.failed = mcp.failed /\ mcpChip' \in McpChips /\ BtDriven(mcp, mcpChip)'
  <2>1. CASE ~mcp.configured /\ mcp' = m /\ UNCHANGED mcpChip
    BY <1>1, <1>5, <2>1 DEF BtDriven
  <2>2. CASE \E acked \in BOOLEAN :
               McpWriteOlat(m, acked) /\ mcp' = IF acked THEN m ELSE McpUnconfigured(m)
    <3>1. PICK acked \in BOOLEAN :
            McpWriteOlat(m, acked) /\ mcp' = IF acked THEN m ELSE McpUnconfigured(m)
      BY <2>2
    <3>2. mcpChip' \in McpChips /\ (acked => mcpChip'.olat = m.output_shadow)
      BY <1>1, <1>5, <3>1, BtOlatWritten
    <3>3. CASE acked
      <4>1. mcp' = m BY <3>1, <3>3
      <4> QED BY <1>5, <3>2, <3>3, <4>1 DEF BtDriven
    <3>4. CASE ~acked
      <4>1. mcp' = McpUnconfigured(m) BY <3>1, <3>4
      <4>2. /\ mcp' \in McpContexts /\ ~mcp'.configured /\ mcp'.failed = m.failed
            /\ mcp'.input_shadow = m.input_shadow
        BY <1>5, <4>1, BtContextsMade
      <4> QED BY <1>5, <3>2, <4>2 DEF BtDriven
    <3> QED BY <3>3, <3>4
  <2> QED BY <1>7, <2>1, <2>2
<1>9. BtTypes' BY <1>6, <1>8 DEF BtInv, BtTypes
<1>10. BtTold(mcp, panel, panelBox, btAbsorbed)' BY <1>6, <1>8 DEF BtInv, BtTold
<1>11. BtHeardRight(panel, btHeard)' BY <1>6 DEF BtInv, BtHeardRight
<1> QED BY <1>8, <1>9, <1>10, <1>11 DEF BtInv

\* The panel's tick keeps it: the events of a button's step tell what it became.
LEMMA BtPanelTickKeeps == BtInv /\ PanelTick => BtInv'
<1> SUFFICES ASSUME BtInv, PanelTick PROVE BtInv'
  OBVIOUS
<1>1. PICK after, events :
        /\ after = [b \in BtButtons |-> PanelStep(b \in panel.raw, panel.button[b])]
        /\ events = [b \in BtButtons |-> PanelEvents(panel.button[b], after[b])]
  OBVIOUS
<1>2. /\ panelBox # << >> /\ Head(panelBox).tick /\ panelBox' = Tail(panelBox)
      /\ UNCHANGED <<mcpChip, btAbsorbed>>
      /\ \/ UNCHANGED <<mcp, panel, btHeard>>
         \/ /\ panel' = [panel EXCEPT !.button = after]
            /\ btHeard' = [b \in BtButtons |-> BtHearAll(btHeard[b], events[b])]
            /\ UNCHANGED mcp
         \/ mcp' = [mcp EXCEPT !.failed = TRUE] /\ UNCHANGED <<panel, btHeard>>
  BY <1>1 DEF PanelTick
<1>3. /\ mcp \in McpContexts /\ mcpChip \in McpChips /\ panel \in BtPanels
      /\ panelBox \in Seq(BtMessages) /\ btAbsorbed \in BOOLEAN
      /\ panel.raw \in SUBSET BtButtons /\ panel.button \in [BtButtons -> BtStates]
  BY BtFields DEF BtInv, BtTypes
<1>4. /\ panelBox' \in Seq(BtMessages)
      /\ BtWillHave(panelBox', panel.raw) = BtWillHave(panelBox, panel.raw)
  BY <1>2, <1>3, BtHandled
<1>5. \A b \in BtButtons :
        /\ after[b] \in BtStates
        /\ BtHearAll(BtShould(panel.button[b]), events[b]) = BtShould(after[b])
  <2>1. SUFFICES ASSUME NEW b \in BtButtons
                 PROVE  /\ after[b] \in BtStates
                        /\ BtHearAll(BtShould(panel.button[b]), events[b])
                             = BtShould(after[b])
    OBVIOUS
  <2>2. PICK raw, s, t : raw = (b \in panel.raw) /\ s = panel.button[b] /\ t = after[b]
    OBVIOUS
  <2>3. raw \in BOOLEAN /\ s \in BtStates BY <1>3, <2>2
  <2>4. t = PanelStep(raw, s) BY <1>1, <2>2
  <2>5. events[b] = PanelEvents(s, t) BY <1>1, <2>2
  <2>6. t \in BtStates /\ BtHearAll(BtShould(s), PanelEvents(s, t)) = BtShould(t)
    BY <2>3, <2>4, BtStepHeard
  <2> QED BY <2>2, <2>5, <2>6
<1>6. after \in [BtButtons -> BtStates] BY <1>1, <1>5
<1>7. CASE UNCHANGED <<mcp, panel, btHeard>>
  <2>1. BtTypes' BY <1>2, <1>3, <1>4, <1>7 DEF BtTypes
  <2>2. BtTold(mcp, panel, panelBox, btAbsorbed)' BY <1>2, <1>4, <1>7 DEF BtInv, BtTold
  <2> QED BY <1>2, <1>7, <2>1, <2>2 DEF BtInv, BtHeardRight, BtDriven
<1>8. CASE /\ panel' = [panel EXCEPT !.button = after]
           /\ btHeard' = [b \in BtButtons |-> BtHearAll(btHeard[b], events[b])]
           /\ UNCHANGED mcp
  <2>1. panel' \in BtPanels /\ panel'.raw = panel.raw /\ panel'.button = after
    BY <1>3, <1>6, <1>8 DEF BtPanels
  <2>2. BtTypes' BY <1>2, <1>3, <1>4, <1>8, <2>1 DEF BtTypes
  <2>3. BtTold(mcp, panel, panelBox, btAbsorbed)'
    BY <1>2, <1>4, <1>8, <2>1 DEF BtInv, BtTold
  <2>4. \A b \in BtButtons : btHeard[b] = BtShould(panel.button[b])
    BY DEF BtInv, BtHeardRight
  <2>5. \A b \in BtButtons : BtHearAll(btHeard[b], events[b]) = BtShould(after[b])
    BY <1>5, <2>4
  <2>6. BtHeardRight(panel, btHeard)' BY <1>8, <2>1, <2>5 DEF BtHeardRight
  <2> QED BY <1>2, <1>8, <2>2, <2>3, <2>6 DEF BtInv, BtDriven
<1>9. CASE mcp' = [mcp EXCEPT !.failed = TRUE] /\ UNCHANGED <<panel, btHeard>>
  <2>1. mcp' \in McpContexts BY <1>3, <1>9, BtContextsMade
  <2>2. /\ mcp'.failed /\ mcp'.configured = mcp.configured
        /\ mcp'.output_shadow = mcp.output_shadow
    BY <1>3, <1>9 DEF McpContexts
  <2>3. BtTypes' BY <1>2, <1>3, <1>4, <1>9, <2>1 DEF BtTypes
  <2>4. BtTold(mcp, panel, panelBox, btAbsorbed)' BY <2>2 DEF BtTold
  <2>5. BtDriven(mcp, mcpChip)' BY <1>2, <2>2 DEF BtInv, BtDriven
  <2> QED BY <1>9, <2>3, <2>4, <2>5 DEF BtInv, BtHeardRight
<1> QED BY <1>2, <1>7, <1>8, <1>9

\* The panel keeps it when it gets a mask.
LEMMA BtPanelMaskKeeps == BtInv /\ PanelInputsChanged => BtInv'
<1> SUFFICES ASSUME BtInv, PanelInputsChanged PROVE BtInv'
  OBVIOUS
<1>1. PICK mask : mask = Head(panelBox).pressed_mask OBVIOUS
<1>2. /\ panelBox # << >> /\ ~Head(panelBox).tick /\ panelBox' = Tail(panelBox)
      /\ panel' = [panel EXCEPT !.raw = mask, !.raw_valid = TRUE]
      /\ UNCHANGED <<mcp, mcpChip, btHeard, btAbsorbed>>
  BY <1>1 DEF PanelInputsChanged
<1>3. panel \in BtPanels /\ panelBox \in Seq(BtMessages) BY DEF BtInv, BtTypes
<1>4. /\ Head(panelBox) \in BtMessages /\ panelBox' \in Seq(BtMessages)
      /\ BtWillHave(panelBox', mask) = BtWillHave(panelBox, panel.raw)
  BY <1>1, <1>2, <1>3, BtHandled
<1>5. mask \in SUBSET BtButtons BY <1>1, <1>4, BtFields
<1>6. panel' \in BtPanels /\ panel'.raw = mask /\ panel'.button = panel.button
  BY <1>2, <1>3, <1>5 DEF BtPanels
<1>7. BtTypes' BY <1>2, <1>4, <1>6 DEF BtInv, BtTypes
<1>8. BtTold(mcp, panel, panelBox, btAbsorbed)' BY <1>2, <1>4, <1>6 DEF BtInv, BtTold
<1> QED BY <1>2, <1>6, <1>7, <1>8 DEF BtInv, BtHeardRight, BtDriven

\* A published tick keeps it.
LEMMA BtPublishedKeeps == BtInv /\ BtTickPublished => BtInv'
<1> SUFFICES ASSUME BtInv, BtTickPublished PROVE BtInv'
  OBVIOUS
<1>1. /\ UNCHANGED <<mcpChip, panel, btHeard, btAbsorbed>>
      /\ \/ panelBox' = Append(panelBox, BtTick) /\ UNCHANGED mcp
         \/ mcp' = [mcp EXCEPT !.failed = TRUE] /\ UNCHANGED panelBox
  BY DEF BtTickPublished
<1>2. mcp \in McpContexts /\ panelBox \in Seq(BtMessages) BY DEF BtInv, BtTypes
<1>3. CASE panelBox' = Append(panelBox, BtTick) /\ UNCHANGED mcp
  <2>1. PICK x : x = BtTick OBVIOUS
  <2>2. x \in BtMessages /\ x.tick BY <2>1 DEF BtTick, BtMessages
  <2>3. /\ panelBox' \in Seq(BtMessages)
        /\ BtWillHave(panelBox', panel.raw) = BtWillHave(panelBox, panel.raw)
    BY <1>2, <1>3, <2>1, <2>2, BtAppended
  <2>4. BtTypes' BY <1>1, <1>3, <2>3 DEF BtInv, BtTypes
  <2>5. BtTold(mcp, panel, panelBox, btAbsorbed)' BY <1>1, <1>3, <2>3 DEF BtInv, BtTold
  <2> QED BY <1>1, <1>3, <2>4, <2>5 DEF BtInv, BtHeardRight, BtDriven
<1>4. CASE mcp' = [mcp EXCEPT !.failed = TRUE] /\ UNCHANGED panelBox
  <2>1. mcp' \in McpContexts BY <1>2, <1>4, BtContextsMade
  <2>2. /\ mcp'.failed /\ mcp'.configured = mcp.configured
        /\ mcp'.output_shadow = mcp.output_shadow
    BY <1>2, <1>4 DEF McpContexts
  <2>3. BtTypes' BY <1>1, <1>4, <2>1 DEF BtInv, BtTypes
  <2>4. BtTold(mcp, panel, panelBox, btAbsorbed)' BY <2>2 DEF BtTold
  <2>5. BtDriven(mcp, mcpChip)' BY <1>1, <2>2 DEF BtInv, BtDriven
  <2> QED BY <1>1, <2>3, <2>4, <2>5 DEF BtInv, BtHeardRight
<1> QED BY <1>1, <1>3, <1>4

\* A finger moves only the buttons.
LEMMA BtFingerKeeps == BtInv /\ BtFinger => BtInv'
<1> SUFFICES ASSUME BtInv, BtFinger PROVE BtInv'
  OBVIOUS
<1>1. PICK b \in BtButtons :
        mcpChip' = [mcpChip EXCEPT !.pressed = IF b \in @ THEN @ \ {b} ELSE @ \cup {b}]
  BY DEF BtFinger
<1>2. mcpChip \in McpChips /\ mcpChip.pressed \in SUBSET BtButtons
  BY BtFields DEF BtInv, BtTypes
<1>3. PICK p : p = IF b \in mcpChip.pressed THEN mcpChip.pressed \ {b}
                   ELSE mcpChip.pressed \cup {b}
  OBVIOUS
<1>4. p \in SUBSET BtButtons BY <1>2, <1>3
<1>5. mcpChip' = [mcpChip EXCEPT !.pressed = p] BY <1>1, <1>3
<1>6. mcpChip' \in McpChips /\ mcpChip'.olat = mcpChip.olat
  BY <1>2, <1>4, <1>5 DEF McpChips
<1>7. UNCHANGED <<mcp, panel, panelBox, btHeard, btAbsorbed>> BY DEF BtFinger
<1>8. BtTypes' BY <1>6, <1>7 DEF BtInv, BtTypes
<1>9. BtTold(mcp, panel, panelBox, btAbsorbed)' BY <1>7 DEF BtInv, BtTold
<1> QED BY <1>6, <1>7, <1>8, <1>9 DEF BtInv, BtHeardRight, BtDriven

\* What the device starts with.
LEMMA BtStarts ==
  /\ McpFresh \in McpContexts /\ ~McpFresh.configured /\ McpFresh.input_shadow = {}
  /\ PanelFresh \in BtPanels /\ PanelFresh.raw = {}
  /\ \A b \in BtButtons : BtShould(PanelFresh.button[b]) = "up"
  /\ << >> \in Seq(BtMessages) /\ BtWillHave(<< >>, {}) = {}
<1>1. McpFresh \in McpContexts /\ ~McpFresh.configured /\ McpFresh.input_shadow = {}
  BY DEF McpFresh, McpContexts
<1>2. PanelFresh \in BtPanels /\ PanelFresh.raw = {}
  BY DEF PanelFresh, BtPanels, BtStates
<1>3. \A b \in BtButtons : ~PanelFresh.button[b].stable BY DEF PanelFresh
<1>4. \A b \in BtButtons : BtShould(PanelFresh.button[b]) = "up" BY <1>3 DEF BtShould
<1>5. << >> \in Seq(BtMessages) /\ Len(<< >>) = 0 OBVIOUS
<1>6. \A i \in 1 .. Len(<< >>) : << >>[i].tick BY <1>5
<1>7. BtWillHave(<< >>, {}) = {} BY <1>5, <1>6, BtWillIs
<1> QED BY <1>1, <1>2, <1>4, <1>5, <1>7

\* The device starts, for the first time or again.
LEMMA BtStartHolds ==
  /\ BtInit => BtInv
  /\ BtInv /\ BtRestart => BtInv'
<1>1. ASSUME BtInit PROVE BtInv
  <2>1. mcpChip \in McpChips BY <1>1 DEF BtInit, McpChips
  <2>2. BtTypes BY <1>1, <2>1, BtStarts DEF BtInit, BtStart, BtTypes
  <2>3. BtHeardRight(panel, btHeard) BY <1>1, BtStarts DEF BtInit, BtStart, BtHeardRight
  <2>4. BtTold(mcp, panel, panelBox, btAbsorbed)
    BY <1>1, BtStarts DEF BtInit, BtStart, BtTold
  <2>5. BtDriven(mcp, mcpChip) BY <1>1, BtStarts DEF BtInit, BtStart, BtDriven
  <2> QED BY <2>2, <2>3, <2>4, <2>5 DEF BtInv
<1>2. ASSUME BtInv, BtRestart PROVE BtInv'
  <2>1. mcpChip' \in McpChips BY <1>2 DEF BtInv, BtTypes, BtRestart
  <2>2. BtTypes' BY <1>2, <2>1, BtStarts DEF BtRestart, BtTypes
  <2>3. BtHeardRight(panel, btHeard)' BY <1>2, BtStarts DEF BtRestart, BtHeardRight
  <2>4. BtTold(mcp, panel, panelBox, btAbsorbed)'
    BY <1>2, BtStarts DEF BtRestart, BtTold
  <2>5. BtDriven(mcp, mcpChip)' BY <1>2, BtStarts DEF BtRestart, BtDriven
  <2> QED BY <2>2, <2>3, <2>4, <2>5 DEF BtInv
<1> QED BY <1>1, <1>2

\* The buttons' invariant holds and says that the views agree.
LEMMA BtInvHolds ==
  /\ BtInit => BtInv
  /\ BtInv /\ [BtNext]_btVars => BtInv'
  /\ BtInv => ButtonsAgree
<1>1. BtInv /\ UNCHANGED btVars => BtInv'
  BY DEF btVars, BtInv, BtTypes, BtHeardRight, BtTold, BtDriven
<1>2. BtInv /\ BtNext => BtInv'
  BY BtBootKeeps, BtMcpTickKeeps, BtLedCmdKeeps, BtPanelTickKeeps, BtPanelMaskKeeps,
     BtPublishedKeeps, BtFingerKeeps, BtStartHolds DEF BtNext
<1>3. BtInv => ButtonsAgree
  <2>1. SUFFICES ASSUME BtInv PROVE ButtonsAgree OBVIOUS
  <2>2. \A b \in BtButtons : btHeard[b] = BtShould(panel.button[b])
    BY <2>1 DEF BtInv, BtHeardRight
  <2>3. ~btAbsorbed /\ ~mcp.failed => BtPanelWillHave = mcp.input_shadow
    BY <2>1 DEF BtInv, BtTold, BtPanelWillHave
  <2>4. mcp.configured => mcpChip.olat = mcp.output_shadow BY <2>1 DEF BtInv, BtDriven
  <2> QED BY <2>2, <2>3, <2>4 DEF ButtonsAgree, BtShould
<1> QED BY <1>1, <1>2, <1>3, BtStartHolds

\* The buttons are one of the parts.
LEMMA BtRuns == Spec => BtInit /\ [][BtNext]_btVars
<1>1. Init => BtInit BY DEF Init
<1>2. [Next]_actorsVars => [BtNext]_btVars BY DEF Next, actorsVars
<1> QED BY <1>1, <1>2, PTL DEF Spec

\* What the application heard of a button, the panel's masks, the shadow the
\* MCP23008 actor compares with and the LEDs a configured expander drives agree:
\* for any buttons and LEDs, any size of the mailboxes and any debounce and long
\* press times (ev_panel_actor.c, ev_mcp23008_actor.c).
THEOREM ThreeViewsAgree == Spec => []ButtonsAgree
<1>1. BtInv /\ [BtNext]_btVars => BtInv' BY BtInvHolds
<1>2. BtInv => ButtonsAgree BY BtInvHolds
<1> QED BY <1>1, <1>2, BtInvHolds, BtRuns, PTL

-----------------------------------------------------------------------------
(* Start-up. *)

SvContexts ==
  [configured : BOOLEAN, required : SUBSET SvHardware, known : SUBSET SvHardware,
   boot_observed : BOOLEAN, published : BOOLEAN, ticks : Nat,
   active : SUBSET SvHardware, observed : SUBSET SvHardware, failed : BOOLEAN]

SvMessages == {"BOOT", "TICK"} \cup SvHardware

\* The devices whose READY is in the box b.
SvIn(b) == {d \in SvHardware : \E i \in 1 .. Len(b) : b[i] = d}

SvNoBoot(b) == \A i \in 1 .. Len(b) : b[i] # "BOOT"
SvBootFirst(b) == b # << >> /\ Head(b) = "BOOT" /\ SvNoBoot(Tail(b))

\* The devices the supervisor counts are those that published, less at most the
\* ones whose message still waits.
SvCounts(s, waiting, ready) == ready \ waiting \subseteq s.active /\ s.active \subseteq ready

\* After the boot message: what was counted was told, or something is missing.
SvTells(s, told, waiting, ready) ==
  /\ SvCounts(s, waiting, ready)
  /\ s.published => told = s.active
  /\ ~s.published => /\ s.observed = s.active /\ s.ticks < SvSettle
                     /\ s.required = {} \/ ~(s.required \subseteq s.active)

\* The supervisor at each stage of the start-up.
SvStage(s, b, told, waiting, ready) ==
  /\ ~s.configured => s = SvFresh /\ b = << >> /\ ready = {}
  /\ s.configured /\ ~s.boot_observed => SvBootFirst(b) /\ ready \subseteq waiting
  /\ s.configured /\ s.boot_observed => SvNoBoot(b) /\ SvTells(s, told, waiting, ready)

SvInv ==
  /\ sv \in SvContexts /\ svBox \in Seq(SvMessages)
  /\ svReady \subseteq SvHardware
  /\ sv.failed => sv.configured
  /\ ~sv.failed => /\ SvIn(svBox) \subseteq svReady
                   /\ SvStage(sv, svBox, svTold, SvIn(svBox), svReady)

\* A message that is put in the box.
LEMMA SvAppended ==
  ASSUME NEW b \in Seq(SvMessages), NEW m \in SvMessages, NEW c, c = Append(b, m)
  PROVE  /\ c \in Seq(SvMessages)
         /\ SvIn(c) = SvIn(b) \cup ({m} \cap SvHardware)
         /\ m # "BOOT" /\ SvNoBoot(b) => SvNoBoot(c)
         /\ m # "BOOT" /\ SvBootFirst(b) => SvBootFirst(c)
<1>0. c \in Seq(SvMessages) OBVIOUS
<1>1. PICK n : n = Len(b) OBVIOUS
<1>2. n \in Nat /\ Len(c) = n + 1 /\ c[n + 1] = m /\ \A i \in 1 .. n : c[i] = b[i]
  BY <1>1
<1>3. SvIn(c) = SvIn(b) \cup ({m} \cap SvHardware)
  <2>1. \A i \in 1 .. Len(c) : i \in 1 .. n \/ i = n + 1 BY <1>2
  <2>2. n + 1 \in 1 .. Len(c) /\ \A i \in 1 .. n : i \in 1 .. Len(c) BY <1>2
  <2> QED BY <1>1, <1>2, <2>1, <2>2 DEF SvIn
<1>4. m # "BOOT" /\ SvNoBoot(b) => SvNoBoot(c) BY <1>1, <1>2 DEF SvNoBoot
<1>5. ASSUME m # "BOOT", SvBootFirst(b) PROVE SvBootFirst(c)
  <2>1. b # << >> /\ Head(b) = "BOOT" /\ SvNoBoot(Tail(b)) BY <1>5 DEF SvBootFirst
  <2>2. n > 0 BY <1>1, <2>1
  <2>3. c # << >> /\ Head(c) = Head(b) BY <1>0, <1>1, <1>2, <2>2
  <2>4. Len(Tail(b)) = n - 1 /\ Len(Tail(c)) = n
    BY <1>0, <1>1, <1>2, <2>1, <2>3
  <2>5. /\ \A i \in 1 .. n - 1 : Tail(b)[i] = b[i + 1]
        /\ \A i \in 1 .. n : Tail(c)[i] = c[i + 1]
    BY <1>0, <1>1, <1>2, <2>1, <2>3
  <2>6. ASSUME NEW i \in 1 .. n PROVE Tail(c)[i] # "BOOT"
    <3>1. CASE i = n BY <1>2, <1>5, <2>5, <3>1
    <3>2. CASE i # n
      <4>1. i \in 1 .. n - 1 /\ i + 1 \in 1 .. n BY <1>2, <3>2
      <4> QED BY <1>2, <2>1, <2>4, <2>5, <4>1 DEF SvNoBoot
    <3> QED BY <3>1, <3>2
  <2> QED BY <2>1, <2>3, <2>4, <2>6 DEF SvBootFirst, SvNoBoot
<1> QED BY <1>0, <1>3, <1>4, <1>5

\* A message that is taken out of the box.
LEMMA SvTaken ==
  ASSUME NEW b \in Seq(SvMessages), b # << >>, NEW m, m = Head(b), NEW c, c = Tail(b)
  PROVE  /\ c \in Seq(SvMessages) /\ m \in SvMessages
         /\ SvIn(b) = SvIn(c) \cup ({m} \cap SvHardware)
         /\ SvNoBoot(b) => SvNoBoot(c) /\ m # "BOOT"
<1>1. PICK n : n = Len(b) OBVIOUS
<1>2. n \in Nat /\ n > 0 BY <1>1
<1>3. /\ c \in Seq(SvMessages) /\ Len(c) = n - 1 /\ m = b[1]
      /\ \A i \in 1 .. n - 1 : c[i] = b[i + 1]
  BY <1>1
<1>4. b[1] \in SvMessages BY <1>1, <1>2
<1>5. \A i \in 1 .. n : i = 1 \/ (i - 1 \in 1 .. n - 1 /\ b[i] = c[i - 1])
  <2> SUFFICES ASSUME NEW i \in 1 .. n, i # 1 PROVE i - 1 \in 1 .. n - 1 /\ b[i] = c[i - 1]
    OBVIOUS
  <2>1. i - 1 \in 1 .. n - 1 /\ (i - 1) + 1 = i BY <1>2
  <2> QED BY <1>3, <2>1
<1>6. \A i \in 1 .. n - 1 : i + 1 \in 1 .. n /\ c[i] = b[i + 1] BY <1>2, <1>3
<1>7. 1 \in 1 .. n BY <1>2
<1>8. SvIn(b) = SvIn(c) \cup ({m} \cap SvHardware)
  <2>1. ASSUME NEW d \in SvIn(b), d # m PROVE d \in SvIn(c)
    <3>1. d \in SvHardware BY <2>1 DEF SvIn
    <3>2. PICK i \in 1 .. n : b[i] = d BY <1>1, <2>1 DEF SvIn
    <3>3. i - 1 \in 1 .. Len(c) /\ c[i - 1] = d BY <1>3, <1>5, <2>1, <3>2
    <3> QED BY <3>1, <3>3 DEF SvIn
  <2>2. SvIn(c) \subseteq SvIn(b) BY <1>1, <1>3, <1>6 DEF SvIn
  <2>3. {m} \cap SvHardware \subseteq SvIn(b) BY <1>1, <1>3, <1>7 DEF SvIn
  <2>4. SvIn(b) \subseteq SvHardware BY DEF SvIn
  <2> QED BY <2>1, <2>2, <2>3, <2>4
<1>9. SvNoBoot(b) => SvNoBoot(c) /\ m # "BOOT" BY <1>1, <1>3, <1>6, <1>7 DEF SvNoBoot
<1> QED BY <1>3, <1>4, <1>8, <1>9

\* The fields of the supervisor's context.
LEMMA SvFields ==
  \A s \in SvContexts :
    /\ s.ticks \in Nat /\ s.active \in SUBSET SvHardware /\ s.observed \in SUBSET SvHardware
    /\ s.known \in SUBSET SvHardware /\ s.required \in SUBSET SvHardware
    /\ s.published \in BOOLEAN /\ s.boot_observed \in BOOLEAN
    /\ s.configured \in BOOLEAN /\ s.failed \in BOOLEAN
BY DEF SvContexts

\* SYSTEM_READY tells what is counted, or fails the handler.
LEMMA SvPublishIs ==
  ASSUME NEW s \in SvContexts, SvPublish(s), s.configured, s.boot_observed, s.published,
         NEW waiting, NEW ready, SvCounts(s, waiting, ready)
  PROVE  /\ sv' \in SvContexts /\ sv'.configured /\ sv'.boot_observed
         /\ ~sv'.failed => SvTells(sv', svTold', waiting, ready)
<1>1. CASE sv' = s /\ svTold' = s.active BY <1>1 DEF SvTells
<1>2. CASE sv' = [s EXCEPT !.failed = TRUE]
  <2>1. sv' \in SvContexts BY <1>2 DEF SvContexts
  <2>2. sv'.configured = s.configured /\ sv'.boot_observed = s.boot_observed /\ sv'.failed
    BY <1>2 DEF SvContexts
  <2> QED BY <2>1, <2>2
<1> QED BY <1>1, <1>2 DEF SvPublish

\* ev_supervisor_actor_try_publish_if_settled: tells, or something is missing.
LEMMA SvTryPublishIs ==
  ASSUME NEW s \in SvContexts, SvTryPublish(s), s.configured, s.boot_observed, ~s.published,
         ~s.failed, s.observed = s.active,
         NEW waiting, NEW ready, SvCounts(s, waiting, ready)
  PROVE  /\ sv' \in SvContexts /\ sv'.configured /\ sv'.boot_observed
         /\ ~sv'.failed => SvTells(sv', svTold', waiting, ready)
<1>1. CASE s.required \subseteq s.observed \/ s.ticks >= SvSettle
  <2>1. PICK o : o = IF s.ticks >= SvSettle THEN s.observed \cup s.known ELSE s.observed OBVIOUS
  <2>2. o \in SUBSET SvHardware BY <2>1, SvFields
  <2>3. PICK q : q = [s EXCEPT !.published = TRUE, !.observed = o] OBVIOUS
  <2>4. q \in SvContexts BY <2>2, <2>3 DEF SvContexts
  <2>5. /\ q.configured = s.configured /\ q.boot_observed = s.boot_observed /\ q.published
        /\ q.active = s.active
    BY <2>3 DEF SvContexts
  <2>6. SvPublish(q) BY <1>1, <2>1, <2>3 DEF SvTryPublish, SvContexts
  <2>7. SvCounts(q, waiting, ready) BY <2>5 DEF SvCounts
  <2> QED BY <2>4, <2>5, <2>6, <2>7, SvPublishIs
<1>2. CASE ~(s.required \subseteq s.observed \/ s.ticks >= SvSettle)
  <2>1. sv' = s /\ svTold' = svTold BY <1>2 DEF SvTryPublish
  <2>2. s.ticks < SvSettle BY <1>2, SvFields, SvAssumption
  <2>3. ~(s.required \subseteq s.active) BY <1>2
  <2> QED BY <2>1, <2>2, <2>3 DEF SvTells
<1> QED BY <1>1, <1>2

\* The board is configured, and BOOT_COMPLETED is the first message.
LEMMA SvConfigureKeeps == ASSUME SvInv, SvConfigure PROVE SvInv'
<1>0. /\ sv \in SvContexts /\ ~sv.configured /\ svReady' = svReady
      /\ svBox' = Append(svBox, "BOOT")
  BY DEF SvInv, SvConfigure
<1>1. ~sv.failed BY <1>0 DEF SvInv
<1>2. sv = SvFresh /\ svBox = << >> /\ svReady = {} BY <1>0, <1>1 DEF SvInv, SvStage
<1>3. PICK c \in SvConfigs :
        /\ c.required \cup c.optional \subseteq SvHardware
        /\ sv' = [sv EXCEPT !.configured = TRUE, !.required = c.required,
                            !.known = c.required \cup c.optional]
  BY DEF SvConfigure
<1>4. sv' \in SvContexts BY <1>0, <1>3 DEF SvContexts
<1>5. sv'.configured /\ sv'.failed = sv.failed /\ sv'.boot_observed = sv.boot_observed
  BY <1>0, <1>3 DEF SvContexts
<1>6. ~sv.boot_observed BY <1>2 DEF SvFresh
<1>7. svBox' = <<"BOOT">> BY <1>0, <1>2
<1>8. svBox' \in Seq(SvMessages) BY <1>7 DEF SvMessages
<1>9. SvBootFirst(svBox')
  <2>1. svBox' # << >> /\ Head(svBox') = "BOOT" /\ Tail(svBox') = << >> BY <1>7
  <2>2. SvNoBoot(<< >>) BY DEF SvNoBoot
  <2> QED BY <2>1, <2>2 DEF SvBootFirst
<1>10. SvIn(svBox') = {}
  <2>1. Len(svBox') = 1 /\ svBox'[1] = "BOOT" BY <1>7
  <2>2. "BOOT" \notin SvHardware BY SvAssumption
  <2> QED BY <2>1, <2>2 DEF SvIn
<1>11. SvStage(sv', svBox', svTold', SvIn(svBox'), svReady')
  BY <1>0, <1>2, <1>5, <1>6, <1>9 DEF SvStage
<1> QED BY <1>0, <1>1, <1>2, <1>4, <1>5, <1>8, <1>10, <1>11 DEF SvInv

\* A message is put in the box, or its publisher fails.
LEMMA SvSendKeeps ==
  ASSUME SvInv, sv.configured, ~sv.failed, NEW m \in SvMessages, m # "BOOT", SvSend(m),
         svReady' = svReady \cup ({m} \cap SvHardware), svTold' = svTold
  PROVE  SvInv'
<1>0. /\ sv \in SvContexts /\ svBox \in Seq(SvMessages) /\ svReady \subseteq SvHardware
      /\ SvIn(svBox) \subseteq svReady
      /\ SvStage(sv, svBox, svTold, SvIn(svBox), svReady)
  BY DEF SvInv
<1>1. svReady' \subseteq SvHardware BY <1>0
<1>2. CASE svBox' = Append(svBox, m) /\ sv' = sv
  <2>1. PICK b, c : b = svBox /\ c = svBox' OBVIOUS
  <2>2. b \in Seq(SvMessages) /\ c = Append(b, m) BY <1>0, <1>2, <2>1
  <2>3. /\ c \in Seq(SvMessages)
        /\ SvIn(c) = SvIn(b) \cup ({m} \cap SvHardware)
        /\ SvNoBoot(b) => SvNoBoot(c)
        /\ SvBootFirst(b) => SvBootFirst(c)
    BY <2>2, SvAppended
  <2>4. SvIn(c) \subseteq svReady' BY <1>0, <2>1, <2>3
  <2>5. CASE sv.boot_observed
    <3>1. SvNoBoot(b) /\ SvTells(sv, svTold, SvIn(b), svReady)
      BY <1>0, <2>1, <2>5 DEF SvStage
    <3>2. SvCounts(sv, SvIn(c), svReady') BY <2>3, <3>1 DEF SvTells, SvCounts
    <3>3. SvTells(sv, svTold, SvIn(c), svReady') BY <3>1, <3>2 DEF SvTells
    <3>4. SvStage(sv', c, svTold', SvIn(c), svReady')
      BY <1>2, <2>3, <2>5, <3>1, <3>3 DEF SvStage
    <3> QED BY <1>0, <1>1, <1>2, <2>1, <2>3, <2>4, <3>4 DEF SvInv
  <2>6. CASE ~sv.boot_observed
    <3>1. SvBootFirst(b) /\ svReady \subseteq SvIn(b) BY <1>0, <2>1, <2>6 DEF SvStage
    <3>2. svReady' \subseteq SvIn(c) BY <2>3, <3>1
    <3>3. SvStage(sv', c, svTold', SvIn(c), svReady')
      BY <1>2, <2>3, <2>6, <3>1, <3>2 DEF SvStage
    <3> QED BY <1>0, <1>1, <1>2, <2>1, <2>3, <2>4, <3>3 DEF SvInv
  <2> QED BY <2>5, <2>6
<1>3. CASE sv' = [sv EXCEPT !.failed = TRUE] /\ svBox' = svBox
  <2>1. sv' \in SvContexts /\ sv'.failed /\ sv'.configured = sv.configured
    BY <1>0, <1>3 DEF SvContexts
  <2> QED BY <1>0, <1>1, <1>3, <2>1 DEF SvInv
<1> QED BY <1>2, <1>3 DEF SvSend

\* READY and ticks are published.
LEMMA SvPublishersKeep == ASSUME SvInv, SvDeviceReady \/ SvTickPublished PROVE SvInv'
<1>0. "TICK" \notin SvHardware /\ "BOOT" \notin SvHardware BY SvAssumption
<1>1. CASE SvDeviceReady
  <2>1. /\ sv.configured /\ ~sv.failed /\ svTold' = svTold
        /\ \E d \in sv.known : SvSend(d) /\ svReady' = svReady \cup {d}
    BY <1>1 DEF SvDeviceReady
  <2>2. PICK d \in sv.known : SvSend(d) /\ svReady' = svReady \cup {d} BY <2>1
  <2>3. d \in SvHardware BY SvFields DEF SvInv
  <2>4. d \in SvMessages /\ d # "BOOT" /\ svReady' = svReady \cup ({d} \cap SvHardware)
    BY <1>0, <2>2, <2>3 DEF SvMessages
  <2> QED BY <2>1, <2>2, <2>4, SvSendKeeps
<1>2. CASE SvTickPublished
  <2>1. sv.configured /\ ~sv.failed /\ SvSend("TICK") /\ svReady' = svReady /\ svTold' = svTold
    BY <1>2 DEF SvTickPublished
  <2>2. "TICK" \in SvMessages /\ svReady' = svReady \cup ({"TICK"} \cap SvHardware)
    BY <1>0, <2>1 DEF SvMessages
  <2> QED BY <2>1, <2>2, SvSendKeeps
<1> QED BY <1>1, <1>2

\* EV_BOOT_COMPLETED: everything that published waits behind it.
LEMMA SvBootKeeps == ASSUME SvInv, SvBoot PROVE SvInv'
<1>0. /\ sv \in SvContexts /\ svBox \in Seq(SvMessages) /\ svReady \subseteq SvHardware
      /\ svBox # << >> /\ ~sv.failed /\ Head(svBox) = "BOOT" /\ svBox' = Tail(svBox)
      /\ svReady' = svReady /\ svTold' = svTold
      /\ SvIn(svBox) \subseteq svReady
      /\ SvStage(sv, svBox, svTold, SvIn(svBox), svReady)
  BY DEF SvInv, SvBoot, SvTake
<1>1. PICK b, c : b = svBox /\ c = svBox' OBVIOUS
<1>2. /\ c \in Seq(SvMessages)
      /\ SvIn(b) = SvIn(c) \cup ({"BOOT"} \cap SvHardware)
      /\ SvNoBoot(b) => "BOOT" # "BOOT"
  <2>1. b \in Seq(SvMessages) /\ b # << >> /\ "BOOT" = Head(b) /\ c = Tail(b)
    BY <1>0, <1>1
  <2> QED BY <2>1, SvTaken
<1>3. SvIn(c) = SvIn(b) BY <1>2, SvAssumption
<1>4. sv.configured /\ ~sv.boot_observed
  <2>1. sv.configured BY <1>0 DEF SvStage
  <2> QED BY <1>0, <1>1, <1>2, <2>1 DEF SvStage
<1>5. SvBootFirst(b) /\ svReady \subseteq SvIn(b) BY <1>0, <1>1, <1>4 DEF SvStage
<1>6. SvNoBoot(c) BY <1>0, <1>1, <1>5 DEF SvBootFirst
<1>7. sv' = [sv EXCEPT !.boot_observed = TRUE, !.published = FALSE, !.ticks = 0,
                       !.active = {}, !.observed = {}]
  BY DEF SvBoot
<1>8. sv' \in SvContexts BY <1>0, <1>7 DEF SvContexts
<1>9. /\ sv'.configured = sv.configured /\ sv'.boot_observed /\ sv'.failed = sv.failed
      /\ sv'.published = FALSE /\ sv'.ticks = 0 /\ sv'.active = {} /\ sv'.observed = {}
  BY <1>0, <1>7 DEF SvContexts
<1>10. SvCounts(sv', SvIn(c), svReady') BY <1>0, <1>3, <1>5, <1>9 DEF SvCounts
<1>11. 0 < SvSettle BY SvAssumption
<1>12. sv'.required = {} \/ ~(sv'.required \subseteq sv'.active) BY <1>9
<1>13. SvTells(sv', svTold', SvIn(c), svReady') BY <1>9, <1>10, <1>11, <1>12 DEF SvTells
<1>14. SvStage(sv', c, svTold', SvIn(c), svReady')
  BY <1>4, <1>6, <1>9, <1>13 DEF SvStage
<1> QED BY <1>0, <1>1, <1>2, <1>3, <1>4, <1>8, <1>9, <1>14 DEF SvInv

\* A message that is not the boot's is handled after the boot's.
LEMMA SvTookOther ==
  ASSUME SvInv, NEW m, m # "BOOT", SvTake(m)
  PROVE  /\ sv \in SvContexts /\ ~sv.failed /\ sv.configured /\ sv.boot_observed
         /\ svBox' \in Seq(SvMessages) /\ SvNoBoot(svBox')
         /\ SvIn(svBox) = SvIn(svBox') \cup ({m} \cap SvHardware)
         /\ SvIn(svBox) \subseteq svReady /\ svReady \subseteq SvHardware
         /\ svReady' = svReady
         /\ SvTells(sv, svTold, SvIn(svBox), svReady)
<1>0. /\ sv \in SvContexts /\ svBox \in Seq(SvMessages) /\ svReady \subseteq SvHardware
      /\ svBox # << >> /\ ~sv.failed /\ Head(svBox) = m /\ svBox' = Tail(svBox)
      /\ svReady' = svReady /\ SvIn(svBox) \subseteq svReady
      /\ SvStage(sv, svBox, svTold, SvIn(svBox), svReady)
  BY DEF SvInv, SvTake
<1>1. PICK b, c : b = svBox /\ c = svBox' OBVIOUS
<1>2. /\ c \in Seq(SvMessages) /\ SvIn(b) = SvIn(c) \cup ({m} \cap SvHardware)
      /\ SvNoBoot(b) => SvNoBoot(c)
  <2>1. b \in Seq(SvMessages) /\ b # << >> /\ m = Head(b) /\ c = Tail(b) BY <1>0, <1>1
  <2> QED BY <2>1, SvTaken
<1>3. sv.configured BY <1>0 DEF SvStage
<1>4. sv.boot_observed
  <2>1. ~sv.boot_observed => Head(svBox) = "BOOT" BY <1>0, <1>3 DEF SvStage, SvBootFirst
  <2> QED BY <1>0, <2>1
<1>5. SvNoBoot(b) /\ SvTells(sv, svTold, SvIn(svBox), svReady)
  BY <1>0, <1>1, <1>3, <1>4 DEF SvStage
<1> QED BY <1>0, <1>1, <1>2, <1>3, <1>4, <1>5

\* After such a message: the parts of the invariant.
LEMMA SvStageIs ==
  ASSUME sv' \in SvContexts, svBox' \in Seq(SvMessages), svReady' \subseteq SvHardware,
         sv'.configured, sv'.boot_observed, SvNoBoot(svBox'), SvIn(svBox') \subseteq svReady',
         ~sv'.failed => SvTells(sv', svTold', SvIn(svBox'), svReady')
  PROVE  SvInv'
<1>1. ~sv'.failed => SvStage(sv', svBox', svTold', SvIn(svBox'), svReady')
  BY DEF SvStage
<1> QED BY <1>1 DEF SvInv

\* ev_supervisor_actor_handle_ready
LEMMA SvReadyKeeps == ASSUME SvInv, SvHandleReady PROVE SvInv'
<1>1. PICK d \in SvHardware :
        /\ SvTake(d)
        /\ LET s == [sv EXCEPT !.active = @ \cup {d}, !.observed = @ \cup {d}]
           IN  IF ~sv.published THEN SvTryPublish(s)
               ELSE IF d \notin sv.active THEN SvPublish(s)
               ELSE sv' = s /\ UNCHANGED svTold
  BY DEF SvHandleReady
<1>2. d # "BOOT" BY SvAssumption
<1>3. /\ sv \in SvContexts /\ ~sv.failed /\ sv.configured /\ sv.boot_observed
      /\ svBox' \in Seq(SvMessages) /\ SvNoBoot(svBox')
      /\ SvIn(svBox) = SvIn(svBox') \cup ({d} \cap SvHardware)
      /\ SvIn(svBox) \subseteq svReady /\ svReady \subseteq SvHardware
      /\ svReady' = svReady
      /\ SvTells(sv, svTold, SvIn(svBox), svReady)
  BY <1>1, <1>2, SvTookOther
<1>4. PICK s : s = [sv EXCEPT !.active = @ \cup {d}, !.observed = @ \cup {d}] OBVIOUS
<1>5. IF ~sv.published THEN SvTryPublish(s)
      ELSE IF d \notin sv.active THEN SvPublish(s)
      ELSE sv' = s /\ UNCHANGED svTold
  BY <1>1, <1>4
<1>6. s \in SvContexts BY <1>1, <1>3, <1>4 DEF SvContexts
<1>7. /\ s.configured = sv.configured /\ s.boot_observed = sv.boot_observed
      /\ s.failed = sv.failed /\ s.published = sv.published
      /\ s.active = sv.active \cup {d} /\ s.observed = sv.observed \cup {d}
  BY <1>3, <1>4 DEF SvContexts
<1>8. PICK w, r : w = SvIn(svBox') /\ r = svReady' OBVIOUS
<1>9. SvCounts(sv, SvIn(svBox), svReady) BY <1>3 DEF SvTells
<1>10. d \in r BY <1>1, <1>3, <1>8
<1>11. SvCounts(s, w, r) BY <1>3, <1>7, <1>8, <1>9, <1>10 DEF SvCounts
<1>12. /\ sv' \in SvContexts /\ sv'.configured /\ sv'.boot_observed
       /\ ~sv'.failed => SvTells(sv', svTold', w, r)
  <2>1. CASE ~sv.published
    <3>1. s.observed = s.active BY <1>3, <1>7, <2>1 DEF SvTells
    <3> QED BY <1>3, <1>5, <1>6, <1>7, <1>11, <2>1, <3>1, SvTryPublishIs
  <2>2. CASE sv.published /\ d \notin sv.active
    <3>1. SvPublish(s) /\ s.configured /\ s.boot_observed /\ s.published
      BY <1>3, <1>5, <1>7, <2>2
    <3> QED BY <1>6, <1>11, <3>1, SvPublishIs
  <2>3. CASE sv.published /\ d \in sv.active
    <3>1. sv' = s /\ svTold' = svTold BY <1>5, <2>3
    <3>2. s.active = sv.active BY <1>7, <2>3
    <3>3. svTold = sv.active BY <1>3, <2>3 DEF SvTells
    <3>4. SvTells(s, svTold, w, r) BY <1>7, <1>11, <2>3, <3>2, <3>3 DEF SvTells
    <3> QED BY <1>3, <1>6, <1>7, <3>1, <3>4
  <2> QED BY <2>1, <2>2, <2>3
<1>13. SvIn(svBox') \subseteq svReady' /\ svReady' \subseteq SvHardware BY <1>3
<1> QED BY <1>3, <1>8, <1>12, <1>13, SvStageIs

\* EV_TICK_1S
LEMMA SvTickKeeps == ASSUME SvInv, SvTick PROVE SvInv'
<1>1. /\ SvTake("TICK")
      /\ IF sv.boot_observed /\ ~sv.published
           THEN SvTryPublish([sv EXCEPT !.ticks = @ + 1])
           ELSE UNCHANGED <<sv, svTold>>
  BY DEF SvTick
<1>2. /\ sv \in SvContexts /\ ~sv.failed /\ sv.configured /\ sv.boot_observed
      /\ svBox' \in Seq(SvMessages) /\ SvNoBoot(svBox')
      /\ SvIn(svBox) = SvIn(svBox') \cup ({"TICK"} \cap SvHardware)
      /\ SvIn(svBox) \subseteq svReady /\ svReady \subseteq SvHardware
      /\ svReady' = svReady
      /\ SvTells(sv, svTold, SvIn(svBox), svReady)
  BY <1>1, SvTookOther
<1>3. SvIn(svBox') = SvIn(svBox) BY <1>2, SvAssumption
<1>4. PICK w, r : w = SvIn(svBox') /\ r = svReady' OBVIOUS
<1>5. SvTells(sv, svTold, w, r) /\ SvCounts(sv, w, r) BY <1>2, <1>3, <1>4 DEF SvTells
<1>6. /\ sv' \in SvContexts /\ sv'.configured /\ sv'.boot_observed
      /\ ~sv'.failed => SvTells(sv', svTold', w, r)
  <2>1. CASE ~sv.published
    <3>1. PICK s : s = [sv EXCEPT !.ticks = @ + 1] OBVIOUS
    <3>2. sv.ticks \in Nat BY <1>2, SvFields
    <3>3. sv.ticks + 1 \in Nat BY <3>2
    <3>4. s \in SvContexts BY <1>2, <3>1, <3>3 DEF SvContexts
    <3>5. /\ s.configured = sv.configured /\ s.boot_observed = sv.boot_observed
          /\ s.failed = sv.failed /\ s.published = sv.published
          /\ s.active = sv.active /\ s.observed = sv.observed
      BY <1>2, <3>1 DEF SvContexts
    <3>6. s.observed = s.active BY <1>5, <2>1, <3>5 DEF SvTells
    <3>7. SvCounts(s, w, r) BY <1>5, <3>5 DEF SvCounts
    <3>8. SvTryPublish(s) BY <1>1, <1>2, <2>1, <3>1
    <3> QED BY <1>2, <2>1, <3>4, <3>5, <3>6, <3>7, <3>8, SvTryPublishIs
  <2>2. CASE sv.published
    <3>1. sv' = sv /\ svTold' = svTold BY <1>1, <2>2
    <3> QED BY <1>2, <1>5, <3>1
  <2> QED BY <2>1, <2>2
<1>7. SvIn(svBox') \subseteq svReady' /\ svReady' \subseteq SvHardware BY <1>2, <1>3
<1> QED BY <1>2, <1>4, <1>6, <1>7, SvStageIs

\* A supervisor that was just initialised keeps the invariant.
LEMMA SvFreshIs ==
  ASSUME NEW s, s = SvFresh, NEW b, b = << >>, NEW told
  PROVE  s \in SvContexts /\ b \in Seq(SvMessages) /\ SvIn(b) = {} /\ SvStage(s, b, told, {}, {})
<1>1. 0 \in Nat OBVIOUS
<1>2. s \in SvContexts /\ ~s.configured BY <1>1 DEF SvFresh, SvContexts
<1>3. SvIn(b) = {} BY DEF SvIn
<1>4. b \in Seq(SvMessages) OBVIOUS
<1> QED BY <1>2, <1>3, <1>4 DEF SvStage

\* The supervisor keeps its invariant.
LEMMA SvInvHolds == SvInit /\ [][SvNext]_svVars => []SvInv
<1>1. SvInit => SvInv
  <2> SUFFICES ASSUME SvInit PROVE SvInv OBVIOUS
  <2>1. sv = SvFresh /\ svBox = << >> /\ svReady = {} BY DEF SvInit
  <2>2. /\ sv \in SvContexts /\ svBox \in Seq(SvMessages) /\ SvIn(svBox) = {}
        /\ SvStage(sv, svBox, svTold, {}, {})
    BY <2>1, SvFreshIs
  <2>3. ~sv.failed BY <2>1 DEF SvFresh
  <2> QED BY <2>1, <2>2, <2>3 DEF SvInv
<1>2. SvInv /\ [SvNext]_svVars => SvInv'
  <2> SUFFICES ASSUME SvInv, [SvNext]_svVars PROVE SvInv' OBVIOUS
  <2>1. CASE UNCHANGED svVars BY <2>1 DEF svVars, SvInv
  <2>2. CASE SvRestart
    <3>1. sv' = SvFresh /\ svBox' = << >> /\ svReady' = {} BY <2>2 DEF SvRestart
    <3>2. /\ sv' \in SvContexts /\ svBox' \in Seq(SvMessages) /\ SvIn(svBox') = {}
          /\ SvStage(sv', svBox', svTold', {}, {})
      BY <3>1, SvFreshIs
    <3>3. ~sv'.failed BY <3>1 DEF SvFresh
    <3> QED BY <3>1, <3>2, <3>3 DEF SvInv
  <2> QED
    BY <2>1, <2>2, SvConfigureKeeps, SvPublishersKeep, SvBootKeeps, SvReadyKeeps,
       SvTickKeeps
    DEF SvNext
<1> QED BY <1>1, <1>2, PTL

\* The supervisor is one of the actors.
LEMMA SvRuns == Spec => SvInit /\ [][SvNext]_svVars
<1>1. Init => SvInit BY DEF Init
<1>2. [Next]_actorsVars => [SvNext]_svVars BY DEF Next, actorsVars
<1> QED BY <1>1, <1>2, PTL DEF Spec

\* No READY is forgotten and none is invented: for every board, mailbox depth
\* and number of settling ticks, in whatever order READYs, the boot message and
\* ticks are handled (ev_supervisor_actor.c).
THEOREM HardwareIsTold == Spec => []ReadinessIsTold
<1>1. SvInv => ReadinessIsTold
  <2> SUFFICES ASSUME SvInv, sv.boot_observed, ~sv.failed
               PROVE  /\ sv.published => /\ svReady \ SvWaiting \subseteq svTold
                                         /\ svTold \subseteq svReady
                      /\ ~sv.published => /\ sv.ticks < SvSettle
                                          /\ \/ ~(sv.required \subseteq svReady \ SvWaiting)
                                             \/ sv.required = {}
    BY DEF ReadinessIsTold
  <2>1. SvWaiting = SvIn(svBox) BY DEF SvWaiting, SvIn
  <2>2. SvStage(sv, svBox, svTold, SvIn(svBox), svReady) BY DEF SvInv
  <2>3. sv.configured
    <3>1. ~SvFresh.boot_observed BY DEF SvFresh
    <3> QED BY <2>2, <3>1 DEF SvStage
  <2>4. SvTells(sv, svTold, SvWaiting, svReady) BY <2>1, <2>2, <2>3 DEF SvStage
  <2> QED BY <2>4 DEF SvTells, SvCounts
<1> QED BY <1>1, SvInvHolds, SvRuns, PTL

-----------------------------------------------------------------------------
(* The remote commands. *)

CmdKinds == {"led", "display", "sleep"}
CmdTexts == {<< >>} \cup {CmdField(m, k) : m \in CmdMessages, k \in {"arm", "ms"}}
CmdContexts ==
  [tick : 0 .. CmdMod - 1, armed : BOOLEAN, nonce : CmdTexts, duration : Int,
   expiry : 0 .. CmdMod - 1, last : [CmdKinds -> 0 .. CmdMod - 1]]
CmdArms ==
  [live : BOOLEAN, nonce : CmdTexts, ms : CmdTexts, age : Nat, executed : SUBSET CmdKinds]

\* An arm the actor keeps is the one in force, and its expiry is as many ticks
\* away as its age leaves of the window.
CmdInForce(c, a) ==
  /\ a.live /\ a.age < CmdWindow /\ c.nonce = a.nonce
  /\ c.duration = CmdDecimal(a.ms)
  /\ "sleep" \notin a.executed
  /\ c.expiry = (c.tick + (CmdWindow - a.age)) % CmdMod

\* What was executed in this tick is limited until the next.
CmdNoted(c, a) == \A k \in a.executed : c.last[k] = c.tick

CmdInv ==
  /\ cmd \in CmdContexts /\ cmdArm \in CmdArms
  /\ CmdNoted(cmd, cmdArm)
  /\ cmd.armed => CmdInForce(cmd, cmdArm)

\* What SleepIsConfirmed says of a step.
CmdStepTold ==
  /\ cmdOut'.kind = "sleep" =>
       /\ cmdArm.live /\ cmdArm.age < CmdWindow
       /\ CmdConfirms(cmdOut'.from, cmdArm.nonce)
       /\ cmdOut'.value = CmdDecimal(cmdArm.ms)
  /\ cmdOut'.kind # "none" =>
       CmdGenuine(cmdOut'.from) /\ cmdOut'.kind \notin cmdArm.executed

\* The sizes, apart from their assumption.
LEMMA CmdSizes ==
  /\ CmdWindow \in Nat /\ CmdWindow > 0 /\ CmdInterval \in Nat /\ CmdInterval > 0
  /\ CmdMod \in Nat /\ 2 * CmdWindow < CmdMod - 1 /\ CmdU32 \in Nat /\ CmdDigits \in Nat
  /\ CmdMaxSleep \in Nat
BY CmdAssumption

\* The parts of the actor's context and of the history.
LEMMA CmdFields ==
  /\ \A c \in CmdContexts :
       /\ c.tick \in 0 .. CmdMod - 1 /\ c.armed \in BOOLEAN /\ c.expiry \in 0 .. CmdMod - 1
       /\ c.last \in [CmdKinds -> 0 .. CmdMod - 1]
  /\ \A a \in CmdArms : /\ a.live \in BOOLEAN /\ a.age \in Nat
                        /\ a.executed \in SUBSET CmdKinds
BY DEF CmdContexts, CmdArms

\* One digit of ev_command_parse_uint32_dec, and of the number it should be.
CmdDigit(v, d) ==
  IF v = -1 \/ d \notin 0 .. 9 \/ v > (CmdU32 - d) \div 10 THEN -1 ELSE 10 * v + d

\* A step of the loop appends a digit, or fails for good.
LEMMA CmdDigitType ==
  ASSUME NEW v \in Int, NEW d
  PROVE  /\ CmdDigit(v, d) \in Int
         /\ CmdDigit(v, d) # -1 => v # -1 /\ d \in 0 .. 9 /\ CmdDigit(v, d) = 10 * v + d
<1>1. CASE d \in 0 .. 9
  <2>1. 10 * v + d \in Int BY <1>1
  <2> QED BY <2>1 DEF CmdDigit
<1>2. CASE d \notin 0 .. 9
  <2>1. CmdDigit(v, d) = -1 BY <1>2 DEF CmdDigit
  <2> QED BY <2>1
<1> QED BY <1>1, <1>2

\* The parser's value after each digit.
LEMMA CmdParsed ==
  ASSUME NEW s, ev_command_parse_uint32_dec(s) # -1
  PROVE  /\ Len(s) \in Nat
         /\ \E p : /\ p[0] = 0 /\ p[Len(s)] = ev_command_parse_uint32_dec(s)
                   /\ \A i \in 0 .. Len(s) : p[i] \in Int
                   /\ \A i \in 1 .. Len(s) : p[i] = CmdDigit(p[i - 1], s[i])
<1>1. PICK n : n = Len(s) OBVIOUS
<1> DEFINE Steps(f) == f = [i \in 0 .. n |-> IF i = 0 THEN 0 ELSE CmdDigit(f[i - 1], s[i])]
<1>2. PICK p : p = CHOOSE f : Steps(f) OBVIOUS
<1>3. ev_command_parse_uint32_dec(s) = IF n \in 1 .. CmdDigits THEN p[n] ELSE -1
  BY <1>1, <1>2 DEF ev_command_parse_uint32_dec, CmdDigit
<1>4. n \in 1 .. CmdDigits BY <1>3
<1>5. n \in Nat /\ 0 \in Nat /\ 0 <= n BY <1>4, CmdSizes
<1> DEFINE F == [i \in Nat |-> [v \in Int |-> CmdDigit(v, s[i])]]
<1>6. F \in [Nat -> [Int -> Int]] BY CmdDigitType
<1>7. \A i \in Nat : \A v \in Int : F[i][v] = CmdDigit(v, s[i]) OBVIOUS
<1> HIDE DEF F
<1>8. \E f : Steps(f)
  <2>1. PICK f \in [0 .. n -> Int] : LoopSteps(f, 0, n, F) BY <1>5, <1>6, LoopExists
  <2>2. ASSUME NEW i \in 0 .. n
        PROVE  f[i] = IF i = 0 THEN 0 ELSE CmdDigit(f[i - 1], s[i])
    <3>1. f[i] = IF i = 0 THEN 0 ELSE F[i][f[i - 1]] BY <2>1 DEF LoopSteps
    <3>2. CASE i # 0
      <4>1. i \in Nat /\ i - 1 \in 0 .. n BY <1>5, <3>2
      <4>2. f[i - 1] \in Int BY <4>1
      <4> QED BY <1>7, <3>1, <3>2, <4>1, <4>2
    <3> QED BY <3>1, <3>2
  <2>3. Steps(f) BY <2>2
  <2> QED BY <2>3
<1>9. Steps(p) BY <1>2, <1>8
<1>10. /\ p[0] = 0
       /\ \A i \in 1 .. n : p[i] = CmdDigit(p[i - 1], s[i])
  BY <1>5, <1>9
<1> HIDE DEF Steps
<1>11. LoopTaken(p, 0, n, F)
  <2>1. ASSUME NEW i \in 0 .. n, i # 0, p[i - 1] \in Int PROVE p[i] = F[i][p[i - 1]]
    <3>1. i \in Nat /\ i \in 1 .. n BY <1>5, <2>1
    <3> QED BY <1>7, <1>10, <2>1, <3>1
  <2> QED BY <1>10, <2>1 DEF LoopTaken
<1>12. \A i \in 0 .. n : p[i] \in Int BY <1>5, <1>6, <1>11, LoopTyped
<1> QED BY <1>1, <1>3, <1>4, <1>5, <1>10, <1>12

\* A number the parser accepts is the one its digits stand for.
LEMMA CmdParsesDecimals ==
  ASSUME NEW s, ev_command_parse_uint32_dec(s) # -1
  PROVE  ev_command_parse_uint32_dec(s) = CmdDecimal(s)
<1>1. PICK n \in Nat : n = Len(s) BY CmdParsed
<1>2. PICK p : /\ p[0] = 0 /\ p[n] = ev_command_parse_uint32_dec(s)
               /\ \A i \in 0 .. n : p[i] \in Int
               /\ \A i \in 1 .. n : p[i] = CmdDigit(p[i - 1], s[i])
  BY <1>1, CmdParsed
<1>3. \A i \in 0 .. n : p[i] # -1
  <2> DEFINE S == {k \in Nat : k <= n => p[n - k] # -1}
  <2>1. 0 \in S BY <1>2
  <2>2. ASSUME NEW k \in S PROVE k + 1 \in S
    <3>1. SUFFICES ASSUME k + 1 <= n PROVE p[n - (k + 1)] # -1 OBVIOUS
    <3>2. PICK i \in 1 .. n : i = n - k /\ i - 1 = n - (k + 1) BY <3>1
    <3>3. p[i] # -1 /\ p[i - 1] \in Int
      <4>1. k <= n /\ i - 1 \in 0 .. n BY <3>1, <3>2
      <4>2. p[n - k] # -1 BY <4>1
      <4> QED BY <1>2, <3>2, <4>1, <4>2
    <3>4. p[i - 1] # -1 BY <1>2, <3>3, CmdDigitType
    <3> QED BY <3>2, <3>4
  <2>3. S \in SUBSET Nat OBVIOUS
  <2> HIDE DEF S
  <2>4. Nat \subseteq S BY <2>1, <2>2, <2>3, NaturalsBySteps
  <2>5. SUFFICES ASSUME NEW i \in 0 .. n PROVE p[i] # -1 OBVIOUS
  <2>6. n - i \in S /\ n - i <= n /\ n - (n - i) = i BY <2>4
  <2> QED BY <2>6 DEF S
<1>4. \A i \in 1 .. n : s[i] \in 0 .. 9 /\ p[i] = 10 * p[i - 1] + s[i]
  <2>1. SUFFICES ASSUME NEW i \in 1 .. n
                 PROVE  s[i] \in 0 .. 9 /\ p[i] = 10 * p[i - 1] + s[i]
    OBVIOUS
  <2>2. i \in 0 .. n /\ i - 1 \in 0 .. n BY <2>1
  <2>3. p[i] # -1 /\ p[i - 1] \in Int /\ p[i] = CmdDigit(p[i - 1], s[i])
    BY <1>2, <1>3, <2>2
  <2> QED BY <2>3, CmdDigitType
<1> DEFINE Steps(f) == f = [i \in 0 .. n |-> IF i = 0 THEN 0 ELSE 10 * f[i - 1] + s[i]]
<1>5. Steps([i \in 0 .. n |-> p[i]])
  <2>1. PICK f : f = [i \in 0 .. n |-> p[i]] OBVIOUS
  <2>2. ASSUME NEW i \in 0 .. n
        PROVE  f[i] = IF i = 0 THEN 0 ELSE 10 * f[i - 1] + s[i]
    <3>1. CASE i = 0 BY <1>2, <2>1, <3>1
    <3>2. CASE i # 0
      <4>1. i \in 1 .. n /\ i - 1 \in 0 .. n BY <3>2
      <4>2. f[i] = p[i] /\ f[i - 1] = p[i - 1] BY <2>1, <4>1
      <4>3. p[i] = 10 * p[i - 1] + s[i] BY <1>4, <4>1
      <4> QED BY <3>2, <4>2, <4>3
    <3> QED BY <3>1, <3>2
  <2>3. f = [i \in 0 .. n |-> IF i = 0 THEN 0 ELSE 10 * f[i - 1] + s[i]] BY <2>1, <2>2
  <2> QED BY <2>1, <2>3
<1>6. PICK d : d = CHOOSE f : Steps(f) OBVIOUS
<1>7. Steps(d) BY <1>5, <1>6
<1>8. CmdDecimal(s) = d[n] BY <1>1, <1>6 DEF CmdDecimal
<1>9. /\ d[0] = 0
      /\ \A i \in 1 .. n : d[i] = 10 * d[i - 1] + s[i]
  BY <1>7
<1> HIDE DEF Steps
<1> DEFINE T == {k \in Nat : k <= n => d[k] = p[k]}
<1>10. 0 \in T BY <1>2, <1>9
<1>11. ASSUME NEW k \in T PROVE k + 1 \in T
  <2>1. SUFFICES ASSUME k + 1 <= n PROVE d[k + 1] = p[k + 1] OBVIOUS
  <2>2. PICK i \in 1 .. n : i = k + 1 /\ i - 1 = k BY <2>1
  <2>3. d[i - 1] = p[i - 1] BY <2>1, <2>2
  <2> QED BY <1>4, <1>9, <2>2, <2>3
<1>12. T \in SUBSET Nat OBVIOUS
<1> HIDE DEF T
<1>13. Nat \subseteq T BY <1>10, <1>11, <1>12, NaturalsBySteps
<1>14. d[n] = p[n] BY <1>13 DEF T
<1> QED BY <1>2, <1>8, <1>14

\* A kind that may be published was not in this tick.
LEMMA CmdMayOnce ==
  ASSUME CmdInv, NEW kind \in CmdKinds, CmdMay(kind)
  PROVE  kind \notin cmdArm.executed
<1>1. SUFFICES ASSUME kind \in cmdArm.executed PROVE FALSE OBVIOUS
<1>2. cmd.last[kind] = cmd.tick BY <1>1 DEF CmdInv, CmdNoted
<1>3. cmd.tick \in Int BY CmdFields DEF CmdInv
<1>4. (cmd.tick - cmd.tick) % CmdMod = 0
  <2>1. cmd.tick - cmd.tick = 0 BY <1>3
  <2>2. 0 % CmdMod = 0 BY CmdSizes
  <2> QED BY <2>1, <2>2
<1>5. ~((cmd.tick - cmd.tick) % CmdMod < CmdInterval) BY <1>2 DEF CmdMay, CmdLimited
<1> QED BY <1>4, <1>5, CmdSizes

\* A message that is dropped changes nothing.
LEMMA CmdDropKeeps ==
  ASSUME CmdInv, CmdDrop
  PROVE  CmdInv' /\ CmdStepTold
<1>1. cmd' = cmd /\ cmdArm' = cmdArm /\ cmdOut'.kind = "none" BY DEF CmdDrop, CmdNothing
<1>2. CmdInv' BY <1>1 DEF CmdInv
<1> QED BY <1>1, <1>2 DEF CmdStepTold

\* The histories a publication makes.
LEMMA CmdArmsMade ==
  ASSUME NEW a \in CmdArms, NEW kind \in CmdKinds
  PROVE  /\ [CmdNoArm EXCEPT !.executed = {kind} \cup a.executed] \in CmdArms
         /\ [CmdNoArm EXCEPT !.executed = {kind} \cup a.executed].executed
              = {kind} \cup a.executed
         /\ [a EXCEPT !.executed = @ \cup {kind}] \in CmdArms
         /\ [a EXCEPT !.executed = @ \cup {kind}].executed = a.executed \cup {kind}
         /\ CmdNoArm \in CmdArms /\ CmdNoArm.executed = {}
<1>1. PICK e \in SUBSET CmdKinds : e = {kind} \cup a.executed BY CmdFields
<1>2. << >> \in CmdTexts BY DEF CmdTexts
<1>3. PICK z : z = CmdNoArm OBVIOUS
<1>4. /\ z = [live |-> FALSE, nonce |-> << >>, ms |-> << >>, age |-> 0, executed |-> {}]
      /\ z \in CmdArms /\ z.executed = {}
  BY <1>2, <1>3 DEF CmdNoArm, CmdArms
<1>5. [z EXCEPT !.executed = e] \in CmdArms /\ [z EXCEPT !.executed = e].executed = e
  BY <1>4 DEF CmdArms
<1>6. [a EXCEPT !.executed = e] \in CmdArms /\ [a EXCEPT !.executed = e].executed = e
  BY DEF CmdArms
<1>7. [a EXCEPT !.executed = @ \cup {kind}] = [a EXCEPT !.executed = e]
  <2>1. a.executed \cup {kind} = e BY <1>1
  <2> QED BY <2>1
<1>8. a.executed \cup {kind} = e BY <1>1
<1> QED BY <1>1, <1>3, <1>4, <1>5, <1>6, <1>7, <1>8

\* A command is published for a message, on a context without an arm if it is
\* for sleep.
LEMMA CmdPublishKeeps ==
  ASSUME CmdInv, NEW m, CmdGenuine(m),
         NEW c \in CmdContexts, NEW kind \in CmdKinds, NEW value, NEW valid,
         CmdPublish(m, c, kind, value, valid), kind \notin cmdArm.executed,
         CmdNoted(c, cmdArm), c.armed => CmdInForce(c, cmdArm) /\ kind # "sleep",
         kind = "sleep" => /\ cmdArm.live /\ cmdArm.age < CmdWindow
                           /\ CmdConfirms(m, cmdArm.nonce)
                           /\ value = CmdDecimal(cmdArm.ms)
  PROVE  CmdInv' /\ CmdStepTold
<1>1. cmdArm \in CmdArms /\ c.tick \in 0 .. CmdMod - 1
      /\ c.last \in [CmdKinds -> 0 .. CmdMod - 1] /\ cmdArm.executed \in SUBSET CmdKinds
  BY CmdFields DEF CmdInv
<1>2. CASE cmd' = c /\ cmdOut' = CmdNothing /\ UNCHANGED cmdArm
  <2>1. CmdInv' BY <1>1, <1>2 DEF CmdInv
  <2>2. cmdOut'.kind = "none" BY <1>2 DEF CmdNothing
  <2> QED BY <2>1, <2>2 DEF CmdStepTold
<1>3. CASE /\ cmdOut' = [kind |-> kind, value |-> value, valid |-> valid, from |-> m]
           /\ cmd' = [c EXCEPT !.last[kind] = c.tick]
           /\ cmdArm' = IF kind = "sleep"
                          THEN [CmdNoArm EXCEPT !.executed = {kind} \cup cmdArm.executed]
                          ELSE [cmdArm EXCEPT !.executed = @ \cup {kind}]
  <2>1. cmdOut'.kind = kind /\ cmdOut'.value = value /\ cmdOut'.from = m BY <1>3
  <2>2. CmdStepTold BY <2>1 DEF CmdStepTold
  <2>3. PICK l \in [CmdKinds -> 0 .. CmdMod - 1] : l = [c.last EXCEPT ![kind] = c.tick]
    BY <1>1
  <2>4. cmd' = [c EXCEPT !.last = l] BY <1>3, <2>3
  <2>5. /\ cmd' \in CmdContexts /\ cmd'.last = l /\ cmd'.tick = c.tick
        /\ cmd'.armed = c.armed
    BY <2>4 DEF CmdContexts
  <2>6. /\ cmd'.nonce = c.nonce /\ cmd'.duration = c.duration /\ cmd'.expiry = c.expiry
    BY <2>4 DEF CmdContexts
  <2>7. cmdArm' \in CmdArms /\ cmdArm'.executed = cmdArm.executed \cup {kind}
    <3>1. CASE kind = "sleep"
      <4>1. cmdArm' = [CmdNoArm EXCEPT !.executed = {kind} \cup cmdArm.executed]
        BY <1>3, <3>1
      <4>2. {kind} \cup cmdArm.executed = cmdArm.executed \cup {kind} OBVIOUS
      <4>3. PICK x : x = [CmdNoArm EXCEPT !.executed = {kind} \cup cmdArm.executed] OBVIOUS
      <4>4. x \in CmdArms /\ x.executed = {kind} \cup cmdArm.executed
        BY <1>1, <4>3, CmdArmsMade
      <4> QED BY <4>1, <4>2, <4>3, <4>4
    <3>2. CASE kind # "sleep"
      <4>1. cmdArm' = [cmdArm EXCEPT !.executed = @ \cup {kind}] BY <1>3, <3>2
      <4> QED BY <1>1, <4>1, CmdArmsMade
    <3> QED BY <3>1, <3>2
  <2>8. CmdNoted(cmd, cmdArm)'
    <3>1. SUFFICES ASSUME NEW k \in cmdArm.executed \cup {kind} PROVE l[k] = c.tick
      BY <2>5, <2>7 DEF CmdNoted
    <3>2. CASE k = kind BY <1>1, <2>3, <3>2
    <3>3. CASE k # kind
      <4>1. k \in cmdArm.executed /\ k \in CmdKinds BY <1>1, <3>3
      <4>2. c.last[k] = c.tick BY <4>1 DEF CmdNoted
      <4> QED BY <1>1, <2>3, <3>3, <4>1, <4>2
    <3> QED BY <3>2, <3>3
  <2>9. ASSUME cmd'.armed PROVE CmdInForce(cmd, cmdArm)'
    <3>1. kind # "sleep" /\ CmdInForce(c, cmdArm) BY <2>5, <2>9
    <3>2. cmdArm' = [cmdArm EXCEPT !.executed = @ \cup {kind}] BY <1>3, <3>1
    <3>3. /\ cmdArm'.live = cmdArm.live /\ cmdArm'.age = cmdArm.age
          /\ cmdArm'.nonce = cmdArm.nonce /\ cmdArm'.ms = cmdArm.ms
      BY <1>1, <3>2 DEF CmdArms
    <3>4. "sleep" \notin cmdArm'.executed BY <2>7, <3>1 DEF CmdInForce
    <3> QED BY <2>5, <2>6, <3>1, <3>3, <3>4 DEF CmdInForce
  <2> QED BY <2>2, <2>5, <2>7, <2>8, <2>9 DEF CmdInv
<1> QED BY <1>2, <1>3 DEF CmdPublish

\* A command for the LED or the display.
LEMMA CmdOthersKeep ==
  ASSUME CmdInv, NEW m, CmdGenuine(m), CmdLed(m) \/ CmdDisplay(m)
  PROVE  CmdInv' /\ CmdStepTold
<1>1. CASE CmdDrop BY <1>1, CmdDropKeeps
<1>2. ASSUME NEW kind \in {"led", "display"}, CmdMay(kind), NEW value, NEW valid,
             CmdPublish(m, cmd, kind, value, valid)
      PROVE  CmdInv' /\ CmdStepTold
  <2>1. kind \in CmdKinds /\ kind # "sleep" BY DEF CmdKinds
  <2>2. kind \notin cmdArm.executed BY <1>2, <2>1, CmdMayOnce
  <2>3. /\ cmd \in CmdContexts /\ CmdNoted(cmd, cmdArm)
        /\ cmd.armed => CmdInForce(cmd, cmdArm) /\ kind # "sleep"
    BY <2>1 DEF CmdInv
  <2> QED BY <1>2, <2>1, <2>2, <2>3, CmdPublishKeeps
<1>3. CASE CmdLed(m)
  <2>1. PICK v, w : /\ v = ev_command_parse_u8_hex(CmdField(m, "mask")) % 16
                    /\ w = ev_command_parse_u8_hex(CmdField(m, "valid")) % 16
    OBVIOUS
  <2>2. CmdDrop \/ (CmdMay("led") /\ CmdPublish(m, cmd, "led", v, w))
    BY <1>3, <2>1 DEF CmdLed
  <2> QED BY <1>1, <1>2, <2>2
<1>4. CASE CmdDisplay(m)
  <2>1. PICK v : v = Len(CmdField(m, "text")) OBVIOUS
  <2>2. CmdDrop \/ (CmdMay("display") /\ CmdPublish(m, cmd, "display", v, 0))
    BY <1>4, <2>1 DEF CmdDisplay
  <2> QED BY <1>1, <1>2, <2>2
<1> QED BY <1>3, <1>4

\* An arm comes into force.
LEMMA CmdSleepArmKeeps ==
  ASSUME CmdInv, NEW m \in CmdMessages, CmdSleepArm(m)
  PROVE  CmdInv' /\ CmdStepTold
<1>1. CASE CmdDrop BY <1>1, CmdDropKeeps
<1>2. PICK n, ms, d, e :
        /\ n = CmdField(m, "arm") /\ ms = CmdField(m, "ms")
        /\ d = ev_command_parse_uint32_dec(ms) /\ e = (cmd.tick + CmdWindow) % CmdMod
  OBVIOUS
<1>3. CASE /\ CmdMay("sleep") /\ d \in 1 .. CmdMaxSleep
           /\ cmd' = [cmd EXCEPT !.armed = TRUE, !.nonce = n, !.duration = d, !.expiry = e]
           /\ cmdArm' = [cmdArm EXCEPT !.live = TRUE, !.nonce = n, !.ms = ms, !.age = 0]
           /\ cmdOut' = CmdNothing
  <2>1. n \in CmdTexts /\ ms \in CmdTexts BY <1>2 DEF CmdTexts
  <2>2. d \in Int /\ d # -1 BY <1>3, CmdSizes
  <2>3. cmd \in CmdContexts /\ cmdArm \in CmdArms /\ cmd.tick \in 0 .. CmdMod - 1
    BY CmdFields DEF CmdInv
  <2>4. e \in 0 .. CmdMod - 1
    <3>1. cmd.tick + CmdWindow \in Int /\ CmdMod > 0 /\ CmdMod \in Nat BY <2>3, CmdSizes
    <3> QED BY <1>2, <3>1, ModTurns
  <2>5. /\ cmd' \in CmdContexts /\ cmd'.tick = cmd.tick /\ cmd'.last = cmd.last
    BY <1>3, <2>1, <2>2, <2>3, <2>4 DEF CmdContexts
  <2>6. cmd'.nonce = n /\ cmd'.duration = d /\ cmd'.expiry = e
    BY <1>3, <2>3 DEF CmdContexts
  <2>7. cmdArm' \in CmdArms /\ cmdArm'.executed = cmdArm.executed
    BY <1>3, <2>1, <2>3 DEF CmdArms
  <2>8. cmdArm'.live = TRUE /\ cmdArm'.nonce = n /\ cmdArm'.ms = ms /\ cmdArm'.age = 0
    BY <1>3, <2>3 DEF CmdArms
  <2>9. CmdNoted(cmd, cmdArm)' BY <2>5, <2>7 DEF CmdInv, CmdNoted
  <2>10. d = CmdDecimal(ms) BY <1>2, <2>2, CmdParsesDecimals
  <2>11. "sleep" \notin cmdArm.executed BY <1>3, CmdMayOnce DEF CmdKinds
  <2>12. e = (cmd.tick + (CmdWindow - 0)) % CmdMod BY <1>2, CmdSizes
  <2>13. CmdInForce(cmd, cmdArm)'
    BY <2>5, <2>6, <2>7, <2>8, <2>10, <2>11, <2>12, CmdSizes DEF CmdInForce
  <2>14. CmdInv' BY <2>5, <2>7, <2>9, <2>13 DEF CmdInv
  <2>15. cmdOut'.kind = "none" BY <1>3 DEF CmdNothing
  <2> QED BY <2>14, <2>15 DEF CmdStepTold
<1> QED BY <1>1, <1>2, <1>3 DEF CmdSleepArm

\* The context without its arm.
LEMMA CmdDisarmed ==
  ASSUME CmdInv, NEW c, c = [cmd EXCEPT !.armed = FALSE]
  PROVE  /\ c \in CmdContexts /\ ~c.armed /\ c.nonce = cmd.nonce
         /\ CmdNoted(c, cmdArm)
<1>1. c \in CmdContexts /\ ~c.armed /\ c.nonce = cmd.nonce BY DEF CmdInv, CmdContexts
<1>2. c.tick = cmd.tick /\ c.last = cmd.last BY DEF CmdInv, CmdContexts
<1>3. CmdNoted(c, cmdArm) BY <1>2 DEF CmdInv, CmdNoted
<1> QED BY <1>1, <1>3

\* A confirmation uses up the arm.
LEMMA CmdSleepConfirmKeeps ==
  ASSUME CmdInv, NEW m, CmdGenuine(m), m.topic = "sleep", CmdHas(m, "confirm"),
         CmdSleepConfirm(m)
  PROVE  CmdInv' /\ CmdStepTold
<1>1. CASE CmdDrop BY <1>1, CmdDropKeeps
<1>2. PICK c : c = [cmd EXCEPT !.armed = FALSE] OBVIOUS
<1>3. c \in CmdContexts /\ ~c.armed /\ c.nonce = cmd.nonce /\ CmdNoted(c, cmdArm)
  BY <1>2, CmdDisarmed
<1>4. CASE cmd' = c /\ cmdOut' = CmdNothing /\ UNCHANGED cmdArm
  <2>1. CmdInv' BY <1>3, <1>4 DEF CmdInv
  <2>2. cmdOut'.kind = "none" BY <1>4 DEF CmdNothing
  <2> QED BY <2>1, <2>2 DEF CmdStepTold
<1>5. CASE /\ cmd.armed /\ CmdField(m, "confirm") = cmd.nonce
           /\ CmdPublish(m, c, "sleep", cmd.duration, 0)
  <2>1. CmdInForce(cmd, cmdArm) BY <1>5 DEF CmdInv
  <2>2. "sleep" \in CmdKinds BY DEF CmdKinds
  <2>3. /\ cmdArm.live /\ cmdArm.age < CmdWindow /\ cmd.nonce = cmdArm.nonce
        /\ cmd.duration = CmdDecimal(cmdArm.ms) /\ "sleep" \notin cmdArm.executed
    BY <2>1 DEF CmdInForce
  <2>4. CmdConfirms(m, cmdArm.nonce) BY <1>5, <2>3 DEF CmdConfirms
  <2> QED BY <1>3, <1>5, <2>2, <2>3, <2>4, CmdPublishKeeps
<1> QED BY <1>1, <1>2, <1>4, <1>5 DEF CmdSleepConfirm

\* A tick makes the arm older, and ends it when the window is over.
LEMMA CmdTickKeeps ==
  ASSUME CmdInv, CmdTick
  PROVE  CmdInv' /\ CmdStepTold
<1>1. PICK t : t = (cmd.tick + 1) % CmdMod OBVIOUS
<1>2. PICK c : c = [cmd EXCEPT !.tick = t] OBVIOUS
<1>3. PICK a \in BOOLEAN : a = (c.armed /\ ~CmdExpired(c)) OBVIOUS
<1>4. /\ cmd' = [c EXCEPT !.armed = a] /\ cmdOut' = CmdNothing
      /\ cmdArm' = IF cmdArm.live /\ cmdArm.age < CmdWindow
                     THEN [cmdArm EXCEPT !.executed = {}, !.age = @ + 1]
                     ELSE CmdNoArm
  BY <1>1, <1>2, <1>3 DEF CmdTick
<1>5. /\ cmd \in CmdContexts /\ cmdArm \in CmdArms /\ cmd.tick \in 0 .. CmdMod - 1
      /\ cmdArm.age \in Nat /\ cmd.armed \in BOOLEAN /\ cmd.expiry \in 0 .. CmdMod - 1
  BY CmdFields DEF CmdInv
<1>6. cmd.tick + 1 \in Int /\ CmdMod \in Nat /\ CmdMod > 0 BY <1>5, CmdSizes
<1>7. t \in 0 .. CmdMod - 1 BY <1>1, <1>6, ModTurns
<1>8. c \in CmdContexts /\ c.tick = t /\ c.armed = cmd.armed /\ c.expiry = cmd.expiry
  BY <1>2, <1>5, <1>7 DEF CmdContexts
<1>9. c.nonce = cmd.nonce /\ c.duration = cmd.duration BY <1>2, <1>5 DEF CmdContexts
<1>10. cmd' \in CmdContexts /\ cmd'.tick = t /\ cmd'.armed = a /\ cmd'.expiry = cmd.expiry
  BY <1>4, <1>8 DEF CmdContexts
<1>11. cmd'.nonce = cmd.nonce /\ cmd'.duration = cmd.duration
  BY <1>4, <1>8, <1>9 DEF CmdContexts
<1>12. cmdArm' \in CmdArms /\ cmdArm'.executed = {}
  <2>1. CASE cmdArm' = [cmdArm EXCEPT !.executed = {}, !.age = @ + 1]
    <3>1. PICK n \in Nat : n = cmdArm.age + 1 BY <1>5
    <3>2. cmdArm' = [cmdArm EXCEPT !.executed = {}, !.age = n] BY <2>1, <3>1
    <3> QED BY <1>5, <3>2 DEF CmdArms
  <2>2. CASE cmdArm' = CmdNoArm
    <3>1. "sleep" \in CmdKinds BY DEF CmdKinds
    <3> QED BY <1>5, <2>2, <3>1, CmdArmsMade
  <2> QED BY <1>4, <2>1, <2>2
<1>13. CmdNoted(cmd, cmdArm)' BY <1>12 DEF CmdNoted
<1>14. ASSUME cmd'.armed PROVE CmdInForce(cmd, cmdArm)'
  <2>1. cmd.armed /\ ~CmdExpired(c) BY <1>3, <1>8, <1>10, <1>14
  <2>2. CmdInForce(cmd, cmdArm) BY <2>1 DEF CmdInv
  <2>3. PICK n \in Nat : n = cmdArm.age BY <1>5
  <2>4. /\ cmdArm.live /\ n < CmdWindow /\ cmd.nonce = cmdArm.nonce
        /\ cmd.duration = CmdDecimal(cmdArm.ms)
        /\ cmd.expiry = (cmd.tick + (CmdWindow - n)) % CmdMod
    BY <2>2, <2>3 DEF CmdInForce
  <2>5. cmdArm' = [cmdArm EXCEPT !.executed = {}, !.age = n + 1] BY <1>4, <2>3, <2>4
  <2>6. /\ cmdArm'.live = cmdArm.live /\ cmdArm'.nonce = cmdArm.nonce
        /\ cmdArm'.ms = cmdArm.ms /\ cmdArm'.age = n + 1
    BY <1>5, <2>5 DEF CmdArms
  <2>7. CmdWindow - (n + 1) \in Int /\ cmd.tick + 1 \in Int BY <1>6, CmdSizes
  <2>8. (t + (CmdWindow - (n + 1))) % CmdMod
          = ((cmd.tick + 1) + (CmdWindow - (n + 1))) % CmdMod
    BY <1>1, <1>6, <2>7, ModReduced
  <2>9. (cmd.tick + 1) + (CmdWindow - (n + 1)) = cmd.tick + (CmdWindow - n)
    BY <1>5, CmdSizes
  <2>10. cmd.expiry = (t + (CmdWindow - (n + 1))) % CmdMod BY <2>4, <2>8, <2>9
  <2>11. n + 1 < CmdWindow
    <3>1. SUFFICES ASSUME n + 1 = CmdWindow PROVE FALSE BY <2>4, CmdSizes
    <3>2. t + (CmdWindow - (n + 1)) = t BY <1>7, <3>1, CmdSizes
    <3>3. t % CmdMod = t BY <1>6, <1>7
    <3>4. cmd.expiry = t BY <2>10, <3>2, <3>3
    <3>5. c.tick - c.expiry = 0 BY <1>7, <1>8, <3>4
    <3>6. 0 % CmdMod = 0 BY <1>6
    <3>7. 0 < (CmdMod - 1) \div 2 BY CmdSizes
    <3>8. CmdExpired(c) BY <3>5, <3>6, <3>7 DEF CmdExpired
    <3> QED BY <2>1, <3>8
  <2>12. "sleep" \notin cmdArm'.executed BY <1>12
  <2> QED BY <1>10, <1>11, <2>4, <2>6, <2>10, <2>11, <2>12 DEF CmdInForce
<1>15. CmdInv' BY <1>10, <1>12, <1>13, <1>14 DEF CmdInv
<1>16. cmdOut'.kind = "none" BY <1>4 DEF CmdNothing
<1> QED BY <1>15, <1>16 DEF CmdStepTold

\* The actor starts with nothing armed.
LEMMA CmdStartHolds == CmdInit => CmdInv
<1> SUFFICES ASSUME CmdInit PROVE CmdInv
  OBVIOUS
<1>1. CmdMod - 1 \in 0 .. CmdMod - 1 /\ 0 \in 0 .. CmdMod - 1 BY CmdSizes
<1>2. << >> \in CmdTexts /\ "sleep" \in CmdKinds BY DEF CmdTexts, CmdKinds
<1>3. cmd \in CmdContexts /\ ~cmd.armed
  BY <1>1, <1>2 DEF CmdInit, CmdContexts, CmdKinds
<1>4. cmdArm \in CmdArms /\ cmdArm.executed = {}
  BY <1>2 DEF CmdInit, CmdArms, CmdNoArm
<1> QED BY <1>3, <1>4 DEF CmdInv, CmdNoted

\* Every step keeps the invariant and tells the truth.
LEMMA CmdNextKeeps == CmdInv /\ CmdNext => CmdInv' /\ CmdStepTold
<1>1. ASSUME CmdInv, CmdReceive PROVE CmdInv' /\ CmdStepTold
  <2>1. PICK m \in CmdMessages :
          \/ CmdDrop
          \/ CmdGenuine(m) /\ (CmdLed(m) \/ CmdDisplay(m))
          \/ CmdSleepArm(m)
          \/ /\ CmdGenuine(m) /\ m.topic = "sleep" /\ CmdHas(m, "confirm")
             /\ CmdSleepConfirm(m)
    BY <1>1, Zenon DEF CmdReceive, CmdGenuine
  <2> QED BY <1>1, <2>1, CmdDropKeeps, CmdOthersKeep, CmdSleepArmKeeps,
             CmdSleepConfirmKeeps
<1> QED BY <1>1, CmdTickKeeps DEF CmdNext

\* The command actor is one of the actors.
LEMMA CmdRuns == Spec => CmdInit /\ [][CmdNext]_cmdVars
<1>1. Init => CmdInit BY DEF Init
<1>2. [Next]_actorsVars => [CmdNext]_cmdVars BY DEF Next, actorsVars
<1> QED BY <1>1, <1>2, PTL DEF Spec

\* A sleep command is published only when the message received confirms the nonce
\* of the arm in force, for the duration that arm's digits say; every command
\* comes from a message with the token, and no kind twice in a tick: for any
\* messages, capabilities, window and width of the counter
\* (ev_command_actor.c:247, :337-392).
THEOREM SleepNeedsConfirm == Spec => SleepIsConfirmed
<1>1. CmdInv /\ [CmdNext]_cmdVars => CmdInv'
  <2>1. CASE CmdNext BY <2>1, CmdNextKeeps
  <2>2. CASE UNCHANGED cmdVars
    BY <2>2, Zenon DEF cmdVars, CmdInv, CmdNoted, CmdInForce
  <2> QED BY <2>1, <2>2
<1>2. CmdInv /\ [CmdNext]_cmdVars =>
        [/\ cmdOut'.kind = "sleep" =>
              /\ cmdArm.live /\ cmdArm.age < CmdWindow
              /\ CmdConfirms(cmdOut'.from, cmdArm.nonce)
              /\ cmdOut'.value = CmdDecimal(cmdArm.ms)
         /\ cmdOut'.kind # "none" =>
              CmdGenuine(cmdOut'.from) /\ cmdOut'.kind \notin cmdArm.executed]_cmdVars
  BY CmdNextKeeps DEF CmdStepTold
<1> QED BY <1>1, <1>2, CmdStartHolds, CmdRuns, PTL DEF SleepIsConfirmed

-----------------------------------------------------------------------------
(* The demo application. *)

DmAxes(max) == [at : 0 .. max, up : BOOLEAN]
DmContexts ==
  [booted : BOOLEAN, ready : BOOLEAN, hw : {{}} \cup DmMasks,
   column : DmAxes(DmColumns), page : DmAxes(DmPages), visible : BOOLEAN,
   paused : BOOLEAN, sent : 0 .. DmMod - 1, seen : 0 .. DmMod - 1]
DmScenes == [column : 0 .. DmColumns, page : 0 .. DmPages]
DmSnapshots == [seq : 0 .. DmMod - 1]
DmLeases == [kind : {"LEASE"}, slot : 1 .. DmSlots]
DmAppMessages ==
  [kind : {"BOOT", "TICK", "SHORT"}] \cup [kind : {"READY"}, hw : DmMasks] \cup DmLeases

\* The slots the messages in the box b carry, each of them once.
DmSlotsIn(b) == {b[i].slot : i \in {j \in 1 .. Len(b) : b[j].kind = "LEASE"}}
DmDistinct(b) ==
  \A i, j \in 1 .. Len(b) :
    b[i].kind = "LEASE" /\ b[j].kind = "LEASE" /\ b[i].slot = b[j].slot => i = j

\* The slot s is the last the box carries.
DmLatest(b, s) ==
  \E i \in 1 .. Len(b) :
    /\ b[i].kind = "LEASE" /\ b[i].slot = s
    /\ \A j \in 1 .. Len(b) : i < j => b[j].kind # "LEASE"

\* BOOT is the first message; the hardware that is announced grows from hw on.
DmHasBoot(b) == \E i \in 1 .. Len(b) : b[i].kind = "BOOT"
DmOrdered(b, hw) ==
  /\ \A i \in 1 .. Len(b) : b[i].kind = "BOOT" => i = 1
  /\ \A i \in 1 .. Len(b) : b[i].kind = "READY" => hw \subseteq b[i].hw
  /\ \A i, j \in 1 .. Len(b) :
       b[i].kind = "READY" /\ b[j].kind = "READY" /\ i < j => b[i].hw \subseteq b[j].hw

\* The places of a box after a message was put in it.
LEMMA DmPlaces ==
  ASSUME NEW S, NEW b \in Seq(S), NEW m \in S, NEW c, c = Append(b, m)
  PROVE  /\ c \in Seq(S) /\ Len(b) \in Nat /\ Len(c) = Len(b) + 1 /\ c[Len(b) + 1] = m
         /\ Len(b) + 1 \in 1 .. Len(c)
         /\ \A i \in 1 .. Len(b) : i \in 1 .. Len(c) /\ c[i] = b[i]
         /\ \A i \in 1 .. Len(c) : i \in 1 .. Len(b) \/ i = Len(b) + 1
<1>1. PICK n : n = Len(b) OBVIOUS
<1>2. c \in Seq(S) /\ n \in Nat /\ Len(c) = n + 1 /\ c[n + 1] = m /\ \A i \in 1 .. n : c[i] = b[i]
  BY <1>1
<1>3. /\ n + 1 \in 1 .. Len(c) /\ \A i \in 1 .. n : i \in 1 .. Len(c)
      /\ \A i \in 1 .. Len(c) : i \in 1 .. n \/ i = n + 1
  BY <1>2
<1> QED BY <1>1, <1>2, <1>3

\* The places of a box after its first message was taken.
LEMMA DmPlacesLeft ==
  ASSUME NEW S, NEW b \in Seq(S), b # << >>, NEW m, m = Head(b), NEW c, c = Tail(b)
  PROVE  /\ c \in Seq(S) /\ m \in S /\ b[1] = m /\ 1 \in 1 .. Len(b) /\ Len(c) \in Nat
         /\ \A i \in 1 .. Len(c) : i + 1 \in 1 .. Len(b) /\ c[i] = b[i + 1]
         /\ \A i \in 1 .. Len(b) : i # 1 => i - 1 \in 1 .. Len(c) /\ b[i] = c[i - 1]
<1>1. PICK n : n = Len(b) OBVIOUS
<1>2. n \in Nat /\ n > 0 BY <1>1
<1>3. /\ c \in Seq(S) /\ Len(c) = n - 1 /\ m = b[1]
      /\ \A i \in 1 .. n - 1 : c[i] = b[i + 1]
  BY <1>1
<1>4. 1 \in 1 .. n /\ b[1] \in S BY <1>1, <1>2
<1>5. ASSUME NEW i \in 1 .. n, i # 1 PROVE i - 1 \in 1 .. n - 1 /\ b[i] = c[i - 1]
  <2>1. i - 1 \in 1 .. n - 1 /\ (i - 1) + 1 = i BY <1>2, <1>5
  <2> QED BY <1>3, <2>1
<1>6. \A i \in 1 .. n - 1 : i + 1 \in 1 .. n /\ c[i] = b[i + 1] BY <1>2, <1>3
<1>7. n - 1 \in Nat BY <1>2
<1> QED BY <1>1, <1>3, <1>4, <1>5, <1>6, <1>7

\* A message without a slot is put in a box.
LEMMA DmPushedPlain ==
  ASSUME NEW S, NEW b \in Seq(S), NEW m \in S, m.kind # "LEASE", NEW c, c = Append(b, m)
  PROVE  /\ c \in Seq(S) /\ DmSlotsIn(c) = DmSlotsIn(b)
         /\ DmDistinct(b) => DmDistinct(c)
         /\ \A s : DmLatest(c, s) => DmLatest(b, s)
<1>1. /\ c \in Seq(S) /\ c[Len(b) + 1] = m
      /\ \A i \in 1 .. Len(b) : i \in 1 .. Len(c) /\ c[i] = b[i]
      /\ \A i \in 1 .. Len(c) : i \in 1 .. Len(b) \/ i = Len(b) + 1
  BY DmPlaces
<1>2. \A i \in 1 .. Len(c) : c[i].kind = "LEASE" => i \in 1 .. Len(b) /\ c[i] = b[i]
  BY <1>1
<1>3. DmSlotsIn(c) = DmSlotsIn(b)
  <2>1. DmSlotsIn(c) \subseteq DmSlotsIn(b) BY <1>2 DEF DmSlotsIn
  <2>2. DmSlotsIn(b) \subseteq DmSlotsIn(c) BY <1>1 DEF DmSlotsIn
  <2> QED BY <2>1, <2>2
<1>4. DmDistinct(b) => DmDistinct(c) BY <1>2 DEF DmDistinct
<1>5. ASSUME NEW s, DmLatest(c, s) PROVE DmLatest(b, s)
  <2>1. PICK i \in 1 .. Len(c) :
          /\ c[i].kind = "LEASE" /\ c[i].slot = s
          /\ \A j \in 1 .. Len(c) : i < j => c[j].kind # "LEASE"
    BY <1>5 DEF DmLatest
  <2>2. i \in 1 .. Len(b) /\ b[i].kind = "LEASE" /\ b[i].slot = s BY <1>2, <2>1
  <2>3. \A j \in 1 .. Len(b) : i < j => b[j].kind # "LEASE" BY <1>1, <2>1
  <2> QED BY <2>2, <2>3 DEF DmLatest
<1> QED BY <1>1, <1>3, <1>4, <1>5

\* The box c is b with the message m put in it.
DmPut(c, b, m) == c = Append(b, m)

\* A message with a slot is put in a box.
LEMMA DmPushedLease ==
  ASSUME NEW S, NEW b \in Seq(S), NEW m \in S, m.kind = "LEASE", NEW c, DmPut(c, b, m)
  PROVE  /\ c \in Seq(S) /\ DmSlotsIn(c) = DmSlotsIn(b) \cup {m.slot}
         /\ DmDistinct(b) /\ m.slot \notin DmSlotsIn(b) => DmDistinct(c)
         /\ \A s : DmLatest(c, s) => s = m.slot
<1>0. PICK n : n = Len(b) + 1 OBVIOUS
<1>1. /\ c \in Seq(S) /\ Len(b) \in Nat /\ c[n] = m /\ n \in 1 .. Len(c)
      /\ \A i \in 1 .. Len(b) : i \in 1 .. Len(c) /\ c[i] = b[i]
      /\ \A i \in 1 .. Len(c) : i \in 1 .. Len(b) \/ i = n
  BY <1>0, DmPlaces DEF DmPut
<1>2. \A i \in 1 .. Len(b) : i < n BY <1>0, <1>1
<1>3. DmSlotsIn(c) = DmSlotsIn(b) \cup {m.slot}
  <2>1. DmSlotsIn(c) \subseteq DmSlotsIn(b) \cup {m.slot} BY <1>1 DEF DmSlotsIn
  <2>2. DmSlotsIn(b) \subseteq DmSlotsIn(c) BY <1>1 DEF DmSlotsIn
  <2>3. m.slot \in DmSlotsIn(c) BY <1>1 DEF DmSlotsIn
  <2> QED BY <2>1, <2>2, <2>3
<1>4. ASSUME DmDistinct(b), m.slot \notin DmSlotsIn(b) PROVE DmDistinct(c)
  <2>1. \A i \in 1 .. Len(b) : b[i].kind = "LEASE" => b[i].slot # m.slot
    BY <1>4 DEF DmSlotsIn
  <2>2. \A i, j \in 1 .. Len(b) :
          b[i].kind = "LEASE" /\ b[j].kind = "LEASE" /\ b[i].slot = b[j].slot => i = j
    BY <1>4 DEF DmDistinct
  <2>3. ASSUME NEW i \in 1 .. Len(c), NEW j \in 1 .. Len(c),
               c[i].kind = "LEASE", c[j].kind = "LEASE", c[i].slot = c[j].slot
        PROVE  i = j
    <3>1. CASE i = n /\ j = n BY <3>1
    <3>2. CASE i = n /\ j \in 1 .. Len(b) BY <1>1, <2>1, <2>3, <3>2
    <3>3. CASE i \in 1 .. Len(b) /\ j = n BY <1>1, <2>1, <2>3, <3>3
    <3>4. CASE i \in 1 .. Len(b) /\ j \in 1 .. Len(b) BY <1>1, <2>2, <2>3, <3>4
    <3> QED BY <1>1, <3>1, <3>2, <3>3, <3>4
  <2> QED BY <2>3 DEF DmDistinct
<1>5. ASSUME NEW s, DmLatest(c, s) PROVE s = m.slot
  <2>1. PICK i \in 1 .. Len(c) :
          /\ c[i].kind = "LEASE" /\ c[i].slot = s
          /\ \A j \in 1 .. Len(c) : i < j => c[j].kind # "LEASE"
    BY <1>5 DEF DmLatest
  <2>2. i = n BY <1>1, <1>2, <2>1
  <2> QED BY <1>1, <2>1, <2>2
<1> QED BY <1>1, <1>3, <1>4, <1>5

\* The message m is taken from the box b, which leaves c.
DmTaken(c, b, m) == b # << >> /\ m = Head(b) /\ c = Tail(b)

\* The first message is taken from a box.
LEMMA DmPulled ==
  ASSUME NEW S, NEW b \in Seq(S), NEW m, NEW c, DmTaken(c, b, m)
  PROVE  /\ c \in Seq(S) /\ m \in S
         /\ DmDistinct(b) => DmDistinct(c)
         /\ \A s : DmLatest(c, s) => DmLatest(b, s)
         /\ m.kind # "LEASE" => DmSlotsIn(c) = DmSlotsIn(b)
         /\ m.kind = "LEASE" =>
              /\ m.slot \in DmSlotsIn(b)
              /\ DmDistinct(b) => DmSlotsIn(c) = DmSlotsIn(b) \ {m.slot}
              /\ DmSlotsIn(c) = {} => DmLatest(b, m.slot)
<1>1. /\ c \in Seq(S) /\ m \in S /\ b[1] = m /\ 1 \in 1 .. Len(b)
      /\ \A i \in 1 .. Len(c) : i + 1 \in 1 .. Len(b) /\ c[i] = b[i + 1]
      /\ \A i \in 1 .. Len(b) : i # 1 => i - 1 \in 1 .. Len(c) /\ b[i] = c[i - 1]
  BY DmPlacesLeft DEF DmTaken
<1>2. ASSUME DmDistinct(b) PROVE DmDistinct(c)
  <2>1. ASSUME NEW i \in 1 .. Len(c), NEW j \in 1 .. Len(c),
               c[i].kind = "LEASE", c[j].kind = "LEASE", c[i].slot = c[j].slot
        PROVE  i = j
    <3>1. i + 1 \in 1 .. Len(b) /\ j + 1 \in 1 .. Len(b) /\ c[i] = b[i + 1] /\ c[j] = b[j + 1]
      BY <1>1
    <3>2. i + 1 = j + 1 BY <1>2, <2>1, <3>1 DEF DmDistinct
    <3> QED BY <3>2
  <2> QED BY <2>1 DEF DmDistinct
<1>3. ASSUME NEW s, DmLatest(c, s) PROVE DmLatest(b, s)
  <2>1. PICK i \in 1 .. Len(c) :
          /\ c[i].kind = "LEASE" /\ c[i].slot = s
          /\ \A j \in 1 .. Len(c) : i < j => c[j].kind # "LEASE"
    BY <1>3 DEF DmLatest
  <2>2. i + 1 \in 1 .. Len(b) /\ b[i + 1].kind = "LEASE" /\ b[i + 1].slot = s
    BY <1>1, <2>1
  <2>3. ASSUME NEW j \in 1 .. Len(b), i + 1 < j PROVE b[j].kind # "LEASE"
    <3>1. j # 1 /\ i < j - 1 BY <2>3
    <3> QED BY <1>1, <2>1, <3>1
  <2> QED BY <2>2, <2>3 DEF DmLatest
<1>4. ASSUME NEW s \in DmSlotsIn(b) PROVE s \in DmSlotsIn(c) \/ (m.kind = "LEASE" /\ s = m.slot)
  <2>1. PICK i \in 1 .. Len(b) : b[i].kind = "LEASE" /\ b[i].slot = s BY DEF DmSlotsIn
  <2>2. CASE i = 1 BY <1>1, <2>1, <2>2
  <2>3. CASE i # 1
    <3>1. i - 1 \in 1 .. Len(c) /\ c[i - 1].kind = "LEASE" /\ c[i - 1].slot = s
      BY <1>1, <2>1, <2>3
    <3> QED BY <3>1 DEF DmSlotsIn
  <2> QED BY <2>2, <2>3
<1>5. ASSUME NEW s \in DmSlotsIn(c) PROVE s \in DmSlotsIn(b)
  <2>1. PICK i \in 1 .. Len(c) : c[i].kind = "LEASE" /\ c[i].slot = s BY DEF DmSlotsIn
  <2> QED BY <1>1, <2>1 DEF DmSlotsIn
<1>6. m.kind # "LEASE" => DmSlotsIn(c) = DmSlotsIn(b) BY <1>4, <1>5
<1>7. ASSUME m.kind = "LEASE"
      PROVE  /\ m.slot \in DmSlotsIn(b)
             /\ DmDistinct(b) => DmSlotsIn(c) = DmSlotsIn(b) \ {m.slot}
             /\ DmSlotsIn(c) = {} => DmLatest(b, m.slot)
  <2>1. m.slot \in DmSlotsIn(b) BY <1>1, <1>7 DEF DmSlotsIn
  <2>2. ASSUME DmDistinct(b) PROVE m.slot \notin DmSlotsIn(c)
    <3> SUFFICES ASSUME m.slot \in DmSlotsIn(c) PROVE FALSE OBVIOUS
    <3>1. PICK i \in 1 .. Len(c) : c[i].kind = "LEASE" /\ c[i].slot = m.slot
      BY DEF DmSlotsIn
    <3>2. i + 1 \in 1 .. Len(b) /\ b[i + 1].kind = "LEASE" /\ b[i + 1].slot = m.slot
      BY <1>1, <3>1
    <3>3. i + 1 = 1 BY <1>1, <1>7, <2>2, <3>2 DEF DmDistinct
    <3> QED BY <3>3
  <2>3. ASSUME DmSlotsIn(c) = {} PROVE DmLatest(b, m.slot)
    <3>1. \A i \in 1 .. Len(c) : c[i].kind # "LEASE" BY <2>3 DEF DmSlotsIn
    <3>2. ASSUME NEW j \in 1 .. Len(b), 1 < j PROVE b[j].kind # "LEASE"
      <4>1. j # 1 BY <3>2
      <4>2. j - 1 \in 1 .. Len(c) /\ b[j] = c[j - 1] BY <1>1, <4>1
      <4> QED BY <3>1, <4>2
    <3> QED BY <1>1, <1>7, <3>2 DEF DmLatest
  <2> QED BY <1>4, <1>5, <1>7, <2>1, <2>2, <2>3
<1> QED BY <1>1, <1>2, <1>3, <1>6, <1>7

\* The order of the messages after one was put in the box.
LEMMA DmOrderPushed ==
  ASSUME NEW S, NEW b \in Seq(S), NEW m \in S, NEW c, c = Append(b, m), m.kind # "BOOT",
         NEW hw, DmOrdered(b, hw),
         m.kind = "READY" => hw \subseteq m.hw,
         m.kind = "READY" => \A i \in 1 .. Len(b) : b[i].kind = "READY" => b[i].hw \subseteq m.hw
  PROVE  DmOrdered(c, hw) /\ (DmHasBoot(c) => DmHasBoot(b))
<1>0. PICK n : n = Len(b) + 1 OBVIOUS
<1>1. /\ Len(b) \in Nat /\ c[n] = m /\ n \in 1 .. Len(c)
      /\ \A i \in 1 .. Len(b) : i \in 1 .. Len(c) /\ c[i] = b[i]
      /\ \A i \in 1 .. Len(c) : i \in 1 .. Len(b) \/ i = n
  BY <1>0, DmPlaces
<1>2. \A i \in 1 .. Len(b) : i < n BY <1>0, <1>1
<1>3. \A i \in 1 .. Len(c) : c[i].kind = "BOOT" => i = 1 BY <1>1 DEF DmOrdered
<1>4. \A i \in 1 .. Len(c) : c[i].kind = "READY" => hw \subseteq c[i].hw
  BY <1>1 DEF DmOrdered
<1>5. ASSUME NEW i \in 1 .. Len(c), NEW j \in 1 .. Len(c),
             c[i].kind = "READY", c[j].kind = "READY", i < j
      PROVE  c[i].hw \subseteq c[j].hw
  <2>1. i \in 1 .. Len(b)
    <3>1. CASE i = n
      <4>1. n < j BY <1>5, <3>1
      <4> QED BY <1>0, <1>1, <1>2, <4>1
    <3> QED BY <1>1, <3>1
  <2>2. CASE j = n BY <1>1, <1>5, <2>1, <2>2
  <2>3. CASE j \in 1 .. Len(b) BY <1>1, <1>5, <2>1, <2>3 DEF DmOrdered
  <2> QED BY <1>1, <2>2, <2>3
<1>6. DmHasBoot(c) => DmHasBoot(b) BY <1>1 DEF DmHasBoot
<1> QED BY <1>3, <1>4, <1>5, <1>6 DEF DmOrdered

\* The order of the messages after the first was taken.
LEMMA DmOrderPulled ==
  ASSUME NEW S, NEW b \in Seq(S), NEW m, NEW c, DmTaken(c, b, m),
         NEW hw, DmOrdered(b, hw)
  PROVE  /\ DmOrdered(c, hw) /\ DmOrdered(c, {}) /\ ~DmHasBoot(c)
         /\ m.kind = "BOOT" => DmHasBoot(b)
         /\ m.kind = "READY" => hw \subseteq m.hw /\ DmOrdered(c, m.hw)
<1>1. /\ b[1] = m /\ 1 \in 1 .. Len(b)
      /\ \A i \in 1 .. Len(c) : i + 1 \in 1 .. Len(b) /\ c[i] = b[i + 1]
  BY DmPlacesLeft DEF DmTaken
<1>2. \A i \in 1 .. Len(c) : 1 < i + 1 /\ i + 1 # 1 OBVIOUS
<1>3. \A i \in 1 .. Len(c) : c[i].kind # "BOOT" BY <1>1, <1>2 DEF DmOrdered
<1>4. \A i \in 1 .. Len(c) : c[i].kind = "READY" => hw \subseteq c[i].hw
  BY <1>1 DEF DmOrdered
<1>5. ASSUME NEW i \in 1 .. Len(c), NEW j \in 1 .. Len(c),
             c[i].kind = "READY", c[j].kind = "READY", i < j
      PROVE  c[i].hw \subseteq c[j].hw
  <2>1. /\ i + 1 \in 1 .. Len(b) /\ j + 1 \in 1 .. Len(b) /\ i + 1 < j + 1
        /\ c[i] = b[i + 1] /\ c[j] = b[j + 1]
    BY <1>1, <1>5
  <2> QED BY <1>5, <2>1 DEF DmOrdered
<1>6. m.kind = "READY" => hw \subseteq m.hw BY <1>1 DEF DmOrdered
<1>7. m.kind = "READY" => \A i \in 1 .. Len(c) : c[i].kind = "READY" => m.hw \subseteq c[i].hw
  BY <1>1, <1>2 DEF DmOrdered
<1>8. m.kind = "BOOT" => DmHasBoot(b) BY <1>1 DEF DmHasBoot
<1>9. ~DmHasBoot(c) BY <1>3 DEF DmHasBoot
<1>10. DmOrdered(c, hw) /\ DmOrdered(c, {}) BY <1>3, <1>4, <1>5 DEF DmOrdered
<1>11. m.kind = "READY" => DmOrdered(c, m.hw) BY <1>3, <1>5, <1>7 DEF DmOrdered
<1> QED BY <1>6, <1>8, <1>9, <1>10, <1>11

\* Each slot in use is carried by one message of one of two boxes.
DmOwned(a, o, refs) ==
  /\ refs \in [1 .. DmSlots -> 0 .. 1]
  /\ DmDistinct(a) /\ DmDistinct(o)
  /\ DmSlotsIn(a) \subseteq 1 .. DmSlots /\ DmSlotsIn(o) \subseteq 1 .. DmSlots
  /\ DmSlotsIn(a) \cap DmSlotsIn(o) = {}
  /\ \A s \in 1 .. DmSlots : refs[s] = 1 <=> s \in DmSlotsIn(a) \cup DmSlotsIn(o)

\* What the last message of a box carries is what was sent last; without one it
\* was received.
DmUp(b, received, sent, data) ==
  /\ DmSlotsIn(b) = {} => received = sent
  /\ \A s : DmLatest(b, s) => data[s] = sent

\* What a publication in a lease does to a box and to the pool: there is no slot,
\* no room, or the message is in the box.
DmPublished(b, b2, refs, refs2, data, data2, failed2, content) ==
  \/ failed2 = TRUE /\ b2 = b /\ refs2 = refs /\ data2 = data
  \/ \E s \in 1 .. DmSlots :
       /\ refs[s] = 0 /\ data2 = [data EXCEPT ![s] = content]
       /\ \/ failed2 = TRUE /\ b2 = b /\ refs2 = refs
          \/ /\ failed2 = FALSE /\ b2 = Append(b, [kind |-> "LEASE", slot |-> s])
             /\ refs2 = [refs EXCEPT ![s] = 1]

\* The sizes of the demo's boxes and of its pool.
LEMMA DmSizes ==
  /\ DmSlots \in Nat /\ DmMailbox \in Nat /\ DmMailbox > 0 /\ DmMod \in Nat /\ DmMod > 1
  /\ DmColumns \in Nat /\ DmPages \in Nat
BY DmAssumption

\* The first free slot is free.
LEMMA DmFirstFree ==
  ASSUME dmRefs \in [1 .. DmSlots -> 0 .. 1], DmFree # {},
         NEW s, s = CHOOSE x \in DmFree : \A y \in DmFree : x <= y
  PROVE  s \in 1 .. DmSlots /\ dmRefs[s] = 0
<1>1. DmFree \in SUBSET Nat BY DmSizes DEF DmFree
<1>2. \E x \in DmFree : \A y \in DmFree : x <= y BY <1>1, LeastElement
<1>3. s \in DmFree BY <1>2
<1> QED BY <1>3 DEF DmFree

\* A publication to the application.
LEMMA DmPublishApp ==
  ASSUME dmRefs \in [1 .. DmSlots -> 0 .. 1], NEW content, DmPublish(dmAppBox, content)
  PROVE  DmPublished(dmAppBox, dmAppBox', dmRefs, dmRefs', dmData, dmData', dmFailed', content)
<1>1. CASE DmFree = {}
  <2>1. dmFailed' = TRUE /\ dmAppBox' = dmAppBox /\ dmRefs' = dmRefs /\ dmData' = dmData
    BY <1>1 DEF DmPublish, dmPool
  <2> QED BY <2>1 DEF DmPublished
<1>2. CASE DmFree # {}
  <2>1. PICK s : s = CHOOSE x \in DmFree : \A y \in DmFree : x <= y OBVIOUS
  <2>2. s \in 1 .. DmSlots /\ dmRefs[s] = 0 BY <1>2, <2>1, DmFirstFree
  <2>3. DmLease(dmAppBox, content, s) BY <1>2, <2>1 DEF DmPublish
  <2>4. PICK posted : posted = IF Len(dmAppBox) < DmMailbox THEN 1 ELSE 0 OBVIOUS
  <2>5. /\ dmData' = [dmData EXCEPT ![s] = content]
        /\ dmRefs' = [dmRefs EXCEPT ![s] = 1 + 1 + posted - 1 - 1]
        /\ dmAppBox' = IF posted = 1 THEN Append(dmAppBox, [kind |-> "LEASE", slot |-> s])
                        ELSE dmAppBox
        /\ dmFailed' = (posted = 0)
    BY <2>3, <2>4 DEF DmLease
  <2>6. CASE posted = 1
    <3>1. ~(1 = 0) /\ 1 + 1 + 1 - 1 - 1 = 1 OBVIOUS
    <3>2. dmFailed' = FALSE BY <2>5, <2>6, <3>1, Zenon
    <3>3. dmRefs' = [dmRefs EXCEPT ![s] = 1] BY <2>5, <2>6, <3>1
    <3>4. dmAppBox' = Append(dmAppBox, [kind |-> "LEASE", slot |-> s]) BY <2>5, <2>6
    <3> QED BY <2>2, <2>5, <3>2, <3>3, <3>4 DEF DmPublished
  <2>7. CASE posted = 0
    <3>1. ~(0 = 1) /\ 1 + 1 + 0 - 1 - 1 = 0 OBVIOUS
    <3>2. dmFailed' = TRUE BY <2>5, <2>7, Zenon
    <3>3. dmRefs' = dmRefs BY <2>2, <2>5, <2>7, <3>1
    <3>4. dmAppBox' = dmAppBox BY <2>5, <2>7, <3>1
    <3> QED BY <2>2, <2>5, <3>2, <3>3, <3>4 DEF DmPublished
  <2> QED BY <2>4, <2>6, <2>7
<1> QED BY <1>1, <1>2

\* A publication to the display.
LEMMA DmPublishOled ==
  ASSUME dmRefs \in [1 .. DmSlots -> 0 .. 1], NEW content, DmPublish(dmOledBox, content)
  PROVE  DmPublished(dmOledBox, dmOledBox', dmRefs, dmRefs', dmData, dmData', dmFailed', content)
<1>1. CASE DmFree = {}
  <2>1. dmFailed' = TRUE /\ dmOledBox' = dmOledBox /\ dmRefs' = dmRefs /\ dmData' = dmData
    BY <1>1 DEF DmPublish, dmPool
  <2> QED BY <2>1 DEF DmPublished
<1>2. CASE DmFree # {}
  <2>1. PICK s : s = CHOOSE x \in DmFree : \A y \in DmFree : x <= y OBVIOUS
  <2>2. s \in 1 .. DmSlots /\ dmRefs[s] = 0 BY <1>2, <2>1, DmFirstFree
  <2>3. DmLease(dmOledBox, content, s) BY <1>2, <2>1 DEF DmPublish
  <2>4. PICK posted : posted = IF Len(dmOledBox) < DmMailbox THEN 1 ELSE 0 OBVIOUS
  <2>5. /\ dmData' = [dmData EXCEPT ![s] = content]
        /\ dmRefs' = [dmRefs EXCEPT ![s] = 1 + 1 + posted - 1 - 1]
        /\ dmOledBox' = IF posted = 1 THEN Append(dmOledBox, [kind |-> "LEASE", slot |-> s])
                        ELSE dmOledBox
        /\ dmFailed' = (posted = 0)
    BY <2>3, <2>4 DEF DmLease
  <2>6. CASE posted = 1
    <3>1. ~(1 = 0) /\ 1 + 1 + 1 - 1 - 1 = 1 OBVIOUS
    <3>2. dmFailed' = FALSE BY <2>5, <2>6, <3>1, Zenon
    <3>3. dmRefs' = [dmRefs EXCEPT ![s] = 1] BY <2>5, <2>6, <3>1
    <3>4. dmOledBox' = Append(dmOledBox, [kind |-> "LEASE", slot |-> s]) BY <2>5, <2>6
    <3> QED BY <2>2, <2>5, <3>2, <3>3, <3>4 DEF DmPublished
  <2>7. CASE posted = 0
    <3>1. ~(0 = 1) /\ 1 + 1 + 0 - 1 - 1 = 0 OBVIOUS
    <3>2. dmFailed' = TRUE BY <2>5, <2>7, Zenon
    <3>3. dmRefs' = dmRefs BY <2>2, <2>5, <2>7, <3>1
    <3>4. dmOledBox' = dmOledBox BY <2>5, <2>7, <3>1
    <3> QED BY <2>2, <2>5, <3>2, <3>3, <3>4 DEF DmPublished
  <2> QED BY <2>4, <2>6, <2>7
<1> QED BY <1>1, <1>2

\* The two boxes may change places.
LEMMA DmOwnedBoth ==
  ASSUME NEW a, NEW o, NEW refs, DmOwned(a, o, refs)
  PROVE  DmOwned(o, a, refs)
BY DEF DmOwned

\* Boxes that carry the same slots own the same ones.
LEMMA DmOwnedSame ==
  ASSUME NEW a, NEW o, NEW refs, DmOwned(a, o, refs),
         NEW b, DmSlotsIn(b) = DmSlotsIn(a), DmDistinct(b)
  PROVE  DmOwned(b, o, refs)
BY DEF DmOwned

\* After a publication in a lease of content in C to the box a of messages in S:
\* nothing but a slot that was free was written.
DmPublishedWell(S, C, a, a2, o, data, data2, failed2, content) ==
  /\ a2 \in Seq(S) /\ data2 \in [1 .. DmSlots -> C]
  /\ failed2 \in BOOLEAN
  /\ \A s \in DmSlotsIn(a) \cup DmSlotsIn(o) : data2[s] = data[s]
  /\ \A s \in DmSlotsIn(a2) : s \in DmSlotsIn(a) \/ data2[s] = content
  /\ ~failed2 => /\ DmSlotsIn(a2) # {}
                 /\ \A s : DmLatest(a2, s) => data2[s] = content
                 /\ \E s \in 1 .. DmSlots : a2 = Append(a, [kind |-> "LEASE", slot |-> s])

\* After a publication in a lease each slot in use is still carried once.
LEMMA DmOwnedPublished ==
  ASSUME NEW S, NEW a \in Seq(S), NEW o, NEW refs, NEW a2, NEW refs2, NEW C,
         NEW data \in [1 .. DmSlots -> C], NEW data2, NEW failed2, NEW content \in C,
         DmLeases \subseteq S,
         DmOwned(a, o, refs), DmPublished(a, a2, refs, refs2, data, data2, failed2, content)
  PROVE  /\ DmOwned(a2, o, refs2)
         /\ DmPublishedWell(S, C, a, a2, o, data, data2, failed2, content)
<1>1. CASE failed2 = TRUE /\ a2 = a /\ refs2 = refs /\ data2 = data
  BY <1>1 DEF DmPublishedWell
<1>2. ASSUME NEW s \in 1 .. DmSlots, refs[s] = 0, data2 = [data EXCEPT ![s] = content],
             failed2 = TRUE /\ a2 = a /\ refs2 = refs
      PROVE  /\ data2 \in [1 .. DmSlots -> C]
             /\ \A t \in DmSlotsIn(a) \cup DmSlotsIn(o) : data2[t] = data[t]
  <2>1. data2 \in [1 .. DmSlots -> C] BY <1>2
  <2>2. s \notin DmSlotsIn(a) \cup DmSlotsIn(o) BY <1>2 DEF DmOwned
  <2>3. DmSlotsIn(a) \cup DmSlotsIn(o) \subseteq 1 .. DmSlots BY DEF DmOwned
  <2> QED BY <1>2, <2>1, <2>2, <2>3
<1>3. ASSUME NEW s \in 1 .. DmSlots, refs[s] = 0, data2 = [data EXCEPT ![s] = content],
             failed2 = FALSE, a2 = Append(a, [kind |-> "LEASE", slot |-> s]),
             refs2 = [refs EXCEPT ![s] = 1]
      PROVE  /\ a2 \in Seq(S) /\ DmOwned(a2, o, refs2) /\ data2 \in [1 .. DmSlots -> C]
             /\ \A t \in DmSlotsIn(a) \cup DmSlotsIn(o) : data2[t] = data[t]
             /\ \A t \in DmSlotsIn(a2) : t \in DmSlotsIn(a) \/ data2[t] = content
             /\ DmSlotsIn(a2) # {}
             /\ \A t : DmLatest(a2, t) => data2[t] = content
  <2>1. data2 \in [1 .. DmSlots -> C] /\ data2[s] = content BY <1>3
  <2>2. s \notin DmSlotsIn(a) \cup DmSlotsIn(o) BY <1>3 DEF DmOwned
  <2>3. DmSlotsIn(a) \cup DmSlotsIn(o) \subseteq 1 .. DmSlots BY DEF DmOwned
  <2>4. \A t \in DmSlotsIn(a) \cup DmSlotsIn(o) : data2[t] = data[t]
    BY <1>3, <2>1, <2>2, <2>3
  <2>5. PICK m : m = [kind |-> "LEASE", slot |-> s] OBVIOUS
  <2>6. m \in S /\ m.kind = "LEASE" /\ m.slot = s BY <2>5 DEF DmLeases
  <2>7. DmDistinct(a) BY DEF DmOwned
  <2>8. /\ a2 \in Seq(S) /\ DmSlotsIn(a2) = DmSlotsIn(a) \cup {s} /\ DmDistinct(a2)
        /\ \A t : DmLatest(a2, t) => t = s
    <3>1. /\ a2 \in Seq(S) /\ DmSlotsIn(a2) = DmSlotsIn(a) \cup {m.slot}
          /\ DmDistinct(a) /\ m.slot \notin DmSlotsIn(a) => DmDistinct(a2)
          /\ \A t : DmLatest(a2, t) => t = m.slot
      <4>1. DmPut(a2, a, m) BY <1>3, <2>5 DEF DmPut
      <4> QED BY <2>6, <4>1, DmPushedLease
    <3> QED BY <2>2, <2>6, <2>7, <3>1
  <2>9. DmOwned(a2, o, refs2)
    <3>1. refs \in [1 .. DmSlots -> 0 .. 1] /\ DmDistinct(o) BY DEF DmOwned
    <3>2. refs2 \in [1 .. DmSlots -> 0 .. 1] BY <1>3, <3>1
    <3>3. ASSUME NEW t \in 1 .. DmSlots
          PROVE  refs2[t] = 1 <=> t \in DmSlotsIn(a2) \cup DmSlotsIn(o)
      <4>1. CASE t = s BY <1>3, <2>8, <3>1, <4>1
      <4>2. CASE t # s
        <5>1. refs2[t] = refs[t] BY <1>3, <3>1, <4>2
        <5>2. refs[t] = 1 <=> t \in DmSlotsIn(a) \cup DmSlotsIn(o) BY DEF DmOwned
        <5> QED BY <2>8, <4>2, <5>1, <5>2
      <4> QED BY <4>1, <4>2
    <3>4. DmSlotsIn(a2) \subseteq 1 .. DmSlots /\ DmSlotsIn(o) \subseteq 1 .. DmSlots
          /\ DmSlotsIn(a2) \cap DmSlotsIn(o) = {}
      BY <1>3, <2>2, <2>8 DEF DmOwned
    <3> QED BY <2>8, <3>1, <3>2, <3>3, <3>4 DEF DmOwned
  <2> QED BY <2>1, <2>4, <2>8, <2>9
<1>4. CASE \E s \in 1 .. DmSlots :
             /\ refs[s] = 0 /\ data2 = [data EXCEPT ![s] = content]
             /\ failed2 = TRUE /\ a2 = a /\ refs2 = refs
  BY <1>2, <1>4 DEF DmPublishedWell
<1>5. CASE \E s \in 1 .. DmSlots :
             /\ refs[s] = 0 /\ data2 = [data EXCEPT ![s] = content]
             /\ failed2 = FALSE /\ a2 = Append(a, [kind |-> "LEASE", slot |-> s])
             /\ refs2 = [refs EXCEPT ![s] = 1]
  BY <1>3, <1>5 DEF DmPublishedWell
<1> QED BY <1>1, <1>4, <1>5 DEF DmPublished

\* A message with a slot was handled and its reference dropped.
LEMMA DmOwnedTaken ==
  ASSUME NEW S, NEW a \in Seq(S), NEW o, NEW refs, DmOwned(a, o, refs),
         NEW m, m.kind = "LEASE", NEW a2, DmTaken(a2, a, m),
         NEW refs2, refs2 = [refs EXCEPT ![m.slot] = @ - 1]
  PROVE  a2 \in Seq(S) /\ DmOwned(a2, o, refs2) /\ m.slot \in DmSlotsIn(a)
<1>0. PICK s : s = m.slot OBVIOUS
<1>1. DmDistinct(a) /\ DmDistinct(o) /\ refs \in [1 .. DmSlots -> 0 .. 1] BY DEF DmOwned
<1>2. /\ a2 \in Seq(S) /\ DmDistinct(a2) /\ s \in DmSlotsIn(a)
      /\ DmSlotsIn(a2) = DmSlotsIn(a) \ {s}
  <2>1. /\ a2 \in Seq(S) /\ m \in S
        /\ DmDistinct(a) => DmDistinct(a2)
        /\ \A t : DmLatest(a2, t) => DmLatest(a, t)
        /\ m.kind # "LEASE" => DmSlotsIn(a2) = DmSlotsIn(a)
        /\ m.kind = "LEASE" =>
             /\ m.slot \in DmSlotsIn(a)
             /\ DmDistinct(a) => DmSlotsIn(a2) = DmSlotsIn(a) \ {m.slot}
             /\ DmSlotsIn(a2) = {} => DmLatest(a, m.slot)
    BY DmPulled
  <2> QED BY <1>0, <1>1, <2>1
<1>3. s \in 1 .. DmSlots /\ refs[s] = 1 BY <1>2 DEF DmOwned
<1>4. refs2 = [refs EXCEPT ![s] = 0] BY <1>0, <1>1, <1>3
<1>5. refs2 \in [1 .. DmSlots -> 0 .. 1]
  <2>1. 0 \in 0 .. 1 OBVIOUS
  <2> QED BY <1>1, <1>4, <2>1
<1>6. s \notin DmSlotsIn(o) BY <1>2 DEF DmOwned
<1>7. ASSUME NEW t \in 1 .. DmSlots
      PROVE  refs2[t] = 1 <=> t \in DmSlotsIn(a2) \cup DmSlotsIn(o)
  <2>1. CASE t = s BY <1>1, <1>2, <1>4, <1>6, <2>1
  <2>2. CASE t # s
    <3>1. refs2[t] = refs[t] BY <1>1, <1>4, <2>2
    <3>2. refs[t] = 1 <=> t \in DmSlotsIn(a) \cup DmSlotsIn(o) BY DEF DmOwned
    <3> QED BY <1>2, <2>2, <3>1, <3>2
  <2> QED BY <2>1, <2>2
<1>8. /\ DmSlotsIn(a2) \subseteq 1 .. DmSlots /\ DmSlotsIn(o) \subseteq 1 .. DmSlots
      /\ DmSlotsIn(a2) \cap DmSlotsIn(o) = {}
  BY <1>2 DEF DmOwned
<1>9. DmOwned(a2, o, refs2) BY <1>1, <1>2, <1>5, <1>7, <1>8 DEF DmOwned
<1> QED BY <1>0, <1>2, <1>9

\* The last slot of a box is one of its slots.
LEMMA DmLatestIn == ASSUME NEW b, NEW s, DmLatest(b, s) PROVE s \in DmSlotsIn(b)
BY DEF DmLatest, DmSlotsIn

\* What is written elsewhere does not matter to a box.
LEMMA DmUpSame ==
  ASSUME NEW b, NEW x, NEW y, NEW data, NEW data2, DmUp(b, x, y, data),
         \A s \in DmSlotsIn(b) : data2[s] = data[s]
  PROVE  DmUp(b, x, y, data2)
<1>1. \A s : DmLatest(b, s) => data2[s] = data[s] BY DmLatestIn
<1> QED BY <1>1 DEF DmUp

DmContents == DmScenes \cup DmSnapshots

\* The snapshots: the actor has the last one, or it waits.
DmHears(d, app, data) == DmUp(app, [seq |-> d.seen], [seq |-> d.sent], data)

\* The display: it has the actor's place, or that waits.
DmShows(d, oled1, shown, data) ==
  d.visible => d.ready /\ "OLED" \in d.hw /\ DmUp(oled1, shown, DmScene(d), data)

\* The LED: on while the movement is paused; a pause before the system was ready
\* is an early one.
DmLit(d, led, early) == (led = d.paused \/ early) /\ (~d.ready /\ ~early => ~d.paused)

\* The order of the messages; until BOOT is handled nothing is shown.
DmWaits(d, app, diag, led) ==
  /\ DmOrdered(app, d.hw)
  /\ ~d.booted => app = << >> /\ diag = << >>
  /\ DmHasBoot(app) \/ ~d.booted => ~d.visible /\ ~d.paused /\ ~led

DmTypes ==
  /\ dm \in DmContexts /\ dmAppBox \in Seq(DmAppMessages) /\ dmOledBox \in Seq(DmLeases)
  /\ dmData \in [1 .. DmSlots -> DmContents]
  /\ dmLed \in BOOLEAN /\ dmEarly \in BOOLEAN /\ dmFailed \in BOOLEAN

DmInv ==
  /\ DmTypes
  /\ DmOwned(dmAppBox, dmOledBox, dmRefs)
  /\ \A s \in DmSlotsIn(dmAppBox) : dmData[s] \in DmSnapshots
  /\ ~dmFailed => /\ DmHears(dm, dmAppBox, dmData)
                  /\ DmShows(dm, dmOledBox, dmShown, dmData)
                  /\ DmLit(dm, dmLed, dmEarly)
                  /\ DmWaits(dm, dmAppBox, dmDiagBox, dmLed)

\* The parts of the actors' states.
LEMMA DmFields ==
  \A d \in DmContexts :
    /\ d.booted \in BOOLEAN /\ d.ready \in BOOLEAN /\ d.visible \in BOOLEAN
    /\ d.paused \in BOOLEAN /\ d.hw \in {{}} \cup DmMasks
    /\ d.column \in DmAxes(DmColumns) /\ d.page \in DmAxes(DmPages)
    /\ d.sent \in 0 .. DmMod - 1 /\ d.seen \in 0 .. DmMod - 1
BY DEF DmContexts

\* The kinds of messages for the application.
LEMMA DmKinds ==
  ASSUME NEW m \in DmAppMessages
  PROVE  /\ m.kind \in {"BOOT", "TICK", "SHORT", "READY", "LEASE"}
         /\ m.kind = "READY" => m.hw \in DmMasks
         /\ m.kind = "LEASE" => m.slot \in 1 .. DmSlots
<1>1. CASE m \in [kind : {"BOOT", "TICK", "SHORT"}] BY <1>1
<1>2. CASE m \in [kind : {"READY"}, hw : DmMasks] BY <1>2
<1>3. CASE m \in DmLeases BY <1>3 DEF DmLeases
<1> QED BY <1>1, <1>2, <1>3 DEF DmAppMessages

\* A step that only fails keeps the slots.
LEMMA DmFailKeeps ==
  ASSUME DmInv, dm' \in DmContexts, dmAppBox' = dmAppBox, dmOledBox' = dmOledBox,
         dmRefs' = dmRefs, dmData' = dmData, dmLed' \in BOOLEAN, dmEarly' \in BOOLEAN,
         dmFailed' = TRUE
  PROVE  DmInv'
<1>1. DmTypes' BY DEF DmInv, DmTypes
<1>2. DmOwned(dmAppBox', dmOledBox', dmRefs') BY DEF DmInv
<1>3. \A s \in DmSlotsIn(dmAppBox') : dmData'[s] \in DmSnapshots BY DEF DmInv
<1> QED BY <1>1, <1>2, <1>3 DEF DmInv

\* A message without a slot arrives at the application.
LEMMA DmPushKeeps ==
  ASSUME DmInv, dm.booted, NEW m \in DmAppMessages, m.kind \notin {"LEASE", "BOOT"},
         m.kind = "READY" => dm.hw \subseteq m.hw,
         m.kind = "READY" => \A i \in 1 .. Len(dmAppBox) :
                               dmAppBox[i].kind = "READY" => dmAppBox[i].hw \subseteq m.hw,
         dmAppBox' = Append(dmAppBox, m),
         UNCHANGED <<dm, dmOledBox, dmRefs, dmData, dmShown, dmLed, dmEarly, dmFailed>>
  PROVE  DmInv'
<1>1. PICK a, b : a = dmAppBox /\ b = dmAppBox' OBVIOUS
<1>2. a \in Seq(DmAppMessages) /\ b = Append(a, m) /\ m.kind # "LEASE" /\ m.kind # "BOOT"
  BY <1>1 DEF DmInv, DmTypes
<1>3. /\ b \in Seq(DmAppMessages) /\ DmSlotsIn(b) = DmSlotsIn(a)
      /\ DmDistinct(a) => DmDistinct(b)
      /\ \A s : DmLatest(b, s) => DmLatest(a, s)
  BY <1>2, DmPushedPlain
<1>4. DmOwned(a, dmOledBox, dmRefs) /\ DmDistinct(a) BY <1>1 DEF DmInv, DmOwned
<1>5. DmOwned(b, dmOledBox, dmRefs) BY <1>3, <1>4, DmOwnedSame
<1>6. \A s \in DmSlotsIn(b) : dmData[s] \in DmSnapshots BY <1>1, <1>3 DEF DmInv
<1>7. DmTypes' BY <1>1, <1>3 DEF DmInv, DmTypes
<1>8. ASSUME ~dmFailed
      PROVE  /\ DmHears(dm, b, dmData) /\ DmShows(dm, dmOledBox, dmShown, dmData)
             /\ DmLit(dm, dmLed, dmEarly) /\ DmWaits(dm, b, dmDiagBox', dmLed)
  <2>1. /\ DmHears(dm, a, dmData) /\ DmShows(dm, dmOledBox, dmShown, dmData)
        /\ DmLit(dm, dmLed, dmEarly) /\ DmWaits(dm, a, dmDiagBox, dmLed)
    BY <1>1, <1>8 DEF DmInv
  <2>2. DmHears(dm, b, dmData) BY <1>3, <2>1 DEF DmHears, DmUp
  <2>3. PICK hw : hw = dm.hw OBVIOUS
  <2>4. DmOrdered(a, hw) BY <2>1, <2>3 DEF DmWaits
  <2>5. /\ m.kind = "READY" => hw \subseteq m.hw
        /\ m.kind = "READY" => \A i \in 1 .. Len(a) : a[i].kind = "READY" => a[i].hw \subseteq m.hw
    BY <1>1, <2>3
  <2>6. DmOrdered(b, hw) /\ (DmHasBoot(b) => DmHasBoot(a))
    BY <1>2, <2>4, <2>5, DmOrderPushed
  <2>7. DmWaits(dm, b, dmDiagBox', dmLed) BY <2>1, <2>3, <2>6 DEF DmWaits
  <2> QED BY <2>1, <2>2, <2>7
<1> QED BY <1>1, <1>5, <1>6, <1>7, <1>8 DEF DmInv

\* ev_demo_app_publish_tick, the supervisor and the panel.
LEMMA DmArrivalsKeep == ASSUME DmInv, DmTickPublished \/ DmArrives PROVE DmInv'
<1>0. dm \in DmContexts /\ dmLed \in BOOLEAN /\ dmEarly \in BOOLEAN
  BY DEF DmInv, DmTypes
<1>1. CASE DmTickPublished
  <2>1. /\ dm.booted /\ dm' = dm /\ dmOledBox' = dmOledBox /\ dmRefs' = dmRefs
        /\ dmData' = dmData /\ dmShown' = dmShown /\ dmLed' = dmLed /\ dmEarly' = dmEarly
    BY <1>1 DEF DmTickPublished, dmPool, dmWorld
  <2>2. CASE dmAppBox' = Append(dmAppBox, [kind |-> "TICK"]) /\ dmFailed' = dmFailed
    <3>1. PICK m : m = [kind |-> "TICK"] OBVIOUS
    <3>2. m \in DmAppMessages /\ m.kind = "TICK" BY <3>1 DEF DmAppMessages
    <3>3. m.kind \notin {"LEASE", "BOOT"} /\ m.kind # "READY" BY <3>2
    <3>4. dmAppBox' = Append(dmAppBox, m) BY <2>2, <3>1
    <3> QED BY <2>1, <2>2, <3>2, <3>3, <3>4, DmPushKeeps
  <2>3. CASE dmFailed' = TRUE /\ dmAppBox' = dmAppBox BY <1>0, <2>1, <2>3, DmFailKeeps
  <2> QED BY <1>1, <2>2, <2>3 DEF DmTickPublished
<1>2. CASE DmArrives
  <2>1. /\ dm.booted /\ dm' = dm /\ dmOledBox' = dmOledBox /\ dmRefs' = dmRefs
        /\ dmData' = dmData /\ dmShown' = dmShown /\ dmLed' = dmLed /\ dmEarly' = dmEarly
    BY <1>2 DEF DmArrives, dmPool, dmWorld
  <2>2. PICK m \in [kind : {"READY"}, hw : {h \in DmMasks : DmAnnounced \subseteq h}]
                     \cup [kind : {"SHORT"}] :
          IF Len(dmAppBox) < DmMailbox
            THEN dmAppBox' = Append(dmAppBox, m) /\ UNCHANGED dmFailed
            ELSE dmFailed' = TRUE /\ UNCHANGED dmAppBox
    BY <1>2 DEF DmArrives
  <2>3. CASE dmFailed' = TRUE /\ dmAppBox' = dmAppBox BY <1>0, <2>1, <2>3, DmFailKeeps
  <2>4. CASE dmAppBox' = Append(dmAppBox, m) /\ dmFailed' = dmFailed
    <3>1. CASE m \in [kind : {"SHORT"}]
      <4>1. m \in DmAppMessages /\ m.kind = "SHORT"
        <5>1. m \in [kind : {"BOOT", "TICK", "SHORT"}] BY <3>1
        <5> QED BY <3>1, <5>1 DEF DmAppMessages
      <4>2. m.kind \notin {"LEASE", "BOOT"} /\ m.kind # "READY" BY <4>1
      <4> QED BY <2>1, <2>4, <4>1, <4>2, DmPushKeeps
    <3>2. CASE m \in [kind : {"READY"}, hw : {h \in DmMasks : DmAnnounced \subseteq h}]
      <4>1. m \in DmAppMessages /\ m.kind = "READY" /\ DmAnnounced \subseteq m.hw
        BY <3>2 DEF DmAppMessages
      <4>2. m.kind \notin {"LEASE", "BOOT"} BY <4>1
      <4>3. dm.hw \subseteq m.hw BY <4>1 DEF DmAnnounced
      <4>4. ASSUME NEW i \in 1 .. Len(dmAppBox), dmAppBox[i].kind = "READY"
            PROVE  dmAppBox[i].hw \subseteq m.hw
        BY <4>1, <4>4 DEF DmAnnounced
      <4> QED BY <2>1, <2>4, <4>1, <4>2, <4>3, <4>4, DmPushKeeps
    <3> QED BY <2>2, <3>1, <3>2
  <2> QED BY <2>2, <2>3, <2>4
<1> QED BY <1>1, <1>2

\* ev_demo_app_publish_boot
LEMMA DmBootKeeps == ASSUME DmInv, DmBoot PROVE DmInv'
<1>1. PICK a, b, m : a = dmAppBox /\ b = dmAppBox' /\ m = [kind |-> "BOOT"] OBVIOUS
<1>2. /\ a \in Seq(DmAppMessages) /\ b = Append(a, m) /\ ~dm.booted /\ dm \in DmContexts
      /\ dm' = [dm EXCEPT !.booted = TRUE]
      /\ UNCHANGED <<dmOledBox, dmRefs, dmData, dmShown, dmLed, dmEarly, dmFailed>>
  BY <1>1 DEF DmInv, DmTypes, DmBoot, dmPool, dmWorld
<1>3. m \in DmAppMessages /\ m.kind = "BOOT" /\ m.kind # "LEASE"
  BY <1>1 DEF DmAppMessages
<1>4. /\ b \in Seq(DmAppMessages) /\ DmSlotsIn(b) = DmSlotsIn(a)
      /\ DmDistinct(a) => DmDistinct(b)
      /\ \A s : DmLatest(b, s) => DmLatest(a, s)
  BY <1>2, <1>3, DmPushedPlain
<1>5. DmOwned(a, dmOledBox, dmRefs) /\ DmDistinct(a) BY <1>1 DEF DmInv, DmOwned
<1>6. DmOwned(b, dmOledBox, dmRefs) BY <1>4, <1>5, DmOwnedSame
<1>7. \A s \in DmSlotsIn(b) : dmData[s] \in DmSnapshots BY <1>1, <1>4 DEF DmInv
<1>8. dm' \in DmContexts BY <1>2 DEF DmContexts
<1>9. /\ dm'.booted /\ dm'.ready = dm.ready /\ dm'.hw = dm.hw /\ dm'.visible = dm.visible
      /\ dm'.paused = dm.paused /\ dm'.sent = dm.sent /\ dm'.seen = dm.seen
      /\ dm'.column = dm.column /\ dm'.page = dm.page
  BY <1>2 DEF DmContexts
<1>10. DmTypes' BY <1>1, <1>2, <1>4, <1>8 DEF DmInv, DmTypes
<1>11. ASSUME ~dmFailed
       PROVE  /\ DmHears(dm', b, dmData) /\ DmShows(dm', dmOledBox, dmShown, dmData)
              /\ DmLit(dm', dmLed, dmEarly) /\ DmWaits(dm', b, dmDiagBox', dmLed)
  <2>1. /\ DmHears(dm, a, dmData) /\ DmShows(dm, dmOledBox, dmShown, dmData)
        /\ DmLit(dm, dmLed, dmEarly) /\ DmWaits(dm, a, dmDiagBox, dmLed)
    BY <1>1, <1>11 DEF DmInv
  <2>2. DmHears(dm', b, dmData) BY <1>4, <1>9, <2>1 DEF DmHears, DmUp
  <2>3. a = << >> /\ ~dm.visible /\ ~dm.paused /\ ~dmLed BY <1>2, <2>1 DEF DmWaits
  <2>4. Len(b) = 1 /\ b[1] = m BY <1>2, <2>3
  <2>5. DmOrdered(b, dm'.hw)
    <3>1. \A i \in 1 .. Len(b) : i = 1 /\ b[i].kind = "BOOT" BY <1>3, <2>4
    <3> QED BY <3>1 DEF DmOrdered
  <2>6. DmWaits(dm', b, dmDiagBox', dmLed) BY <1>9, <2>3, <2>5 DEF DmWaits
  <2>7. DmShows(dm', dmOledBox, dmShown, dmData) BY <1>9, <2>3 DEF DmShows
  <2>8. DmLit(dm', dmLed, dmEarly) BY <1>9, <2>1 DEF DmLit
  <2> QED BY <2>2, <2>6, <2>7, <2>8
<1> QED BY <1>1, <1>2, <1>6, <1>7, <1>10, <1>11 DEF DmInv

\* ev_demo_diag_actor_handle
LEMMA DmDiagKeeps == ASSUME DmInv, DmDiag PROVE DmInv'
<1>0. /\ dm \in DmContexts /\ dmAppBox \in Seq(DmAppMessages) /\ dmOledBox \in Seq(DmLeases)
      /\ dmData \in [1 .. DmSlots -> DmContents] /\ dmLed \in BOOLEAN /\ dmEarly \in BOOLEAN
      /\ DmOwned(dmAppBox, dmOledBox, dmRefs)
      /\ \A s \in DmSlotsIn(dmAppBox) : dmData[s] \in DmSnapshots
      /\ ~dmFailed
  BY DEF DmInv, DmTypes, DmDiag
<1>1. /\ dmDiagBox # << >> /\ dmOledBox' = dmOledBox
      /\ dmShown' = dmShown /\ dmLed' = dmLed /\ dmEarly' = dmEarly
  BY DEF DmDiag, dmWorld
<1>2. /\ DmHears(dm, dmAppBox, dmData) /\ DmShows(dm, dmOledBox, dmShown, dmData)
      /\ DmLit(dm, dmLed, dmEarly) /\ DmWaits(dm, dmAppBox, dmDiagBox, dmLed)
  BY <1>0 DEF DmInv
<1>3. dm.booted BY <1>1, <1>2 DEF DmWaits
<1>4. CASE UNCHANGED <<dm, dmAppBox, dmPool, dmFailed>>
  <2>1. DmWaits(dm, dmAppBox, dmDiagBox', dmLed) BY <1>2, <1>3 DEF DmWaits
  <2>2. DmTypes' BY <1>1, <1>4 DEF DmInv, DmTypes, dmPool
  <2> QED BY <1>0, <1>1, <1>2, <1>4, <2>1, <2>2 DEF DmInv, dmPool
<1>5. CASE dmFailed' = TRUE /\ UNCHANGED <<dm, dmAppBox, dmPool>>
  BY <1>0, <1>1, <1>5, DmFailKeeps DEF dmPool
<1>6. CASE DmSnapshot
  <2>1. PICK n, content : n = (dm.sent + 1) % DmMod /\ content = [seq |-> n] OBVIOUS
  <2>2. n \in 0 .. DmMod - 1
    <3>1. dm.sent \in 0 .. DmMod - 1 BY <1>0, DmFields
    <3>2. 1 \in 0 .. DmMod - 1 BY DmSizes
    <3>3. n = IF dm.sent + 1 < DmMod THEN dm.sent + 1 ELSE dm.sent + 1 - DmMod
      BY <2>1, <3>1, <3>2, DmSizes, ModSum
    <3> QED BY <3>1, <3>3, DmSizes
  <2>3. content \in DmSnapshots /\ content \in DmContents
    BY <2>1, <2>2 DEF DmSnapshots, DmContents
  <2>4. /\ DmPublish(dmAppBox, content)
        /\ dm' = IF dmFailed' THEN dm ELSE [dm EXCEPT !.sent = n]
    <3>1. /\ DmPublish(dmAppBox, [seq |-> (dm.sent + 1) % DmMod])
          /\ dm' = IF dmFailed' THEN dm ELSE [dm EXCEPT !.sent = (@ + 1) % DmMod]
      BY <1>6 DEF DmSnapshot
    <3>2. [dm EXCEPT !.sent = (@ + 1) % DmMod] = [dm EXCEPT !.sent = n]
      BY <1>0, <2>1 DEF DmContexts
    <3>3. [seq |-> (dm.sent + 1) % DmMod] = content BY <2>1
    <3>4. DmPublish(dmAppBox, content) BY <3>1, <3>3 DEF DmPublish, DmLease
    <3>5. dm' = IF dmFailed' THEN dm ELSE [dm EXCEPT !.sent = n] BY <3>1, <3>2
    <3> QED BY <3>4, <3>5
  <2>5. DmPublished(dmAppBox, dmAppBox', dmRefs, dmRefs', dmData, dmData', dmFailed', content)
    <3>1. dmRefs \in [1 .. DmSlots -> 0 .. 1] BY <1>0 DEF DmOwned
    <3> QED BY <2>4, <3>1, DmPublishApp
  <2>6. PICK S, C : S = DmAppMessages /\ C = DmContents OBVIOUS
  <2>7. DmLeases \subseteq S BY <2>6 DEF DmAppMessages
  <2>8. /\ dmAppBox' \in Seq(S) /\ DmOwned(dmAppBox', dmOledBox, dmRefs')
        /\ dmData' \in [1 .. DmSlots -> C] /\ dmFailed' \in BOOLEAN
        /\ \A s \in DmSlotsIn(dmAppBox) \cup DmSlotsIn(dmOledBox) : dmData'[s] = dmData[s]
        /\ \A s \in DmSlotsIn(dmAppBox') : s \in DmSlotsIn(dmAppBox) \/ dmData'[s] = content
        /\ ~dmFailed' => /\ DmSlotsIn(dmAppBox') # {}
                         /\ \A s : DmLatest(dmAppBox', s) => dmData'[s] = content
                         /\ \E s \in 1 .. DmSlots :
                              dmAppBox' = Append(dmAppBox, [kind |-> "LEASE", slot |-> s])
    <3>1. PICK a, a2, o, x, x2, y, y2, f :
            /\ a = dmAppBox /\ a2 = dmAppBox' /\ o = dmOledBox /\ x = dmRefs /\ x2 = dmRefs'
            /\ y = dmData /\ y2 = dmData' /\ f = dmFailed'
      OBVIOUS
    <3>2. /\ a \in Seq(S) /\ y \in [1 .. DmSlots -> C] /\ content \in C
          /\ DmOwned(a, o, x) /\ DmPublished(a, a2, x, x2, y, y2, f, content)
      BY <1>0, <2>3, <2>5, <2>6, <3>1
    <3>3. DmOwned(a2, o, x2) /\ DmPublishedWell(S, C, a, a2, o, y, y2, f, content)
      BY <2>7, <3>2, DmOwnedPublished
    <3> QED BY <3>1, <3>3 DEF DmPublishedWell
  <2>9. \A s \in DmSlotsIn(dmAppBox') : dmData'[s] \in DmSnapshots BY <1>0, <2>3, <2>8
  <2>10. dm' \in DmContexts BY <1>0, <2>2, <2>4 DEF DmContexts
  <2>11. DmTypes' BY <1>0, <1>1, <2>6, <2>8, <2>10 DEF DmTypes
  <2>12. ASSUME ~dmFailed'
         PROVE  /\ DmHears(dm', dmAppBox', dmData') /\ DmShows(dm', dmOledBox, dmShown, dmData')
                /\ DmLit(dm', dmLed, dmEarly) /\ DmWaits(dm', dmAppBox', dmDiagBox', dmLed)
    <3>1. dm' = [dm EXCEPT !.sent = n] BY <2>4, <2>12
    <3>2. /\ dm'.booted = dm.booted /\ dm'.ready = dm.ready /\ dm'.hw = dm.hw
          /\ dm'.visible = dm.visible /\ dm'.paused = dm.paused /\ dm'.sent = n
          /\ dm'.seen = dm.seen /\ dm'.column = dm.column /\ dm'.page = dm.page
      BY <1>0, <3>1 DEF DmContexts
    <3>3. DmHears(dm', dmAppBox', dmData') BY <2>1, <2>8, <2>12, <3>2 DEF DmHears, DmUp
    <3>4. DmShows(dm', dmOledBox, dmShown, dmData')
      <4>1. DmScene(dm') = DmScene(dm) BY <3>2 DEF DmScene
      <4>2. PICK x, y : x = dmShown /\ y = DmScene(dm) OBVIOUS
      <4>3. DmUp(dmOledBox, x, y, dmData) => DmUp(dmOledBox, x, y, dmData')
        BY <2>8, DmUpSame
      <4> QED BY <1>2, <3>2, <4>1, <4>2, <4>3 DEF DmShows
    <3>5. DmLit(dm', dmLed, dmEarly) BY <1>2, <3>2 DEF DmLit
    <3>6. PICK s \in 1 .. DmSlots : dmAppBox' = Append(dmAppBox, [kind |-> "LEASE", slot |-> s])
      BY <2>8, <2>12
    <3>7. PICK m : m = [kind |-> "LEASE", slot |-> s] OBVIOUS
    <3>8. m \in S /\ m.kind # "BOOT" /\ m.kind # "READY"
      <4>1. m \in DmLeases BY <3>7 DEF DmLeases
      <4> QED BY <2>7, <3>7, <4>1
    <3>9. PICK a, b, hw : a = dmAppBox /\ b = dmAppBox' /\ hw = dm.hw OBVIOUS
    <3>10. a \in Seq(S) /\ b = Append(a, m) /\ DmOrdered(a, hw)
      BY <1>0, <1>2, <2>6, <3>6, <3>7, <3>9 DEF DmWaits
    <3>11. DmOrdered(b, hw) /\ (DmHasBoot(b) => DmHasBoot(a))
      BY <3>8, <3>10, DmOrderPushed
    <3>12. DmWaits(dm', dmAppBox', dmDiagBox', dmLed)
      BY <1>2, <1>3, <3>2, <3>9, <3>11 DEF DmWaits
    <3> QED BY <3>3, <3>4, <3>5, <3>12
  <2> QED BY <1>1, <2>8, <2>9, <2>11, <2>12 DEF DmInv
<1> QED BY <1>4, <1>5, <1>6 DEF DmDiag

\* The display actor takes a scene.
LEMMA DmOledKeeps == ASSUME DmInv, DmOled PROVE DmInv'
<1>0. /\ dm \in DmContexts /\ dmAppBox \in Seq(DmAppMessages) /\ dmOledBox \in Seq(DmLeases)
      /\ dmData \in [1 .. DmSlots -> DmContents] /\ dmLed \in BOOLEAN /\ dmEarly \in BOOLEAN
      /\ DmOwned(dmAppBox, dmOledBox, dmRefs)
      /\ \A s \in DmSlotsIn(dmAppBox) : dmData[s] \in DmSnapshots
      /\ ~dmFailed /\ dmFailed \in BOOLEAN
  BY DEF DmInv, DmTypes, DmOled
<1>1. PICK o, p, m : o = dmOledBox /\ p = dmOledBox' /\ m = Head(dmOledBox) OBVIOUS
<1>2. /\ o \in Seq(DmLeases) /\ o # << >> /\ m = Head(o) /\ p = Tail(o)
      /\ dmShown' = dmData[m.slot] /\ dmRefs' = [dmRefs EXCEPT ![m.slot] = @ - 1]
      /\ UNCHANGED <<dm, dmAppBox, dmDiagBox, dmData, dmLed, dmEarly, dmFailed>>
  BY <1>0, <1>1 DEF DmOled
<1>3. DmTaken(p, o, m) BY <1>2 DEF DmTaken
<1>4. /\ p \in Seq(DmLeases) /\ m \in DmLeases
      /\ \A s : DmLatest(p, s) => DmLatest(o, s)
      /\ m.kind = "LEASE" => (DmSlotsIn(p) = {} => DmLatest(o, m.slot))
  <2>1. /\ p \in Seq(DmLeases) /\ m \in DmLeases
        /\ DmDistinct(o) => DmDistinct(p)
        /\ \A s : DmLatest(p, s) => DmLatest(o, s)
        /\ m.kind # "LEASE" => DmSlotsIn(p) = DmSlotsIn(o)
        /\ m.kind = "LEASE" =>
             /\ m.slot \in DmSlotsIn(o)
             /\ DmDistinct(o) => DmSlotsIn(p) = DmSlotsIn(o) \ {m.slot}
             /\ DmSlotsIn(p) = {} => DmLatest(o, m.slot)
    BY <1>2, <1>3, DmPulled
  <2> QED BY <2>1
<1>5. m.kind = "LEASE" BY <1>4 DEF DmLeases
<1>6. DmOwned(dmAppBox, p, dmRefs')
  <2>1. PICK a, r, r2 : a = dmAppBox /\ r = dmRefs /\ r2 = dmRefs' OBVIOUS
  <2>2. DmOwned(o, a, r) BY <1>0, <1>1, <2>1, DmOwnedBoth
  <2>3. r2 = [r EXCEPT ![m.slot] = @ - 1] BY <1>2, <2>1
  <2>4. DmOwned(p, a, r2) BY <1>2, <1>3, <1>5, <2>2, <2>3, DmOwnedTaken
  <2> QED BY <2>1, <2>4, DmOwnedBoth
<1>7. DmTypes' BY <1>0, <1>1, <1>2, <1>4 DEF DmTypes
<1>8. /\ DmHears(dm, dmAppBox, dmData) /\ DmShows(dm, o, dmShown, dmData)
      /\ DmLit(dm, dmLed, dmEarly) /\ DmWaits(dm, dmAppBox, dmDiagBox, dmLed)
  BY <1>0, <1>1 DEF DmInv
<1>9. DmShows(dm, p, dmData[m.slot], dmData)
  <2> SUFFICES ASSUME dm.visible
               PROVE  dm.ready /\ "OLED" \in dm.hw /\ DmUp(p, dmData[m.slot], DmScene(dm), dmData)
    BY DEF DmShows
  <2>1. dm.ready /\ "OLED" \in dm.hw /\ DmUp(o, dmShown, DmScene(dm), dmData)
    BY <1>8 DEF DmShows
  <2>2. \A s : DmLatest(o, s) => dmData[s] = DmScene(dm) BY <2>1 DEF DmUp
  <2>3. DmUp(p, dmData[m.slot], DmScene(dm), dmData) BY <1>4, <1>5, <2>2 DEF DmUp
  <2> QED BY <2>1, <2>3
<1> QED BY <1>0, <1>1, <1>2, <1>6, <1>7, <1>8, <1>9 DEF DmInv

\* An axis stays on the display.
LEMMA DmStepIs ==
  ASSUME NEW max \in Nat, NEW axis \in DmAxes(max), NEW next, next = DmStep(axis, max)
  PROVE  next \in DmAxes(max)
<1>1. axis.at \in 0 .. max /\ axis.up \in BOOLEAN BY DEF DmAxes
<1>2. CASE max = 0
  <2>1. next = DmAxis BY <1>2 DEF DmStep
  <2>2. 0 \in 0 .. max OBVIOUS
  <2> QED BY <2>1, <2>2 DEF DmAxis, DmAxes
<1>3. CASE max > 0 /\ axis.up /\ axis.at < max
  <2>0. max # 0 BY <1>3
  <2>1. next = [axis EXCEPT !.at = @ + 1] BY <1>1, <1>3, <2>0 DEF DmStep
  <2>2. axis.at + 1 \in 0 .. max BY <1>1, <1>3
  <2> QED BY <2>1, <2>2 DEF DmAxes
<1>4. CASE max > 0 /\ axis.up /\ axis.at >= max
  <2>1. ~(axis.at < max) /\ max # 0 BY <1>1, <1>4
  <2>2. next = [at |-> axis.at - 1, up |-> FALSE] BY <1>4, <2>1 DEF DmStep
  <2>3. axis.at - 1 \in 0 .. max BY <1>1, <1>4
  <2> QED BY <2>2, <2>3 DEF DmAxes
<1>5. CASE max > 0 /\ ~axis.up /\ axis.at = 0
  <2>1. max # 0 BY <1>5
  <2>2. next = [at |-> 1, up |-> TRUE] BY <1>5, <2>1 DEF DmStep
  <2>3. 1 \in 0 .. max BY <1>5
  <2> QED BY <2>2, <2>3 DEF DmAxes
<1>6. CASE max > 0 /\ ~axis.up /\ axis.at # 0
  <2>1. max # 0 BY <1>6
  <2>2. next = [axis EXCEPT !.at = @ - 1] BY <1>6, <2>1 DEF DmStep
  <2>3. axis.at - 1 \in 0 .. max BY <1>1, <1>6
  <2> QED BY <2>2, <2>3 DEF DmAxes
<1>7. max = 0 \/ max > 0 OBVIOUS
<1>8. axis.at < max \/ axis.at >= max BY <1>1
<1> QED BY <1>2, <1>3, <1>4, <1>5, <1>6, <1>7, <1>8

\* ev_demo_app_render_oled_frame with the actor in a state where a block that is
\* visible was announced a display.
LEMMA DmRenderKeeps ==
  ASSUME NEW a, NEW state \in DmContexts, DmRender(state),
         DmOwned(a, dmOledBox, dmRefs), dmOledBox \in Seq(DmLeases),
         dmData \in [1 .. DmSlots -> DmContents], dmFailed = FALSE,
         \A s \in DmSlotsIn(a) : dmData[s] \in DmSnapshots,
         state.visible => state.ready /\ "OLED" \in state.hw,
         DmHears(state, a, dmData)
  PROVE  /\ dm' \in DmContexts /\ dmOledBox' \in Seq(DmLeases)
         /\ dmData' \in [1 .. DmSlots -> DmContents] /\ dmFailed' \in BOOLEAN
         /\ DmOwned(a, dmOledBox', dmRefs')
         /\ \A s \in DmSlotsIn(a) : dmData'[s] \in DmSnapshots
         /\ dm'.booted = state.booted /\ dm'.ready = state.ready /\ dm'.hw = state.hw
         /\ dm'.paused = state.paused
         /\ ~dmFailed' => /\ DmHears(dm', a, dmData')
                          /\ DmShows(dm', dmOledBox', dmShown, dmData')
<1>1. CASE ~(state.ready /\ "OLED" \in state.hw)
  <2>1. /\ dm' = state /\ dmOledBox' = dmOledBox /\ dmRefs' = dmRefs /\ dmData' = dmData
        /\ dmFailed' = dmFailed
    BY <1>1 DEF DmRender, dmPool
  <2>2. ~state.visible BY <1>1
  <2>3. DmShows(dm', dmOledBox', dmShown, dmData') BY <2>1, <2>2 DEF DmShows
  <2> QED BY <2>1, <2>3
<1>2. CASE state.ready /\ "OLED" \in state.hw
  <2>1. dm' = [state EXCEPT !.visible = TRUE] /\ DmPublish(dmOledBox, DmScene(state))
    BY <1>2 DEF DmRender
  <2>2. PICK content : content = DmScene(state) OBVIOUS
  <2>3. content \in DmContents
    <3>1. state.column.at \in 0 .. DmColumns /\ state.page.at \in 0 .. DmPages
      BY DmFields DEF DmAxes
    <3> QED BY <2>2, <3>1 DEF DmScene, DmContents, DmScenes
  <2>4. DmPublish(dmOledBox, content) BY <2>1, <2>2 DEF DmPublish, DmLease
  <2>5. DmPublished(dmOledBox, dmOledBox', dmRefs, dmRefs', dmData, dmData', dmFailed', content)
    <3>1. dmRefs \in [1 .. DmSlots -> 0 .. 1] BY DEF DmOwned
    <3> QED BY <2>4, <3>1, DmPublishOled
  <2>6. PICK S, C : S = DmLeases /\ C = DmContents OBVIOUS
  <2>7. PICK o, o2, x, x2, y, y2, f :
          /\ o = dmOledBox /\ o2 = dmOledBox' /\ x = dmRefs /\ x2 = dmRefs'
          /\ y = dmData /\ y2 = dmData' /\ f = dmFailed'
    OBVIOUS
  <2>8. /\ o \in Seq(S) /\ y \in [1 .. DmSlots -> C] /\ content \in C /\ DmLeases \subseteq S
        /\ DmPublished(o, o2, x, x2, y, y2, f, content)
    BY <2>3, <2>5, <2>6, <2>7
  <2>9. DmOwned(a, o, x) BY <2>7
  <2>10. DmOwned(o, a, x) BY <2>9, DmOwnedBoth
  <2>11. DmOwned(o2, a, x2) /\ DmPublishedWell(S, C, o, o2, a, y, y2, f, content)
    BY <2>8, <2>10, DmOwnedPublished
  <2>12. DmOwned(a, o2, x2) BY <2>11, DmOwnedBoth
  <2>13. /\ o2 \in Seq(S) /\ y2 \in [1 .. DmSlots -> C] /\ f \in BOOLEAN
         /\ \A s \in DmSlotsIn(a) : y2[s] = y[s]
         /\ ~f => DmSlotsIn(o2) # {} /\ \A s : DmLatest(o2, s) => y2[s] = content
    BY <2>11 DEF DmPublishedWell
  <2>14. dm' \in DmContexts BY <2>1 DEF DmContexts
  <2>15. /\ dm'.booted = state.booted /\ dm'.ready = state.ready /\ dm'.hw = state.hw
         /\ dm'.paused = state.paused /\ dm'.sent = state.sent /\ dm'.seen = state.seen
         /\ dm'.column = state.column /\ dm'.page = state.page
    BY <2>1 DEF DmContexts
  <2>16. \A s \in DmSlotsIn(a) : dmData'[s] \in DmSnapshots BY <2>7, <2>13
  <2>17. DmHears(dm', a, dmData')
    <3>1. PICK v, w : v = [seq |-> state.seen] /\ w = [seq |-> state.sent] OBVIOUS
    <3>2. DmUp(a, v, w, y) BY <2>7, <3>1 DEF DmHears
    <3>3. DmUp(a, v, w, y2) BY <2>13, <3>2, DmUpSame
    <3> QED BY <2>7, <2>15, <3>1, <3>3 DEF DmHears
  <2>18. ASSUME ~dmFailed' PROVE DmShows(dm', dmOledBox', dmShown, dmData')
    <3>1. DmScene(dm') = content BY <2>2, <2>15 DEF DmScene
    <3>2. DmUp(o2, dmShown, content, y2) BY <2>7, <2>13, <2>18 DEF DmUp
    <3> QED BY <1>2, <2>7, <2>15, <3>1, <3>2 DEF DmShows
  <2> QED BY <2>6, <2>7, <2>12, <2>13, <2>14, <2>15, <2>16, <2>17, <2>18
<1> QED BY <1>1, <1>2

\* The application's actor took a message m and its box is a.
DmTook(a, m) ==
  /\ ~dmFailed /\ dmFailed \in BOOLEAN /\ dm \in DmContexts
  /\ a \in Seq(DmAppMessages) /\ dmOledBox \in Seq(DmLeases)
  /\ dmData \in [1 .. DmSlots -> DmContents] /\ dmLed \in BOOLEAN /\ dmEarly \in BOOLEAN
  /\ m \in DmAppMessages /\ dm.booted
  /\ DmShows(dm, dmOledBox, dmShown, dmData) /\ DmLit(dm, dmLed, dmEarly)
  /\ DmOrdered(a, dm.hw) /\ DmOrdered(a, {}) /\ ~DmHasBoot(a)
  /\ m.kind = "BOOT" => ~dm.visible /\ ~dm.paused /\ ~dmLed
  /\ m.kind = "READY" => dm.hw \subseteq m.hw /\ DmOrdered(a, m.hw)
  /\ \A s \in DmSlotsIn(a) : dmData[s] \in DmSnapshots
  /\ m.kind # "LEASE" => DmOwned(a, dmOledBox, dmRefs) /\ DmHears(dm, a, dmData)

\* A message is taken from the application's box.
LEMMA DmTakes ==
  ASSUME DmInv, ~dmFailed, dmAppBox # << >>, dmAppBox' = Tail(dmAppBox),
         NEW m, m = Head(dmAppBox)
  PROVE  DmTook(dmAppBox', m)
<1>1. PICK a, b, hw : a = dmAppBox /\ b = dmAppBox' /\ hw = dm.hw OBVIOUS
<1>2. a \in Seq(DmAppMessages) /\ DmTaken(b, a, m) BY <1>1 DEF DmInv, DmTypes, DmTaken
<1>3. /\ DmHears(dm, a, dmData) /\ DmShows(dm, dmOledBox, dmShown, dmData)
      /\ DmLit(dm, dmLed, dmEarly) /\ DmWaits(dm, a, dmDiagBox, dmLed)
  BY <1>1 DEF DmInv
<1>4. DmOrdered(a, hw) BY <1>1, <1>3 DEF DmWaits
<1>5. /\ DmOrdered(b, hw) /\ DmOrdered(b, {}) /\ ~DmHasBoot(b)
      /\ m.kind = "BOOT" => DmHasBoot(a)
      /\ m.kind = "READY" => hw \subseteq m.hw /\ DmOrdered(b, m.hw)
  BY <1>2, <1>4, DmOrderPulled
<1>6. /\ b \in Seq(DmAppMessages) /\ m \in DmAppMessages
      /\ DmDistinct(a) => DmDistinct(b)
      /\ \A s : DmLatest(b, s) => DmLatest(a, s)
      /\ m.kind # "LEASE" => DmSlotsIn(b) = DmSlotsIn(a)
      /\ m.kind = "LEASE" =>
           /\ m.slot \in DmSlotsIn(a)
           /\ DmDistinct(a) => DmSlotsIn(b) = DmSlotsIn(a) \ {m.slot}
           /\ DmSlotsIn(b) = {} => DmLatest(a, m.slot)
  BY <1>2, DmPulled
<1>7. DmOwned(a, dmOledBox, dmRefs) /\ DmDistinct(a) BY <1>1 DEF DmInv, DmOwned
<1>8. DmSlotsIn(b) \subseteq DmSlotsIn(a) BY <1>6, <1>7
<1>9. \A s \in DmSlotsIn(b) : dmData[s] \in DmSnapshots BY <1>1, <1>8 DEF DmInv
<1>10. dm.booted
  <2>1. a # << >> BY <1>1
  <2> QED BY <1>3, <2>1 DEF DmWaits
<1>11. m.kind = "BOOT" => ~dm.visible /\ ~dm.paused /\ ~dmLed BY <1>3, <1>5 DEF DmWaits
<1>12. ASSUME m.kind # "LEASE" PROVE DmOwned(b, dmOledBox, dmRefs) /\ DmHears(dm, b, dmData)
  <2>1. DmSlotsIn(b) = DmSlotsIn(a) /\ DmDistinct(b) BY <1>6, <1>7, <1>12
  <2>2. DmOwned(b, dmOledBox, dmRefs) BY <1>7, <2>1, DmOwnedSame
  <2>3. DmHears(dm, b, dmData) BY <1>3, <1>6, <2>1 DEF DmHears, DmUp
  <2> QED BY <2>2, <2>3
<1>13. /\ dmFailed \in BOOLEAN /\ dm \in DmContexts /\ dmOledBox \in Seq(DmLeases)
       /\ dmData \in [1 .. DmSlots -> DmContents] /\ dmLed \in BOOLEAN /\ dmEarly \in BOOLEAN
  BY DEF DmInv, DmTypes
<1>14. DmTook(b, m)
  BY <1>1, <1>3, <1>5, <1>6, <1>9, <1>10, <1>11, <1>12, <1>13 DEF DmTook
<1> QED BY <1>1, <1>14

\* The parts of the invariant after the application's step.
LEMMA DmAppDone ==
  ASSUME dm' \in DmContexts, dmAppBox' \in Seq(DmAppMessages), dmOledBox' \in Seq(DmLeases),
         dmData' \in [1 .. DmSlots -> DmContents],
         dmLed' \in BOOLEAN, dmEarly' \in BOOLEAN, dmFailed' \in BOOLEAN,
         DmOwned(dmAppBox', dmOledBox', dmRefs'),
         \A s \in DmSlotsIn(dmAppBox') : dmData'[s] \in DmSnapshots,
         dm'.booted, ~DmHasBoot(dmAppBox'),
         ~dmFailed' => /\ DmHears(dm', dmAppBox', dmData')
                       /\ DmShows(dm', dmOledBox', dmShown', dmData')
                       /\ DmLit(dm', dmLed', dmEarly')
                       /\ DmOrdered(dmAppBox', dm'.hw)
  PROVE  DmInv'
<1>1. ~dmFailed' => DmWaits(dm', dmAppBox', dmDiagBox', dmLed') BY DEF DmWaits
<1>2. DmTypes' BY DEF DmTypes
<1> QED BY <1>1, <1>2 DEF DmInv

\* EV_BOOT_COMPLETED
LEMMA DmAppBootKeeps ==
  ASSUME NEW m, m.kind = "BOOT", DmTook(dmAppBox', m), DmAppBoot, dmShown' = dmShown
  PROVE  DmInv'
<1>0. DmOwned(dmAppBox', dmOledBox, dmRefs) /\ DmHears(dm, dmAppBox', dmData)
  BY DEF DmTook
<1>1. /\ dm' = [DmFresh EXCEPT !.booted = dm.booted, !.sent = dm.sent, !.seen = dm.seen]
      /\ UNCHANGED <<dmOledBox, dmRefs, dmData, dmLed, dmEarly, dmFailed>>
  BY DEF DmAppBoot, dmPool
<1>2. dm \in DmContexts /\ dm.booted /\ ~dm.paused /\ ~dmLed BY DEF DmTook
<1>3. /\ dm'.booted = dm.booted /\ dm'.sent = dm.sent /\ dm'.seen = dm.seen
      /\ dm'.ready = FALSE /\ dm'.hw = {} /\ dm'.visible = FALSE /\ dm'.paused = FALSE
  BY <1>1 DEF DmFresh
<1>4. dm' \in DmContexts
  <2>1. DmAxis \in DmAxes(DmColumns) /\ DmAxis \in DmAxes(DmPages)
    <3>1. 0 \in 0 .. DmColumns /\ 0 \in 0 .. DmPages BY DmSizes
    <3> QED BY <3>1 DEF DmAxis, DmAxes
  <2>2. dm.booted \in BOOLEAN /\ dm.sent \in 0 .. DmMod - 1 /\ dm.seen \in 0 .. DmMod - 1
    BY <1>2, DmFields
  <2>3. dm' = [booted |-> dm.booted, ready |-> FALSE, hw |-> {}, column |-> DmAxis,
               page |-> DmAxis, visible |-> FALSE, paused |-> FALSE, sent |-> dm.sent,
               seen |-> dm.seen]
    BY <1>1 DEF DmFresh
  <2> QED BY <2>1, <2>2, <2>3 DEF DmContexts
<1>5. DmHears(dm', dmAppBox', dmData) BY <1>0, <1>3 DEF DmHears
<1>6. DmShows(dm', dmOledBox, dmShown, dmData) BY <1>3 DEF DmShows
<1>7. DmLit(dm', dmLed, dmEarly)
  <2>1. dmLed = FALSE BY <1>2 DEF DmTook
  <2> QED BY <1>3, <2>1 DEF DmLit
<1>8. DmOrdered(dmAppBox', dm'.hw) BY <1>3 DEF DmTook
<1>9. /\ dmAppBox' \in Seq(DmAppMessages) /\ dmOledBox \in Seq(DmLeases)
      /\ dmData \in [1 .. DmSlots -> DmContents] /\ dmFailed \in BOOLEAN
      /\ dmLed \in BOOLEAN /\ dmEarly \in BOOLEAN /\ ~DmHasBoot(dmAppBox')
      /\ \A s \in DmSlotsIn(dmAppBox') : dmData[s] \in DmSnapshots
  BY DEF DmTook
<1> QED BY <1>0, <1>1, <1>2, <1>3, <1>4, <1>5, <1>6, <1>7, <1>8, <1>9, DmAppDone

\* EV_TICK_1S
LEMMA DmAppTickKeeps ==
  ASSUME NEW m, m.kind = "TICK", DmTook(dmAppBox', m), DmAppTick, dmShown' = dmShown
  PROVE  DmInv'
<1>0. /\ dm \in DmContexts /\ dm.booted /\ DmOwned(dmAppBox', dmOledBox, dmRefs)
      /\ DmHears(dm, dmAppBox', dmData)
      /\ DmShows(dm, dmOledBox, dmShown, dmData) /\ DmLit(dm, dmLed, dmEarly)
      /\ DmOrdered(dmAppBox', dm.hw)
  BY DEF DmTook
<1>1. /\ dmAppBox' \in Seq(DmAppMessages) /\ dmOledBox \in Seq(DmLeases)
      /\ dmData \in [1 .. DmSlots -> DmContents] /\ dmFailed \in BOOLEAN /\ ~dmFailed
      /\ dmLed \in BOOLEAN /\ dmEarly \in BOOLEAN /\ ~DmHasBoot(dmAppBox')
      /\ \A s \in DmSlotsIn(dmAppBox') : dmData[s] \in DmSnapshots
  BY DEF DmTook
<1>2. dmLed' = dmLed /\ dmEarly' = dmEarly BY DEF DmAppTick
<1>3. CASE ~dm.ready
  <2>1. dm' = dm /\ UNCHANGED <<dmOledBox, dmRefs, dmData, dmFailed>>
    BY <1>3 DEF DmAppTick, dmPool
  <2> QED BY <1>0, <1>1, <1>2, <2>1, DmAppDone
<1>4. CASE dm.ready
  <2>1. PICK c, p : c = DmStep(dm.column, DmColumns) /\ p = DmStep(dm.page, DmPages) OBVIOUS
  <2>2. c \in DmAxes(DmColumns) /\ p \in DmAxes(DmPages)
    <3>1. dm.column \in DmAxes(DmColumns) /\ dm.page \in DmAxes(DmPages)
      BY <1>0, DmFields
    <3> QED BY <2>1, <3>1, DmSizes, DmStepIs
  <2>3. PICK state : state = IF dm.paused THEN dm ELSE [dm EXCEPT !.column = c, !.page = p]
    OBVIOUS
  <2>4. state \in DmContexts BY <1>0, <2>2, <2>3 DEF DmContexts
  <2>5. /\ state.booted = dm.booted /\ state.ready = dm.ready /\ state.hw = dm.hw
        /\ state.paused = dm.paused /\ state.visible = dm.visible
        /\ state.sent = dm.sent /\ state.seen = dm.seen
    BY <1>0, <2>3 DEF DmContexts
  <2>6. DmRender(state)
    <3>1. DmRender(IF dm.paused THEN dm
                   ELSE [dm EXCEPT !.column = DmStep(@, DmColumns), !.page = DmStep(@, DmPages)])
      BY <1>4 DEF DmAppTick
    <3>2. state = (IF dm.paused THEN dm
                   ELSE [dm EXCEPT !.column = DmStep(@, DmColumns), !.page = DmStep(@, DmPages)])
      BY <1>0, <2>1, <2>3 DEF DmContexts
    <3> QED BY <3>1, <3>2 DEF DmRender, DmPublish, DmLease
  <2>7. DmHears(state, dmAppBox', dmData) BY <1>0, <2>5 DEF DmHears
  <2>8. state.visible => state.ready /\ "OLED" \in state.hw BY <1>0, <2>5 DEF DmShows
  <2>9. PICK a : a = dmAppBox' OBVIOUS
  <2>10. /\ DmOwned(a, dmOledBox, dmRefs) /\ DmHears(state, a, dmData) /\ dmFailed = FALSE
         /\ \A s \in DmSlotsIn(a) : dmData[s] \in DmSnapshots
    BY <1>0, <1>1, <2>7, <2>9
  <2>11. /\ dm' \in DmContexts /\ dmOledBox' \in Seq(DmLeases)
         /\ dmData' \in [1 .. DmSlots -> DmContents] /\ dmFailed' \in BOOLEAN
         /\ DmOwned(a, dmOledBox', dmRefs')
         /\ \A s \in DmSlotsIn(a) : dmData'[s] \in DmSnapshots
         /\ dm'.booted = state.booted /\ dm'.ready = state.ready /\ dm'.hw = state.hw
         /\ dm'.paused = state.paused
         /\ ~dmFailed' => /\ DmHears(dm', a, dmData')
                          /\ DmShows(dm', dmOledBox', dmShown, dmData')
    BY <1>1, <2>4, <2>6, <2>8, <2>10, DmRenderKeeps
  <2>12. DmLit(dm', dmLed, dmEarly) BY <1>0, <2>5, <2>11 DEF DmLit
  <2>13. DmOrdered(dmAppBox', dm'.hw) /\ dm'.booted BY <1>0, <2>5, <2>11
  <2> QED BY <1>1, <1>2, <2>9, <2>11, <2>12, <2>13, DmAppDone
<1> QED BY <1>3, <1>4

\* EV_SYSTEM_READY
LEMMA DmAppReadyKeeps ==
  ASSUME NEW m, m.kind = "READY", DmTook(dmAppBox', m), DmAppReady(m.hw), dmShown' = dmShown
  PROVE  DmInv'
<1>0. /\ dm \in DmContexts /\ dm.booted /\ DmOwned(dmAppBox', dmOledBox, dmRefs)
      /\ DmHears(dm, dmAppBox', dmData)
      /\ DmShows(dm, dmOledBox, dmShown, dmData) /\ DmLit(dm, dmLed, dmEarly)
      /\ DmOrdered(dmAppBox', m.hw) /\ dm.hw \subseteq m.hw /\ m.hw \in DmMasks
  BY DmKinds DEF DmTook
<1>1. /\ dmAppBox' \in Seq(DmAppMessages) /\ dmOledBox \in Seq(DmLeases)
      /\ dmData \in [1 .. DmSlots -> DmContents] /\ dmFailed \in BOOLEAN /\ ~dmFailed
      /\ dmLed \in BOOLEAN /\ dmEarly \in BOOLEAN /\ ~DmHasBoot(dmAppBox')
      /\ \A s \in DmSlotsIn(dmAppBox') : dmData[s] \in DmSnapshots
  BY DEF DmTook
<1>2. PICK state : state = [dm EXCEPT !.ready = TRUE, !.hw = m.hw] OBVIOUS
<1>3. state \in DmContexts BY <1>0, <1>2 DEF DmContexts
<1>4. /\ state.booted = dm.booted /\ state.ready = TRUE /\ state.hw = m.hw
      /\ state.paused = dm.paused /\ state.visible = dm.visible
      /\ state.sent = dm.sent /\ state.seen = dm.seen
  BY <1>0, <1>2 DEF DmContexts
<1>5. PICK leds : leds = (~dm.ready /\ "MCP23008" \in m.hw) OBVIOUS
<1>6. \/ /\ dm' = state /\ dmFailed' = TRUE
         /\ UNCHANGED <<dmOledBox, dmPool, dmEarly>>
         /\ dmLed' = dmLed \/ dmLed' = (dmLed /\ ~leds)
      \/ /\ dmLed' = (dmLed /\ ~leds) /\ DmRender(state) /\ dmEarly' = dmEarly
  <2>1. PICK s2 : s2 = [dm EXCEPT !.ready = TRUE, !.hw = m.hw] OBVIOUS
  <2>2. s2 = state BY <1>2, <2>1
  <2>3. \/ /\ dm' = s2 /\ dmFailed' = TRUE
           /\ UNCHANGED <<dmOledBox, dmPool, dmEarly>>
           /\ dmLed' = dmLed \/ dmLed' = (dmLed /\ ~leds)
        \/ /\ dmLed' = (dmLed /\ ~leds)
           /\ DmRender([dm EXCEPT !.ready = TRUE, !.hw = m.hw]) /\ dmEarly' = dmEarly
    BY <1>5, <2>1, Zenon DEF DmAppReady
  <2>4. DmRender([dm EXCEPT !.ready = TRUE, !.hw = m.hw]) => DmRender(state)
    BY <1>2 DEF DmRender, DmPublish, DmLease
  <2> QED BY <2>2, <2>3, <2>4
<1>7. dmLed' \in BOOLEAN /\ dmEarly' = dmEarly
  <2>1. dmLed' = dmLed \/ dmLed' = (dmLed /\ ~leds) BY <1>6
  <2>2. (dmLed /\ ~leds) \in BOOLEAN OBVIOUS
  <2> QED BY <1>1, <1>6, <2>1, <2>2
<1>8. CASE /\ dm' = state /\ dmFailed' = TRUE
           /\ UNCHANGED <<dmOledBox, dmPool, dmEarly>>
  <2>1. dmRefs' = dmRefs /\ dmData' = dmData /\ dmOledBox' = dmOledBox
    BY <1>8 DEF dmPool
  <2> QED BY <1>0, <1>1, <1>3, <1>4, <1>7, <1>8, <2>1, DmAppDone
<1>9. CASE dmLed' = (dmLed /\ ~leds) /\ DmRender(state) /\ dmEarly' = dmEarly
  <2>1. DmHears(state, dmAppBox', dmData) BY <1>0, <1>4 DEF DmHears
  <2>2. state.visible => state.ready /\ "OLED" \in state.hw BY <1>0, <1>4 DEF DmShows
  <2>3. PICK a : a = dmAppBox' OBVIOUS
  <2>4. /\ DmOwned(a, dmOledBox, dmRefs) /\ DmHears(state, a, dmData) /\ dmFailed = FALSE
        /\ \A s \in DmSlotsIn(a) : dmData[s] \in DmSnapshots
    BY <1>0, <1>1, <2>1, <2>3
  <2>5. /\ dm' \in DmContexts /\ dmOledBox' \in Seq(DmLeases)
        /\ dmData' \in [1 .. DmSlots -> DmContents] /\ dmFailed' \in BOOLEAN
        /\ DmOwned(a, dmOledBox', dmRefs')
        /\ \A s \in DmSlotsIn(a) : dmData'[s] \in DmSnapshots
        /\ dm'.booted = state.booted /\ dm'.ready = state.ready /\ dm'.hw = state.hw
        /\ dm'.paused = state.paused
        /\ ~dmFailed' => /\ DmHears(dm', a, dmData')
                         /\ DmShows(dm', dmOledBox', dmShown, dmData')
    BY <1>1, <1>3, <1>9, <2>2, <2>4, DmRenderKeeps
  <2>6. DmLit(dm', dmLed', dmEarly)
    <3>1. dm'.ready = TRUE /\ dm'.paused = dm.paused BY <1>4, <2>5
    <3>2. dmLed' = (dmLed /\ ~leds) BY <1>9
    <3>3. leds => ~dm.ready BY <1>5
    <3>4. (dmLed = dm.paused \/ dmEarly) /\ (~dm.ready /\ ~dmEarly => ~dm.paused)
      BY <1>0 DEF DmLit
    <3>5. dm.paused \in BOOLEAN BY <1>0, DmFields
    <3>6. dmLed' = dm.paused \/ dmEarly
      <4>1. CASE dmEarly BY <4>1
      <4>2. CASE ~dmEarly /\ leds
        <5>1. ~dm.paused BY <3>3, <3>4, <4>2
        <5>2. dmLed' = FALSE BY <3>2, <4>2
        <5> QED BY <3>5, <5>1, <5>2
      <4>3. CASE ~dmEarly /\ ~leds
        <5>1. dmLed' = dmLed BY <1>1, <3>2, <4>3
        <5> QED BY <3>4, <4>3, <5>1
      <4> QED BY <4>1, <4>2, <4>3
    <3> QED BY <3>1, <3>6 DEF DmLit
  <2>7. DmOrdered(dmAppBox', dm'.hw) /\ dm'.booted BY <1>0, <1>4, <2>5
  <2> QED BY <1>1, <1>7, <2>3, <2>5, <2>6, <2>7, DmAppDone
<1> QED BY <1>6, <1>8, <1>9

\* EV_BUTTON_EVENT
LEMMA DmAppShortKeeps ==
  ASSUME NEW m, m.kind = "SHORT", DmTook(dmAppBox', m), DmAppShort, dmShown' = dmShown
  PROVE  DmInv'
<1>0. /\ dm \in DmContexts /\ dm.booted /\ DmOwned(dmAppBox', dmOledBox, dmRefs)
      /\ DmHears(dm, dmAppBox', dmData)
      /\ DmShows(dm, dmOledBox, dmShown, dmData)
      /\ DmOrdered(dmAppBox', dm.hw)
  BY DEF DmTook
<1>1. /\ dmAppBox' \in Seq(DmAppMessages) /\ dmOledBox \in Seq(DmLeases)
      /\ dmData \in [1 .. DmSlots -> DmContents] /\ dmFailed \in BOOLEAN
      /\ dmLed \in BOOLEAN /\ ~DmHasBoot(dmAppBox')
      /\ \A s \in DmSlotsIn(dmAppBox') : dmData[s] \in DmSnapshots
  BY DEF DmTook
<1>2. /\ dm' = [dm EXCEPT !.paused = ~@] /\ dmEarly' = ~dm.ready
      /\ UNCHANGED <<dmOledBox, dmRefs, dmData>>
  BY DEF DmAppShort, dmPool
<1>3. PICK b : b = ~dm.paused OBVIOUS
<1>4. b \in BOOLEAN BY <1>3
<1>5. dm' = [dm EXCEPT !.paused = b] BY <1>0, <1>2, <1>3 DEF DmContexts
<1>6. dm' \in DmContexts BY <1>0, <1>4, <1>5 DEF DmContexts
<1>7. /\ dm'.booted = dm.booted /\ dm'.ready = dm.ready /\ dm'.hw = dm.hw
      /\ dm'.visible = dm.visible /\ dm'.paused = b /\ dm'.sent = dm.sent
      /\ dm'.seen = dm.seen /\ dm'.column = dm.column /\ dm'.page = dm.page
  BY <1>0, <1>5 DEF DmContexts
<1>8. \/ dmLed' = b /\ dmFailed' = dmFailed
      \/ dmFailed' = TRUE /\ dmLed' = dmLed
  BY <1>3 DEF DmAppShort
<1>9. dmLed' \in BOOLEAN /\ dmFailed' \in BOOLEAN BY <1>1, <1>4, <1>8
<1>10. (~dm.ready) \in BOOLEAN OBVIOUS
<1>11. dmEarly' \in BOOLEAN BY <1>2, <1>10
<1>12. DmHears(dm', dmAppBox', dmData) BY <1>0, <1>7 DEF DmHears
<1>13. DmShows(dm', dmOledBox, dmShown, dmData)
  <2>1. DmScene(dm') = DmScene(dm) BY <1>7 DEF DmScene
  <2> QED BY <1>0, <1>7, <2>1 DEF DmShows
<1>14. ~dmFailed' => DmLit(dm', dmLed', dmEarly')
  <2>1. ~dmFailed' => dmLed' = dm'.paused BY <1>7, <1>8
  <2>2. ~dm'.ready => dmEarly' BY <1>2, <1>7
  <2> QED BY <2>1, <2>2 DEF DmLit
<1>15. DmOrdered(dmAppBox', dm'.hw) /\ dm'.booted BY <1>0, <1>7
<1> QED BY <1>0, <1>1, <1>2, <1>6, <1>9, <1>11, <1>12, <1>13, <1>14, <1>15, DmAppDone

\* EV_DIAG_SNAPSHOT_RSP
LEMMA DmAppSnapshotKeeps ==
  ASSUME DmInv, ~dmFailed, dmAppBox # << >>, dmAppBox' = Tail(dmAppBox),
         NEW m, m = Head(dmAppBox), m.kind = "LEASE", DmAppSnapshot(m.slot),
         dmShown' = dmShown
  PROVE  DmInv'
<1>0. DmTook(dmAppBox', m) BY DmTakes
<1>1. PICK a, b, r, r2 : a = dmAppBox /\ b = dmAppBox' /\ r = dmRefs /\ r2 = dmRefs' OBVIOUS
<1>2. a \in Seq(DmAppMessages) /\ DmTaken(b, a, m) /\ DmOwned(a, dmOledBox, r)
  BY <1>1 DEF DmInv, DmTypes, DmTaken
<1>3. /\ dm' = [dm EXCEPT !.seen = dmData[m.slot].seq]
      /\ r2 = [r EXCEPT ![m.slot] = @ - 1]
      /\ UNCHANGED <<dmOledBox, dmData, dmLed, dmEarly, dmFailed>>
  BY <1>1 DEF DmAppSnapshot
<1>4. DmOwned(b, dmOledBox, r2) /\ m.slot \in DmSlotsIn(a) BY <1>2, <1>3, DmOwnedTaken
<1>5. DmHears(dm, a, dmData) BY <1>1 DEF DmInv
<1>6. PICK n : n = dmData[m.slot].seq OBVIOUS
<1>7. dmData[m.slot] \in DmSnapshots BY <1>1, <1>4 DEF DmInv
<1>8. n \in 0 .. DmMod - 1 /\ dmData[m.slot] = [seq |-> n] BY <1>6, <1>7 DEF DmSnapshots
<1>9. dm \in DmContexts /\ dm.booted BY <1>0 DEF DmTook
<1>10. dm' \in DmContexts BY <1>3, <1>6, <1>8, <1>9 DEF DmContexts
<1>11. /\ dm'.booted = dm.booted /\ dm'.ready = dm.ready /\ dm'.hw = dm.hw
       /\ dm'.visible = dm.visible /\ dm'.paused = dm.paused /\ dm'.sent = dm.sent
       /\ dm'.seen = n /\ dm'.column = dm.column /\ dm'.page = dm.page
  BY <1>3, <1>6, <1>9 DEF DmContexts
<1>12. DmHears(dm', b, dmData)
  <2>1. /\ \A s : DmLatest(b, s) => DmLatest(a, s)
        /\ DmSlotsIn(b) = {} => DmLatest(a, m.slot)
    <3>1. /\ b \in Seq(DmAppMessages) /\ m \in DmAppMessages
          /\ DmDistinct(a) => DmDistinct(b)
          /\ \A s : DmLatest(b, s) => DmLatest(a, s)
          /\ m.kind # "LEASE" => DmSlotsIn(b) = DmSlotsIn(a)
          /\ m.kind = "LEASE" =>
               /\ m.slot \in DmSlotsIn(a)
               /\ DmDistinct(a) => DmSlotsIn(b) = DmSlotsIn(a) \ {m.slot}
               /\ DmSlotsIn(b) = {} => DmLatest(a, m.slot)
      BY <1>2, DmPulled
    <3> QED BY <3>1
  <2>2. \A s : DmLatest(a, s) => dmData[s] = [seq |-> dm.sent] BY <1>5 DEF DmHears, DmUp
  <2>3. DmSlotsIn(b) = {} => [seq |-> n] = [seq |-> dm.sent] BY <1>8, <2>1, <2>2
  <2>4. \A s : DmLatest(b, s) => dmData[s] = [seq |-> dm.sent] BY <2>1, <2>2
  <2> QED BY <1>11, <2>3, <2>4 DEF DmHears, DmUp
<1>13. DmShows(dm', dmOledBox, dmShown, dmData)
  <2>1. DmScene(dm') = DmScene(dm) BY <1>11 DEF DmScene
  <2> QED BY <1>0, <1>11, <2>1 DEF DmShows, DmTook
<1>14. DmLit(dm', dmLed, dmEarly) BY <1>0, <1>11 DEF DmLit, DmTook
<1>15. DmOrdered(dmAppBox', dm'.hw) /\ dm'.booted BY <1>0, <1>9, <1>11 DEF DmTook
<1>16. /\ dmAppBox' \in Seq(DmAppMessages) /\ dmOledBox \in Seq(DmLeases)
       /\ dmData \in [1 .. DmSlots -> DmContents] /\ dmFailed \in BOOLEAN
       /\ dmLed \in BOOLEAN /\ dmEarly \in BOOLEAN /\ ~DmHasBoot(dmAppBox')
       /\ \A s \in DmSlotsIn(dmAppBox') : dmData[s] \in DmSnapshots
  BY <1>0 DEF DmTook
<1> QED BY <1>1, <1>3, <1>4, <1>10, <1>12, <1>13, <1>14, <1>15, <1>16, DmAppDone

\* ev_demo_app_actor_handle
LEMMA DmAppKeeps == ASSUME DmInv, DmApp PROVE DmInv'
<1>1. PICK m : m = Head(dmAppBox) OBVIOUS
<1>2. /\ ~dmFailed /\ dmAppBox # << >> /\ dmAppBox' = Tail(dmAppBox) /\ dmShown' = dmShown
      /\ \/ m.kind = "BOOT" /\ DmAppBoot
         \/ m.kind = "READY" /\ DmAppReady(m.hw)
         \/ m.kind = "TICK" /\ DmAppTick
         \/ m.kind = "SHORT" /\ DmAppShort
         \/ m.kind = "LEASE" /\ DmAppSnapshot(m.slot)
  <2>1. /\ ~dmFailed /\ dmAppBox # << >> /\ dmAppBox' = Tail(dmAppBox) /\ dmShown' = dmShown
    BY DEF DmApp
  <2>2. \/ Head(dmAppBox).kind = "BOOT" /\ DmAppBoot
        \/ Head(dmAppBox).kind = "READY" /\ DmAppReady(Head(dmAppBox).hw)
        \/ Head(dmAppBox).kind = "TICK" /\ DmAppTick
        \/ Head(dmAppBox).kind = "SHORT" /\ DmAppShort
        \/ Head(dmAppBox).kind = "LEASE" /\ DmAppSnapshot(Head(dmAppBox).slot)
    BY DEF DmApp
  <2>3. DmAppReady(Head(dmAppBox).hw) => DmAppReady(m.hw)
    BY <1>1 DEF DmAppReady, DmRender, DmPublish, DmLease
  <2>4. DmAppSnapshot(Head(dmAppBox).slot) => DmAppSnapshot(m.slot)
    BY <1>1 DEF DmAppSnapshot
  <2> QED BY <1>1, <2>1, <2>2, <2>3, <2>4
<1>3. DmTook(dmAppBox', m) BY <1>1, <1>2, DmTakes
<1>4. CASE m.kind = "BOOT" /\ DmAppBoot BY <1>2, <1>3, <1>4, DmAppBootKeeps
<1>5. CASE m.kind = "READY" /\ DmAppReady(m.hw) BY <1>2, <1>3, <1>5, DmAppReadyKeeps
<1>6. CASE m.kind = "TICK" /\ DmAppTick BY <1>2, <1>3, <1>6, DmAppTickKeeps
<1>7. CASE m.kind = "SHORT" /\ DmAppShort BY <1>2, <1>3, <1>7, DmAppShortKeeps
<1>8. CASE m.kind = "LEASE" /\ DmAppSnapshot(m.slot)
  BY <1>1, <1>2, <1>8, DmAppSnapshotKeeps
<1> QED BY <1>2, <1>4, <1>5, <1>6, <1>7, <1>8

\* Actors, boxes and a pool that were just initialised.
DmNew(d, app, diag, oled1, refs, data) ==
  /\ d = DmFresh /\ app = << >> /\ diag = << >> /\ oled1 = << >>
  /\ refs = [s \in 1 .. DmSlots |-> 0] /\ data = [s \in 1 .. DmSlots |-> DmNothing]

\* They own nothing and wait for nothing.
LEMMA DmNewIs ==
  ASSUME NEW d, NEW app, NEW diag, NEW oled1, NEW refs, NEW data, NEW shown,
         DmNew(d, app, diag, oled1, refs, data)
  PROVE  /\ d \in DmContexts /\ app \in Seq(DmAppMessages) /\ oled1 \in Seq(DmLeases)
         /\ data \in [1 .. DmSlots -> DmContents]
         /\ DmOwned(app, oled1, refs) /\ DmSlotsIn(app) = {}
         /\ DmHears(d, app, data) /\ DmShows(d, oled1, shown, data) /\ DmLit(d, FALSE, FALSE)
         /\ DmWaits(d, app, diag, FALSE)
<1>1. 0 \in 0 .. DmColumns /\ 0 \in 0 .. DmPages /\ 0 \in 0 .. DmMod - 1 BY DmSizes
<1>2. d = [booted |-> FALSE, ready |-> FALSE, hw |-> {}, column |-> DmAxis, page |-> DmAxis,
           visible |-> FALSE, paused |-> FALSE, sent |-> 0, seen |-> 0]
  BY DEF DmNew, DmFresh
<1>3. DmAxis \in DmAxes(DmColumns) /\ DmAxis \in DmAxes(DmPages)
  BY <1>1 DEF DmAxis, DmAxes
<1>4. d \in DmContexts BY <1>1, <1>2, <1>3 DEF DmContexts
<1>5. DmNothing \in DmContents BY <1>1 DEF DmNothing, DmContents, DmScenes
<1>6. data \in [1 .. DmSlots -> DmContents] BY <1>5 DEF DmNew
<1>7. app = << >> /\ oled1 = << >> /\ diag = << >>
  BY DEF DmNew
<1>8. Len(app) = 0 /\ Len(oled1) = 0 /\ 1 .. 0 = {} BY <1>7
<1>9. DmSlotsIn(app) = {} /\ DmSlotsIn(oled1) = {} BY <1>8 DEF DmSlotsIn
<1>10. DmDistinct(app) /\ DmDistinct(oled1) BY <1>8 DEF DmDistinct
<1>11. refs \in [1 .. DmSlots -> 0 .. 1] /\ \A s \in 1 .. DmSlots : refs[s] = 0
  <2>1. 0 \in 0 .. 1 OBVIOUS
  <2> QED BY <2>1 DEF DmNew
<1>12. DmOwned(app, oled1, refs) BY <1>9, <1>10, <1>11 DEF DmOwned
<1>13. \A s : ~DmLatest(app, s) BY <1>8 DEF DmLatest
<1>14. DmHears(d, app, data) BY <1>2, <1>13 DEF DmHears, DmUp
<1>15. DmShows(d, oled1, shown, data) BY <1>2 DEF DmShows
<1>16. DmLit(d, FALSE, FALSE) BY <1>2, <1>7 DEF DmLit
<1>17. DmOrdered(app, d.hw) BY <1>8 DEF DmOrdered
<1>18. DmWaits(d, app, diag, FALSE) BY <1>2, <1>7, <1>17 DEF DmWaits
<1>19. app \in Seq(DmAppMessages) /\ oled1 \in Seq(DmLeases) BY <1>7
<1> QED BY <1>4, <1>6, <1>7, <1>9, <1>12, <1>14, <1>15, <1>16, <1>18, <1>19

\* The demo application keeps its invariant.
LEMMA DmInvHolds == DmInit /\ [][DmNext]_dmVars => []DmInv
<1>1. DmInit => DmInv
  <2> SUFFICES ASSUME DmInit PROVE DmInv OBVIOUS
  <2>1. DmNew(dm, dmAppBox, dmDiagBox, dmOledBox, dmRefs, dmData)
    BY DEF DmInit, DmNew
  <2>2. /\ dm \in DmContexts /\ dmAppBox \in Seq(DmAppMessages) /\ dmOledBox \in Seq(DmLeases)
        /\ dmData \in [1 .. DmSlots -> DmContents]
        /\ DmOwned(dmAppBox, dmOledBox, dmRefs) /\ DmSlotsIn(dmAppBox) = {}
        /\ DmHears(dm, dmAppBox, dmData) /\ DmShows(dm, dmOledBox, dmShown, dmData)
        /\ DmLit(dm, FALSE, FALSE)
        /\ DmWaits(dm, dmAppBox, dmDiagBox, FALSE)
    BY <2>1, DmNewIs
  <2>3. dmFailed = FALSE /\ dmLed = FALSE /\ dmEarly = FALSE BY DEF DmInit
  <2> QED BY <2>2, <2>3 DEF DmInv, DmTypes
<1>2. DmInv /\ [DmNext]_dmVars => DmInv'
  <2> SUFFICES ASSUME DmInv, [DmNext]_dmVars PROVE DmInv' OBVIOUS
  <2>1. CASE UNCHANGED dmVars BY <2>1 DEF dmVars, dmPool, dmWorld, DmInv, DmTypes
  <2>2. CASE DmRestart
    <3>1. DmNew(dm', dmAppBox', dmDiagBox', dmOledBox', dmRefs', dmData')
      BY <2>2 DEF DmRestart, DmNew
    <3>2. /\ dm' \in DmContexts /\ dmAppBox' \in Seq(DmAppMessages)
          /\ dmOledBox' \in Seq(DmLeases)
          /\ dmData' \in [1 .. DmSlots -> DmContents]
          /\ DmOwned(dmAppBox', dmOledBox', dmRefs') /\ DmSlotsIn(dmAppBox') = {}
          /\ DmHears(dm', dmAppBox', dmData') /\ DmShows(dm', dmOledBox', dmShown', dmData')
          /\ DmLit(dm', FALSE, FALSE)
          /\ DmWaits(dm', dmAppBox', dmDiagBox', FALSE)
      BY <3>1, DmNewIs
    <3>3. dmFailed' = FALSE /\ dmLed' = FALSE /\ dmEarly' = FALSE BY <2>2 DEF DmRestart
    <3> QED BY <3>2, <3>3 DEF DmInv, DmTypes
  <2> QED
    BY <2>1, <2>2, DmBootKeeps, DmArrivalsKeep, DmDiagKeeps, DmAppKeeps, DmOledKeeps
    DEF DmNext
<1> QED BY <1>1, <1>2, PTL

\* The demo application is one of the actors.
LEMMA DmRuns == Spec => DmInit /\ [][DmNext]_dmVars
<1>1. Init => DmInit BY DEF Init
<1>2. [Next]_actorsVars => [DmNext]_dmVars BY DEF Next, actorsVars
<1> QED BY <1>1, <1>2, PTL DEF Spec

\* A slot of the demo's pool is in use exactly while one message in one mailbox
\* carries it: for every number of slots and depth of the mailboxes, after the
\* publications that found no slot or no room as well.
THEOREM SlotsNeverLeak == Spec => []SlotsAreQueued
<1>1. DmInv => SlotsAreQueued
  <2> SUFFICES ASSUME DmInv, NEW s \in 1 .. DmSlots
               PROVE  /\ dmRefs[s] = 0 <=> DmCarriers(s) = {}
                      /\ dmRefs[s] <= 1
                      /\ \A c, d \in DmCarriers(s) : c = d
    BY DEF SlotsAreQueued
  <2>1. DmOwned(dmAppBox, dmOledBox, dmRefs) /\ dmOledBox \in Seq(DmLeases)
    BY DEF DmInv, DmTypes
  <2>2. \A i \in 1 .. Len(dmOledBox) : dmOledBox[i].kind = "LEASE"
    <3>1. \A i \in 1 .. Len(dmOledBox) : dmOledBox[i] \in DmLeases BY <2>1
    <3> QED BY <3>1 DEF DmLeases
  <2>3. PICK A, O :
          /\ A = {i \in 1 .. Len(dmAppBox) : dmAppBox[i].kind = "LEASE" /\ dmAppBox[i].slot = s}
          /\ O = {i \in 1 .. Len(dmOledBox) : dmOledBox[i].slot = s}
    OBVIOUS
  <2>4. DmCarriers(s) = {<<"app", i>> : i \in A} \cup {<<"oled", i>> : i \in O}
    BY <2>3 DEF DmCarriers
  <2>5. (s \in DmSlotsIn(dmAppBox) <=> A # {}) /\ (s \in DmSlotsIn(dmOledBox) <=> O # {})
    BY <2>2, <2>3 DEF DmSlotsIn
  <2>6. (\A i, j \in A : i = j) /\ (\A i, j \in O : i = j)
    BY <2>1, <2>2, <2>3 DEF DmOwned, DmDistinct
  <2>7. A = {} \/ O = {}
    <3>1. DmSlotsIn(dmAppBox) \cap DmSlotsIn(dmOledBox) = {} BY <2>1 DEF DmOwned
    <3> QED BY <2>5, <3>1
  <2>8. dmRefs[s] \in 0 .. 1 BY <2>1 DEF DmOwned
  <2>9. dmRefs[s] = 1 <=> (A # {} \/ O # {})
    <3>1. dmRefs[s] = 1 <=> s \in DmSlotsIn(dmAppBox) \cup DmSlotsIn(dmOledBox)
      BY <2>1 DEF DmOwned
    <3> QED BY <2>5, <3>1
  <2>10. DmCarriers(s) = {} <=> (A = {} /\ O = {}) BY <2>4
  <2>11. dmRefs[s] = 0 <=> DmCarriers(s) = {} BY <2>8, <2>9, <2>10
  <2>12. dmRefs[s] <= 1 BY <2>8
  <2>13. ASSUME NEW c \in DmCarriers(s), NEW d \in DmCarriers(s) PROVE c = d
    <3>1. CASE O = {} BY <2>4, <2>6, <3>1
    <3>2. CASE A = {} BY <2>4, <2>6, <3>2
    <3> QED BY <2>7, <3>1, <3>2
  <2> QED BY <2>11, <2>12, <2>13
<1> QED BY <1>1, DmInvHolds, DmRuns, PTL

\* What the user sees follows the actor: the block stays on the display, the
\* display has the actor's place when no scene waits, the LED tells the pause,
\* and the actor has the last snapshot when none waits.  For every size of the
\* display, of the pool, of the mailboxes and of the counter.
THEOREM PanelFollowsActor == Spec => []PanelTellsTruth
<1>1. DmInv => PanelTellsTruth
  <2> SUFFICES ASSUME DmInv, ~dmFailed
               PROVE  /\ dm.column.at <= DmColumns /\ dm.page.at <= DmPages
                      /\ dm.visible /\ dmOledBox = << >> => dmShown = DmScene(dm)
                      /\ dmLed = dm.paused \/ dmEarly
                      /\ (\A i \in 1 .. Len(dmAppBox) : dmAppBox[i].kind # "LEASE")
                           => dm.seen = dm.sent
    BY DEF PanelTellsTruth
  <2>1. /\ dm \in DmContexts
        /\ DmHears(dm, dmAppBox, dmData) /\ DmShows(dm, dmOledBox, dmShown, dmData)
        /\ DmLit(dm, dmLed, dmEarly)
    BY DEF DmInv, DmTypes
  <2>2. dm.column.at <= DmColumns /\ dm.page.at <= DmPages
    <3>1. dm.column \in DmAxes(DmColumns) /\ dm.page \in DmAxes(DmPages)
      BY <2>1, DmFields
    <3>2. dm.column.at \in 0 .. DmColumns /\ dm.page.at \in 0 .. DmPages
      BY <3>1 DEF DmAxes
    <3> QED BY <3>2, DmSizes
  <2>3. ASSUME dm.visible, dmOledBox = << >> PROVE dmShown = DmScene(dm)
    <3>1. DmUp(dmOledBox, dmShown, DmScene(dm), dmData) BY <2>1, <2>3 DEF DmShows
    <3>2. Len(dmOledBox) = 0 /\ 1 .. 0 = {} BY <2>3
    <3>3. DmSlotsIn(dmOledBox) = {} BY <3>2 DEF DmSlotsIn
    <3> QED BY <3>1, <3>3 DEF DmUp
  <2>4. dmLed = dm.paused \/ dmEarly BY <2>1 DEF DmLit
  <2>5. ASSUME \A i \in 1 .. Len(dmAppBox) : dmAppBox[i].kind # "LEASE"
        PROVE  dm.seen = dm.sent
    <3>1. DmSlotsIn(dmAppBox) = {} BY <2>5 DEF DmSlotsIn
    <3>2. [seq |-> dm.seen] = [seq |-> dm.sent] BY <2>1, <3>1 DEF DmHears, DmUp
    <3>3. [seq |-> dm.seen].seq = dm.seen /\ [seq |-> dm.sent].seq = dm.sent OBVIOUS
    <3> QED BY <3>2, <3>3
  <2> QED BY <2>2, <2>3, <2>4, <2>5
<1> QED BY <1>1, DmInvHolds, DmRuns, PTL

=============================================================================
