-------------------------------- MODULE Bh1750 --------------------------------
(***************************************************************************)
(* The BH1750 actor (actors/device/ev_bh1750_actor.c) with its driver      *)
(* (drivers/src/ev_bh1750_driver.c): an optional light sensor that may be  *)
(* missing, come back, or fail in any transaction, and is retried with a   *)
(* delay that doubles up to a limit.                                       *)
(*                                                                         *)
(* Time is counted in ticks of 100 ms.  bhQuiet and bhFailures are history *)
(* for the property.                                                       *)
(***************************************************************************)
EXTENDS Integers

CONSTANTS
  BhWait,        \* ev_bh1750_measurement_wait_ms, in ticks
  BhInitial,     \* EV_BH1750_OPTIONAL_RETRY_INITIAL_MS, in ticks
  BhLimit,       \* EV_BH1750_OPTIONAL_RETRY_MAX_MS, in ticks
  BhCount,       \* bound: failures in a row that are told apart
  BhMod          \* number of values of the actor's clock

ASSUME BhAssumption ==
  /\ {BhWait, BhInitial, BhLimit, BhCount} \subseteq Nat \ {0}
  /\ BhInitial < BhLimit
  /\ BhMod \in Nat /\ 2 * (BhWait + BhLimit) < BhMod

VARIABLES
  bh,            \* ev_bh1750_actor_ctx_t
  bhAnswers,     \* the sensor is on the bus
  bhQuiet,       \* ticks since the bus was last used for it
  bhFailures     \* attempts that failed since the last that succeeded

bhVars == <<bh, bhAnswers, bhQuiet, bhFailures>>

\* ev_bh1750_actor_init
BhFresh == [booted |-> FALSE, failed |-> FALSE, present |-> FALSE, pending |-> FALSE,
            ready |-> FALSE, now |-> 0, deadline |-> 0, backoff |-> 0, retry |-> 0]

BhInit == bh = BhFresh /\ bhAnswers = TRUE /\ bhQuiet = 0 /\ bhFailures = 0

\* (int32_t)(now_ms - deadline_ms) >= 0
BhDeadlineDue(now, deadline) == 2 * ((now - deadline) % BhMod) < BhMod

\* Faulty variant: the delay starts from the beginning every time.
BhNextBackoffConstant(b) == BhInitial

\* ev_bh1750_actor_schedule_optional_retry
BhNextBackoff(b) ==
  CASE b = 0 -> BhInitial
    [] b > 0 /\ b < BhLimit \div 2 -> 2 * b
    [] b > 0 /\ b >= BhLimit \div 2 -> BhLimit

BhScheduleRetry(b) ==
  [b EXCEPT !.backoff = BhNextBackoff(@),
            !.retry = (b.now + BhNextBackoff(b.backoff)) % BhMod]

\* ev_bh1750_actor_optional_retry_due
BhRetryDue(b) == b.backoff = 0 \/ BhDeadlineDue(b.now, b.retry)

\* ev_bh1750_map_i2c_status: a missing device does not acknowledge.
BhResults == IF bhAnswers THEN {"OK", "ERR_STATE"} ELSE {"ERR_NOT_FOUND"}

\* The bus was used for the sensor with this result.
BhUsed(rc) ==
  /\ bhQuiet' = 0
  /\ bhFailures' = 
       IF rc = "OK" THEN 0 ELSE IF bhFailures < BhCount THEN bhFailures + 1 ELSE BhCount

\* ev_bh1750_actor_record_start
BhRecordStart(b, rc) ==
  IF rc = "OK"
    THEN [b EXCEPT !.present = TRUE, !.pending = TRUE,
                   !.deadline = (b.now + BhWait) % BhMod, !.backoff = 0, !.retry = 0]
    ELSE BhScheduleRetry([b EXCEPT !.pending = FALSE,
                                   !.present = @ /\ rc # "ERR_NOT_FOUND"])

\* ev_bh1750_actor_boot powers the sensor on and starts a measurement,
\* ev_bh1750_actor_start_measurement only starts it.  Two transactions when
\* powering on succeeded: the result recorded is that of the last.
BhStart(b) == \E rc \in BhResults : bh' = BhRecordStart(b, rc) /\ BhUsed(rc)

\* ev_bh1750_actor_try_read, when due: READY once and the light are published,
\* and a refusal fails the handler; otherwise the next measurement is started.
BhRead(b) ==
  LET idle == [b EXCEPT !.pending = FALSE]
  IN  \/ \E rc \in BhResults \ {"OK"} :
           /\ bh' = BhScheduleRetry([idle EXCEPT !.present = @ /\ rc # "ERR_NOT_FOUND"])
           /\ BhUsed(rc)
      \/ /\ "OK" \in BhResults
         /\ \/ BhStart([idle EXCEPT !.present = TRUE, !.ready = TRUE])
            \/ /\ bh' = [idle EXCEPT !.present = TRUE, !.failed = TRUE]
               /\ BhUsed("OK")

\* EV_BOOT_COMPLETED, published before the first tick.
BhBoot ==
  /\ ~bh.failed /\ ~bh.booted
  /\ BhStart([bh EXCEPT !.booted = TRUE])
  /\ UNCHANGED bhAnswers

\* ev_bh1750_actor_tick, on EV_TICK_100MS.  EV_TICK_1S is ignored.
BhTick ==
  LET b == [bh EXCEPT !.now = (@ + 1) % BhMod]
  IN  /\ ~bh.failed /\ bh.booted
      /\ IF b.pending /\ BhDeadlineDue(b.now, b.deadline) THEN BhRead(b)
         ELSE IF ~b.pending /\ BhRetryDue(b) THEN BhStart(b)
         ELSE bh' = b /\ bhQuiet' = bhQuiet + 1 /\ UNCHANGED bhFailures
      /\ UNCHANGED bhAnswers

\* The sensor is unplugged or plugged in again.
BhPlug ==
  /\ bhAnswers' = ~bhAnswers
  /\ UNCHANGED <<bh, bhQuiet, bhFailures>>

\* A handler that failed restarts the device.
BhRestart ==
  /\ bh.failed
  /\ bh' = BhFresh /\ bhQuiet' = 0 /\ bhFailures' = 0
  /\ UNCHANGED bhAnswers

BhNext == BhBoot \/ BhTick \/ BhPlug \/ BhRestart

-----------------------------------------------------------------------------

\* The initial delay, doubled k times.
BhDoubled[k \in 0 .. BhCount] == IF k = 0 THEN BhInitial ELSE 2 * BhDoubled[k - 1]

\* README.md:774: a sensor that does not answer is not retried every tick.
\* After k failures in a row, of powering on, starting or reading in any mix,
\* the bus is left alone for BhInitial doubled k - 1 times, up to BhLimit,
\* whatever the actor's wrapping clock says; ev_bh1750_actor.c:80-108.
BackoffIsKept ==
  [][bhFailures > 0 /\ bh'.now # bh.now /\ bh'.booted /\ bhQuiet' = 0 =>
       \/ bhQuiet + 1 >= BhDoubled[bhFailures - 1]
       \/ bhQuiet + 1 >= BhLimit]_bhVars

=============================================================================
