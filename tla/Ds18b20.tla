------------------------------- MODULE Ds18b20 -------------------------------
(***************************************************************************)
(* The DS18B20 actor (actors/device/ev_ds18b20_actor.c) with its driver    *)
(* (drivers/src/ev_ds18b20_driver.c), the sensor on the 1-Wire line, and   *)
(* the 100 ms ticks that wait for the actor.                               *)
(*                                                                         *)
(* The actor has no clock: actor_now_ms grows by 100 with each tick it     *)
(* handles.  The sensor converts in real time.  dsTicks is what lies       *)
(* between the two: a tick is due every DsTick units of time, handled when *)
(* the actor's turn comes, and a late poll handles several in a row.       *)
(***************************************************************************)
EXTENDS Integers

CONSTANTS
  DsTick,       \* length of a tick (100 ms)
  DsWait,       \* ev_ds18b20_conversion_time_ms (750 ms at 12 bits)
  DsMod,        \* number of values of the actor's clock (2^32)
  DsMailbox     \* ticks that can wait (EV_MAILBOX_FIFO_8)

ASSUME DsAssumption ==
  /\ {DsTick, DsWait, DsMailbox} \subseteq Nat \ {0}
  /\ DsMod \in Nat /\ 2 * (DsWait + DsTick) < DsMod

VARIABLES
  ds,           \* ev_ds18b20_actor_ctx_t
  dsSensor,     \* answers on the line; time its conversion still takes
  dsTicks,      \* ticks waiting, and time since the newest of them
  dsSample      \* of the last scratchpad read: how much of the conversion
                \* was missing, how late the actor was when it started it

dsVars == <<ds, dsSensor, dsTicks, dsSample>>

\* By how much the actor's clock is behind.
DsLag == dsTicks.waiting * DsTick + dsTicks.phase

\* ev_ds18b20_actor_init
DsFresh == [booted |-> FALSE, pending |-> FALSE, valid |-> FALSE, failed |-> FALSE,
            now |-> 0, deadline |-> 0, lag |-> 0]

DsInit ==
  /\ ds = DsFresh
  /\ dsSensor = [present |-> TRUE, busy |-> 0]
  /\ dsTicks = [waiting |-> 0, phase |-> 0]
  /\ dsSample = [missing |-> 0, lag |-> 0]

\* (int32_t)(now_ms - deadline_ms) >= 0
DsDeadlineDue(d) == 2 * ((d.now - d.deadline) % DsMod) < DsMod

(***************************************************************************)
(* The line.  A transaction answers OK, finds no device, or fails on the   *)
(* bus; a scratchpad may also arrive with a bad checksum.                  *)
(***************************************************************************)
DsAnswers == IF dsSensor.present THEN {"OK", "ERR_STATE"} ELSE {"ERR_NOT_FOUND"}
DsReads == DsAnswers \cup (IF dsSensor.present THEN {"ERR_CONTRACT"} ELSE {})

\* Faulty variant: the deadline is a tick early.
DsRecordStartShort(d, rc, lag) ==
  IF rc = "OK"
    THEN [d EXCEPT !.pending = TRUE, !.deadline = (d.now + DsWait - DsTick) % DsMod,
                   !.lag = lag]
    ELSE [d EXCEPT !.pending = FALSE]

\* ev_ds18b20_actor_record_start_result: a start that failed is not repeated.
DsRecordStart(d, rc, lag) ==
  IF rc = "OK"
    THEN [d EXCEPT !.pending = TRUE, !.deadline = (d.now + DsWait) % DsMod,
                   !.lag = lag]
    ELSE [d EXCEPT !.pending = FALSE]

\* ev_ds18b20_start_conversion_skip_rom, and its result recorded.
DsStart(d, lag) ==
  \E rc \in DsAnswers :
    /\ ds' = DsRecordStart(d, rc, lag)
    /\ dsSensor' = IF rc = "OK" THEN [dsSensor EXCEPT !.busy = DsWait] ELSE dsSensor

(***************************************************************************)
(* ev_ds18b20_actor_try_read on the context d, at the lag the actor is     *)
(* left with.  READY and the temperature are published, and a refusal      *)
(* fails the handler before the next conversion is started.                *)
(***************************************************************************)
DsTryRead(d, lag) ==
  IF ~d.pending \/ ~DsDeadlineDue(d)
    THEN ds' = d /\ UNCHANGED <<dsSensor, dsSample>>
    ELSE LET read == [d EXCEPT !.pending = FALSE]
         IN  /\ dsSample' = [missing |-> dsSensor.busy, lag |-> d.lag]
             /\ \/ \E rc \in DsReads :
                     DsStart([read EXCEPT !.valid = @ \/ rc = "OK"], lag)
                \/ /\ "OK" \in DsReads
                   /\ ds' = [read EXCEPT !.valid = TRUE, !.failed = TRUE]
                   /\ UNCHANGED dsSensor

\* EV_BOOT_COMPLETED, published before the first tick.
DsBoot ==
  /\ ~ds.failed /\ ~ds.booted
  /\ DsStart([ds EXCEPT !.booted = TRUE], DsLag)
  /\ UNCHANGED <<dsTicks, dsSample>>

\* EV_TICK_100MS
DsHandleTick ==
  /\ ~ds.failed /\ ds.booted
  /\ dsTicks.waiting > 0
  /\ dsTicks' = [dsTicks EXCEPT !.waiting = @ - 1]
  /\ DsTryRead([ds EXCEPT !.now = (@ + DsTick) % DsMod], DsLag - DsTick)

\* EV_TICK_1S, accepted though no route delivers it: reads what is due.
DsHandleTick1s ==
  /\ ~ds.failed /\ ds.booted
  /\ DsTryRead(ds, DsLag)
  /\ UNCHANGED dsTicks

\* Time: the conversion goes on, and a tick falls due.  It is dropped when the
\* runtime actor that passes it on cannot take it, for the timer service goes on
\* after a refusal (ev_timer_service.c:92), and leaves the actor's clock behind
\* for good.
DsTime ==
  /\ ds.booted
  /\ dsSensor' = [dsSensor EXCEPT !.busy = IF @ = 0 THEN 0 ELSE @ - 1]
  /\ dsTicks' = IF dsTicks.phase + 1 < DsTick
                  THEN [dsTicks EXCEPT !.phase = @ + 1]
                  ELSE [waiting |-> IF dsTicks.waiting < DsMailbox
                                      THEN dsTicks.waiting + 1 ELSE DsMailbox,
                        phase |-> 0]
  /\ UNCHANGED <<ds, dsSample>>

\* The sensor is unplugged or plugged in again.
DsPlug ==
  /\ dsSensor' = [present |-> ~dsSensor.present, busy |-> 0]
  /\ UNCHANGED <<ds, dsTicks, dsSample>>

\* A handler that failed restarts the device; the sensor goes on converting.
DsRestart ==
  /\ ds.failed
  /\ ds' = DsFresh
  /\ dsTicks' = [waiting |-> 0, phase |-> 0]
  /\ UNCHANGED <<dsSensor, dsSample>>

DsNext ==
  DsBoot \/ DsHandleTick \/ DsHandleTick1s \/ DsTime \/ DsPlug \/ DsRestart

DsSpec == DsInit /\ [][DsNext]_dsVars

-----------------------------------------------------------------------------

\* A scratchpad is read before the end of its conversion by no more than the
\* actor was late when it started the conversion (ev_ds18b20_actor.c:87 takes
\* the deadline from a clock that ticks move): an actor that keeps up never
\* reads early, across wraps of the clock, bus errors, unplugging and restarts.
EarlyByLagOnly == dsSample.missing <= dsSample.lag

\* README.md:743: "aktor nie powinien czytać scratchpada przed końcem
\* konwersji" (the actor should not read the scratchpad before the end of the
\* conversion).
NeverReadEarly == dsSample.missing = 0
=============================================================================
