--------------------------------- MODULE Rtc ---------------------------------
(***************************************************************************)
(* The RTC actor (actors/device/ev_rtc_actor.c) and the clock chip.  The   *)
(* chip counts in BCD registers and, once its square wave is enabled,      *)
(* interrupts every second; the actor reads the registers on each          *)
(* interrupt, or polls them from its one-second tick while no interrupt    *)
(* arrives.                                                                *)
(*                                                                         *)
(* A second passes when the messages of the one before were handled: its   *)
(* tick and, if the line works, its interrupt, in either order.            *)
(***************************************************************************)
EXTENDS Integers

CONSTANTS
  RtcStarts,      \* moments the chip may hold at power-on: [date, unix]
  RtcFallback,    \* EV_RTC_FALLBACK_POLL_THRESHOLD_TICKS
  RtcSpan         \* bound: seconds of a run

VARIABLES
  rtc,            \* ev_rtc_actor_ctx_t
  rtcChip,        \* the chip's date and its square wave
  rtcDue,         \* messages of this second not yet handled
  rtcUnix,        \* seconds since 1970, by the calendar
  rtcShown        \* history: the last time published; a read failed since

rtcVars == <<rtc, rtcChip, rtcDue, rtcUnix, rtcShown>>

-----------------------------------------------------------------------------
(* The program's calendar.                                                 *)

ev_rtc_actor_is_leap_year(y) ==
  y % 400 = 0 \/ (y % 100 # 0 /\ y % 4 = 0)

ev_rtc_actor_days_in_month(y, m) ==
  IF m = 2 /\ ev_rtc_actor_is_leap_year(y) THEN 29
  ELSE <<31, 28, 31, 30, 31, 30, 31, 31, 30, 31, 30, 31>>[m]

\* The two loops of ev_rtc_actor_build_unix_time.
RtcDaysBefore(y, m) ==
  LET years[i \in 1970 .. y] ==
        IF i = 1970 THEN 0
        ELSE years[i - 1] + IF ev_rtc_actor_is_leap_year(i - 1) THEN 366 ELSE 365
      months[i \in 1 .. m] ==
        IF i = 1 THEN 0 ELSE months[i - 1] + ev_rtc_actor_days_in_month(y, i - 1)
  IN  years[y] + months[m]

ev_rtc_actor_build_unix_time(t) ==
  (RtcDaysBefore(t.year, t.month) + t.day - 1) * 86400
    + t.hours * 3600 + t.minutes * 60 + t.seconds

ev_rtc_actor_bcd_to_decimal(b) == 10 * (b \div 16) + (b % 16)

\* Bit 6 says 12-hour mode, bit 5 then PM; 24-hour mode has five value bits
\* and the tens in bit 5.
ev_rtc_actor_decode_hours(raw) ==
  IF (raw \div 64) % 2 = 1
    THEN LET h == ev_rtc_actor_bcd_to_decimal(raw % 32)
             pm == (raw \div 32) % 2 = 1
         IN  IF pm THEN (IF h < 12 THEN h + 12 ELSE h)
             ELSE (IF h = 12 THEN 0 ELSE h)
    ELSE ev_rtc_actor_bcd_to_decimal(raw % 64)

\* Bit 7 of the month says that the year is in the next century.
RtcDecode(r) ==
  LET year == 2000 + ev_rtc_actor_bcd_to_decimal(r.year)
  IN  [seconds |-> ev_rtc_actor_bcd_to_decimal(r.seconds % 128),
       minutes |-> ev_rtc_actor_bcd_to_decimal(r.minutes % 128),
       hours |-> ev_rtc_actor_decode_hours(r.hours),
       day |-> ev_rtc_actor_bcd_to_decimal(r.day % 64),
       month |-> ev_rtc_actor_bcd_to_decimal(r.month % 32),
       year |-> IF r.month >= 128 THEN year + 100 ELSE year]

ev_rtc_actor_payload_is_valid(t) ==
  /\ t.month \in 1 .. 12 /\ t.hours \in 0 .. 23
  /\ t.minutes \in 0 .. 59 /\ t.seconds \in 0 .. 59
  /\ t.day \in 1 .. ev_rtc_actor_days_in_month(t.year, t.month)

\* The dates of this century, and the seconds since 1970 by the calendar: until
\* 2100 every fourth year is a leap year.
RtcDates ==
  {t \in [year : 2000 .. 2099, month : 1 .. 12, day : 1 .. 31,
          hours : 0 .. 23, minutes : 0 .. 59, seconds : 0 .. 59] :
     ev_rtc_actor_payload_is_valid(t)}

RtcCalendar(t) ==
  LET days == 365 * (t.year - 1970) + ((t.year - 1969) \div 4)
                + <<0, 31, 59, 90, 120, 151, 181, 212, 243, 273, 304, 334>>[t.month]
                + (IF t.month > 2 /\ t.year % 4 = 0 THEN 1 ELSE 0) + t.day - 1
  IN  ((days * 24 + t.hours) * 60 + t.minutes) * 60 + t.seconds

ASSUME RtcAssumption ==
  /\ RtcFallback \in Nat \ {0} /\ RtcSpan \in Nat
  /\ \A start \in RtcStarts :
       start.date \in RtcDates /\ start.unix = RtcCalendar(start.date)

-----------------------------------------------------------------------------
(* The chip.                                                               *)

RtcBcd(n) == 16 * (n \div 10) + (n % 10)

\* Its registers, in 12-hour mode or not.
RtcRegisters(t, twelve) ==
  [seconds |-> RtcBcd(t.seconds), minutes |-> RtcBcd(t.minutes),
   hours |-> IF twelve
               THEN 64 + (IF t.hours >= 12 THEN 32 ELSE 0)
                       + RtcBcd(IF t.hours % 12 = 0 THEN 12 ELSE t.hours % 12)
               ELSE RtcBcd(t.hours),
   day |-> RtcBcd(t.day), month |-> RtcBcd(t.month), year |-> RtcBcd(t.year - 2000)]

\* One second later; the chip takes every fourth year for a leap year.
RtcLater(t) ==
  LET last == IF t.month = 2 THEN (IF t.year % 4 = 0 THEN 29 ELSE 28)
              ELSE IF t.month \in {4, 6, 9, 11} THEN 30 ELSE 31
      midnight == t.hours = 23 /\ t.minutes = 59 /\ t.seconds = 59
  IN  [seconds |-> (t.seconds + 1) % 60,
       minutes |-> IF t.seconds = 59 THEN (t.minutes + 1) % 60 ELSE t.minutes,
       hours |-> IF t.seconds = 59 /\ t.minutes = 59
                   THEN (t.hours + 1) % 24 ELSE t.hours,
       day |-> IF ~midnight THEN t.day ELSE IF t.day = last THEN 1 ELSE t.day + 1,
       month |-> IF midnight /\ t.day = last THEN (t.month % 12) + 1 ELSE t.month,
       year |-> IF midnight /\ t.day = last /\ t.month = 12
                  THEN t.year + 1 ELSE t.year]

-----------------------------------------------------------------------------
(* The actor.                                                              *)

\* ev_rtc_actor_init.  `missed` is ticks_since_last_irq.
RtcFresh == [booted |-> FALSE, failed |-> FALSE, sqw_enabled |-> FALSE, missed |-> 0,
             time_valid |-> FALSE, last |-> 0]

RtcNoDate == [year |-> 0, month |-> 0, day |-> 0, hours |-> 0, minutes |-> 0, seconds |-> 0]

RtcInit ==
  /\ rtc = RtcFresh
  /\ rtcChip = [set |-> FALSE, twelve |-> FALSE, sqw |-> FALSE, date |-> RtcNoDate]
  /\ rtcDue = [tick |-> FALSE, irq |-> FALSE]
  /\ rtcUnix = 0
  /\ rtcShown = [unix |-> 0, any |-> FALSE, failed |-> FALSE, passed |-> 0]

\* The moment the device is switched on.
RtcPowerOn ==
  /\ ~rtcChip.set
  /\ \E start \in RtcStarts, twelve \in BOOLEAN :
       /\ rtcChip' = [set |-> TRUE, twelve |-> twelve, sqw |-> FALSE, date |-> start.date]
       /\ rtcUnix' = start.unix
  /\ UNCHANGED <<rtc, rtcDue, rtcShown>>

\* ev_rtc_actor_try_refresh_time: a read that fails, or returns a date that
\* does not exist, is counted; a time that differs from the last is published,
\* which may be refused and then fails the handler.
RtcRefresh(r) ==
  LET t == RtcDecode(RtcRegisters(rtcChip.date, rtcChip.twelve))
      unix == ev_rtc_actor_build_unix_time(t)
  IN  \/ /\ rtc' = r
         /\ rtcShown' = [rtcShown EXCEPT !.failed = TRUE]
      \/ /\ ev_rtc_actor_payload_is_valid(t)
         /\ rtc' = [r EXCEPT !.time_valid = TRUE, !.last = unix]
         /\ rtcShown' = IF r.time_valid /\ r.last = unix
                          THEN [rtcShown EXCEPT !.failed = FALSE]
                          ELSE [rtcShown EXCEPT !.unix = unix, !.any = TRUE,
                                                !.failed = FALSE]
      \/ /\ ev_rtc_actor_payload_is_valid(t)
         /\ ~r.time_valid \/ r.last # unix
         /\ rtc' = [r EXCEPT !.time_valid = TRUE, !.last = unix, !.failed = TRUE]
         /\ rtcShown' = [rtcShown EXCEPT !.failed = TRUE]

\* EV_BOOT_COMPLETED
RtcBoot ==
  /\ rtcChip.set /\ ~rtc.booted
  /\ RtcRefresh([rtc EXCEPT !.booted = TRUE])
  /\ UNCHANGED <<rtcChip, rtcDue, rtcUnix>>

\* EV_MCP23008_READY: ev_rtc_actor_enable_square_wave writes the control
\* register and enables the interrupt; either may fail.
RtcMcpReady ==
  /\ rtc.booted /\ ~rtc.failed
  /\ \E written, enabled \in BOOLEAN :
       /\ rtc' = [rtc EXCEPT !.sqw_enabled = written /\ enabled]
       /\ rtcChip' = [rtcChip EXCEPT !.sqw = @ \/ (written /\ enabled)]
  /\ UNCHANGED <<rtcDue, rtcUnix, rtcShown>>

\* EV_GPIO_IRQ: the falling edge of the square wave, read with its level low.
RtcIrq ==
  /\ rtcDue.irq /\ ~rtc.failed
  /\ rtcDue' = [rtcDue EXCEPT !.irq = FALSE]
  /\ RtcRefresh([rtc EXCEPT !.missed = 0])
  /\ UNCHANGED <<rtcChip, rtcUnix>>

\* Faulty variant: an enabled square wave is trusted to arrive.
RtcTickTrusting ==
  LET r == [rtc EXCEPT !.missed = IF @ < RtcFallback THEN @ + 1 ELSE @]
  IN  /\ rtcDue.tick /\ ~rtc.failed
      /\ rtcDue' = [rtcDue EXCEPT !.tick = FALSE]
      /\ IF ~r.sqw_enabled THEN RtcRefresh(r) ELSE rtc' = r /\ UNCHANGED rtcShown
      /\ UNCHANGED <<rtcChip, rtcUnix>>

\* EV_TICK_1S; the count of missed interrupts matters up to RtcFallback.
RtcTick ==
  LET r == [rtc EXCEPT !.missed = IF @ < RtcFallback THEN @ + 1 ELSE @]
  IN  /\ rtcDue.tick /\ ~rtc.failed
      /\ rtcDue' = [rtcDue EXCEPT !.tick = FALSE]
      /\ IF ~r.sqw_enabled \/ r.missed >= RtcFallback THEN RtcRefresh(r)
         ELSE rtc' = r /\ UNCHANGED rtcShown
      /\ UNCHANGED <<rtcChip, rtcUnix>>

\* Bound: the century.
RtcThisCentury(t) == t.year < 2100

\* A second passes.  Its edge may be lost.
RtcSecond ==
  /\ rtc.booted /\ ~rtc.failed
  /\ ~rtcDue.tick /\ ~rtcDue.irq
  /\ rtcShown.passed < RtcSpan
  /\ RtcThisCentury(RtcLater(rtcChip.date))
  /\ rtcChip' = [rtcChip EXCEPT !.date = RtcLater(@)]
  /\ rtcUnix' = rtcUnix + 1
  /\ \E edge \in {FALSE, rtcChip.sqw} : rtcDue' = [tick |-> TRUE, irq |-> edge]
  /\ rtcShown' = [rtcShown EXCEPT !.passed = @ + 1]
  /\ UNCHANGED rtc

\* A handler that failed restarts the device; the chip keeps its time, and its
\* interrupt is off until it is enabled again.
RtcRestart ==
  /\ rtc.failed
  /\ rtc' = RtcFresh
  /\ rtcChip' = [rtcChip EXCEPT !.sqw = FALSE]
  /\ rtcDue' = [tick |-> FALSE, irq |-> FALSE]
  /\ UNCHANGED <<rtcUnix, rtcShown>>

RtcNext ==
  RtcPowerOn \/ RtcBoot \/ RtcMcpReady \/ RtcIrq \/ RtcTick \/ RtcSecond \/ RtcRestart

-----------------------------------------------------------------------------

\* The time last published is the true one of at most RtcFallback seconds ago,
\* through ends of months and leap days, in both hour modes, with interrupts
\* that stop or never start, unless reading the chip failed since: the BCD
\* decoding and the calendar loops (ev_rtc_actor.c:35-125) against the count of
\* seconds, and the fallback poll (:373) against lost edges.
TimeIsFresh ==
  rtc.booted /\ ~rtcShown.failed =>
    /\ rtcShown.any
    /\ rtcShown.unix <= rtcUnix
    /\ rtcUnix - rtcShown.unix <= RtcFallback
=============================================================================
