------------------------------- MODULE I2cBus -------------------------------
(***************************************************************************)
(* The I2C adapter (adapters/esp8266_rtos_sdk/components/ev_platform/      *)
(* ev_i2c_adapter.c): a master in software on two open-drain lines, with a *)
(* mutex around each transaction, clock stretching, one deadline for the   *)
(* whole transaction, and the recovery that clocks a device off the data   *)
(* line.                                                                   *)
(*                                                                         *)
(* One action is the code between two releases of the clock line.  The     *)
(* device on the bus acknowledges or not, transmits, stretches the clock,  *)
(* and, when the master abandons it inside a byte, keeps the data line for *)
(* the clocks the byte still needs.  A byte has one data bit and its       *)
(* acknowledge; the deadline may pass at any moment.                       *)
(***************************************************************************)
EXTENDS Naturals, Sequences

CONSTANTS
  I2cPulses,     \* EV_ESP8266_I2C_RECOVERY_PULSES: the clocks of a byte
  I2cPayload     \* bound: bytes of a transaction's data

ASSUME I2cAssumption == I2cPulses \in Nat \ {0} /\ I2cPayload \in Nat \ {0}

VARIABLES
  i2c,           \* the call that holds the mutex: where it is, what is left
  i2cLine,       \* lines the master releases
  i2cDev,        \* the device: clocks it holds SDA for, stretches SCL, is stuck
                 \* on SDA; open: the bus is between START and STOP
  i2cLast        \* the last call that returned

i2cVars == <<i2c, i2cLine, i2cDev, i2cLast>>

I2cReleased == [sda |-> TRUE, scl |-> TRUE]

I2cInit ==
  /\ i2c = [configured |-> FALSE, at |-> "idle", call |-> "none", todo |-> << >>,
            started |-> FALSE, status |-> "OK", back |-> "none", pulse |-> 0,
            empty |-> FALSE, expired |-> FALSE, sawStuck |-> FALSE]
  /\ i2cLine = I2cReleased
  /\ i2cDev = [hold |-> 0, stretch |-> FALSE, stuck |-> FALSE, open |-> FALSE]
  /\ i2cLast = [call |-> "none", status |-> "OK", closed |-> TRUE, idle |-> TRUE,
                empty |-> FALSE, excused |-> FALSE]

-----------------------------------------------------------------------------
(* The lines.                                                              *)

I2cSda(l, d) == l.sda /\ d.hold = 0 /\ ~d.stuck
I2cScl(l, d) == l.scl /\ ~d.stretch

\* ev_esp8266_i2c_wait_scl_high: a stretched clock comes back in time or not.
I2cWaited(l, d) ==
  {[ok |-> TRUE, line |-> l, dev |-> [d EXCEPT !.stretch = FALSE]]}
    \cup (IF d.stretch THEN {[ok |-> FALSE, line |-> l, dev |-> d]} ELSE {})

\* ev_esp8266_i2c_raise_scl: after the deadline the clock is not released.
I2cRaised(l, d) ==
  IF i2c.expired THEN {[ok |-> FALSE, line |-> l, dev |-> d]}
  ELSE I2cWaited([l EXCEPT !.scl = TRUE], d)

\* The clocks for which the device holds SDA, with `next` the master's next
\* clock.  It acknowledges, transmits, or counts those it still holds SDA for.
I2cHolds(d, next) ==
  CASE next = "ack" -> {0, 1}
    [] next = "rbit" -> 0 .. I2cPulses
    [] next \in {"bit", "rack", "rnack", "start", "stop"} -> {0}
    [] next = "recover" -> {IF d.hold = 0 THEN 0 ELSE d.hold - 1}

\* The device after the clock fell.
I2cFell(d, next) ==
  {[hold |-> h, stretch |-> s, stuck |-> d.stuck, open |-> d.open] :
     h \in I2cHolds(d, next), s \in {FALSE, d.open /\ next # "recover"}}

\* SDA is released while SCL is high: STOP, unless the device keeps SDA.
I2cStopSeen(l, d) ==
  IF I2cScl(l, d) /\ I2cSda(l, d) THEN [d EXCEPT !.open = FALSE, !.hold = 0] ELSE d

-----------------------------------------------------------------------------
(* Calls.                                                                  *)

I2cRepeat(s, n) == [i \in 1 .. n * Len(s) |-> s[((i - 1) % Len(s)) + 1]]
I2cWrite == << "bit", "ack" >>
I2cReads(n) == I2cRepeat(<< "rbit", "rack" >>, n - 1) \o << "rbit", "rnack" >>

\* The clocks of ev_esp8266_i2c_write_stream, of write_regs, of read_stream and
\* of read_regs.
I2cPrograms ==
  {<< "start" >> \o I2cRepeat(I2cWrite, 1 + n) : n \in 0 .. I2cPayload}
    \cup {<< "start" >> \o I2cRepeat(I2cWrite, 2 + n) : n \in 0 .. I2cPayload}
    \cup {<< "start" >> \o I2cWrite \o I2cReads(n) : n \in 1 .. I2cPayload}
    \cup {<< "start" >> \o I2cRepeat(I2cWrite, 2) \o << "start" >> \o I2cWrite
            \o I2cReads(n) : n \in 1 .. I2cPayload}

\* read_stream of no bytes, which read_regs alone refuses: the address and its
\* acknowledge, and no clock for what the device now transmits.
I2cEmptyRead == << "start" >> \o I2cWrite

\* A call has taken the mutex; empty: it is a read of no bytes.
I2cEnter(call, todo, empty) ==
  i2c' = [configured |-> TRUE, at |-> "prepare", call |-> call, todo |-> todo,
          started |-> FALSE, status |-> "OK", back |-> "none", pulse |-> 0,
          empty |-> empty, expired |-> FALSE, sawStuck |-> i2cDev.stuck]

\* ev_esp8266_i2c_port_init
I2cPortInit ==
  /\ ~i2c.configured /\ i2c.at = "idle"
  /\ I2cEnter("init", << >>, FALSE)
  /\ i2cLine' = I2cReleased
  /\ UNCHANGED <<i2cDev, i2cLast>>

\* One of the four transactions takes the mutex, and transaction_active is set.
I2cTransaction ==
  /\ i2c.configured /\ i2c.at = "idle"
  /\ \/ \E p \in I2cPrograms : I2cEnter("transaction", p, FALSE)
     \/ I2cEnter("transaction", I2cEmptyRead, TRUE)
  /\ UNCHANGED <<i2cLine, i2cDev, i2cLast>>

\* ev_esp8266_i2c_prepare_for_sleep takes the mutex without waiting.
I2cSleep ==
  /\ i2c.configured /\ i2c.at = "idle"
  /\ I2cEnter("sleep", << >>, FALSE)
  /\ UNCHANGED <<i2cLine, i2cDev, i2cLast>>

\* A call that does not come to the bus returns this.
I2cTurnedAway(call, status) ==
  /\ i2cLast' = [call |-> call, status |-> status, closed |-> FALSE, idle |-> FALSE,
                 empty |-> FALSE, excused |-> FALSE]
  /\ UNCHANGED <<i2c, i2cLine, i2cDev>>

\* It finds the mutex taken, for its whole timeout or at all.
I2cRefused ==
  /\ i2c.at # "idle" /\ i2c.call # "init"
  /\ \E call \in {"transaction", "sleep"} : I2cTurnedAway(call, "TIMEOUT")

\* A transaction with a wrong port, address, buffer or length, or before the port
\* is configured.
I2cInvalid == I2cTurnedAway("invalid", "BUS_LOCKED")

\* A step went wrong before the STOP: it is sent if a START was, and otherwise
\* the bus is recovered at once (ev_esp8266_i2c_finish_locked); sleep and init
\* give up.
I2cFailed(c, status) ==
  IF c.call # "transaction" THEN [c EXCEPT !.status = status, !.at = "finish"]
  ELSE IF c.started THEN [c EXCEPT !.status = status, !.at = "stop", !.todo = << >>]
  ELSE [c EXCEPT !.status = status, !.at = "recover", !.back = "finish", !.todo = << >>]

\* The bus is prepared.
I2cGoOn(c) == [c EXCEPT !.at = IF c.call = "transaction" THEN "run" ELSE "finish"]

\* ev_esp8266_i2c_prepare_bus
I2cPrepare ==
  /\ i2c.at = "prepare"
  /\ \E w \in I2cWaited(I2cReleased, i2cDev) :
       /\ i2cLine' = w.line /\ i2cDev' = w.dev
       /\ i2c' = IF ~w.ok THEN I2cFailed(i2c, "TIMEOUT")
                 ELSE IF I2cSda(w.line, w.dev) THEN I2cGoOn(i2c)
                 ELSE [i2c EXCEPT !.at = "recover", !.back = "prepare"]
  /\ UNCHANGED i2cLast

\* ev_esp8266_i2c_start_condition, up to the START.
I2cStart ==
  /\ i2c.at = "run" /\ i2c.todo # << >> /\ Head(i2c.todo) = "start"
  /\ \E w \in I2cWaited(I2cReleased, i2cDev) :
       /\ i2cLine' = w.line /\ i2cDev' = w.dev
       /\ i2c' = IF ~w.ok THEN I2cFailed(i2c, "TIMEOUT")
                 ELSE IF I2cSda(w.line, w.dev) THEN [i2c EXCEPT !.at = "begin"]
                 ELSE [i2c EXCEPT !.at = "recover", !.back = "start"]
  /\ UNCHANGED i2cLast

\* START: SDA falls while SCL is high, and every device listens.
I2cBegin ==
  /\ i2c.at = "begin"
  /\ i2cLine' = [sda |-> FALSE, scl |-> FALSE]
  /\ i2cDev' \in I2cFell([i2cDev EXCEPT !.open = TRUE, !.hold = 0], "bit")
  /\ i2c' = [i2c EXCEPT !.at = "run", !.todo = Tail(@), !.started = TRUE]
  /\ UNCHANGED i2cLast

\* One clock of ev_esp8266_i2c_write_byte or ev_esp8266_i2c_read_byte.  After the
\* last comes the STOP, for which a device whose read was empty may hold SDA.
I2cClock ==
  /\ i2c.at = "run" /\ i2c.todo # << >> /\ Head(i2c.todo) # "start"
  /\ \E high \in {Head(i2c.todo) # "rack", Head(i2c.todo) # "rack" /\ Head(i2c.todo) # "bit"} :
     \E w \in I2cRaised([i2cLine EXCEPT !.sda = high], i2cDev) :
       LET acked == Head(i2c.todo) = "ack" => ~I2cSda(w.line, w.dev)
           last == Len(i2c.todo) = 1
           next == IF ~acked \/ (last /\ ~i2c.empty) THEN "stop"
                   ELSE IF last THEN "rbit" ELSE i2c.todo[2]
       IN  IF w.ok
             THEN /\ i2cLine' = [scl |-> FALSE,
                                 sda |-> high \/ Head(i2c.todo) = "rack"]
                  /\ i2cDev' \in I2cFell(w.dev, next)
                  /\ i2c' = IF acked
                              THEN [i2c EXCEPT !.todo = Tail(@),
                                               !.at = IF last THEN "stop" ELSE "run"]
                              ELSE I2cFailed(i2c, "NACK")
             ELSE /\ i2cLine' = [w.line EXCEPT !.sda = TRUE]
                  /\ i2cDev' = w.dev
                  /\ i2c' = I2cFailed(i2c, "TIMEOUT")
  /\ UNCHANGED i2cLast

\* ev_esp8266_i2c_stop_condition, and whether it calls for a recovery
\* (ev_esp8266_i2c_status_needs_recovery).
I2cStop ==
  /\ i2c.at = "stop"
  /\ \E w \in I2cRaised([i2cLine EXCEPT !.sda = FALSE], i2cDev) :
       LET dev == IF w.ok THEN I2cStopSeen(I2cReleased, w.dev) ELSE w.dev
           stop == IF ~w.ok THEN "TIMEOUT"
                   ELSE IF I2cSda(I2cReleased, dev) THEN "OK" ELSE "BUS_LOCKED"
           status == IF i2c.status = "OK" THEN stop ELSE i2c.status
       IN  /\ i2cLine' = I2cReleased
           /\ i2cDev' = dev
           /\ i2c' = [i2c EXCEPT
                        !.status = status, !.back = "finish",
                        !.at = IF stop # "OK" \/ status \in {"TIMEOUT", "BUS_LOCKED"}
                                 THEN "recover" ELSE "finish"]
  /\ UNCHANGED i2cLast

-----------------------------------------------------------------------------
(* ev_esp8266_i2c_recover_bus                                              *)

I2cRecover ==
  /\ i2c.at = "recover"
  /\ i2cLine' = I2cReleased
  /\ i2c' = [i2c EXCEPT !.at = "pulse", !.pulse = 0]
  /\ UNCHANGED <<i2cDev, i2cLast>>

\* It returns to where it was called from.
I2cRecovered(status) ==
  i2c' = CASE i2c.back = "finish" -> [i2c EXCEPT !.at = "finish"]
           [] i2c.back = "prepare" /\ status = "OK" -> I2cGoOn(i2c)
           [] i2c.back = "start" /\ status = "OK" -> [i2c EXCEPT !.at = "begin"]
           [] i2c.back \in {"prepare", "start"} /\ status # "OK" -> I2cFailed(i2c, status)

\* Faulty variant: one clock too few.
I2cPulseShort ==
  /\ i2c.at = "pulse"
  /\ \E w \in I2cRaised(i2cLine, i2cDev) :
       IF ~w.ok THEN I2cRecovered("TIMEOUT") /\ i2cLine' = w.line /\ i2cDev' = w.dev
       ELSE IF I2cSda(w.line, w.dev) \/ i2c.pulse + 1 >= I2cPulses
         THEN i2c' = [i2c EXCEPT !.at = "close"] /\ i2cLine' = w.line /\ i2cDev' = w.dev
       ELSE /\ i2cLine' = [w.line EXCEPT !.scl = FALSE]
            /\ i2cDev' \in I2cFell(w.dev, "recover")
            /\ i2c' = [i2c EXCEPT !.pulse = @ + 1]
  /\ UNCHANGED i2cLast

\* A clock, until the device lets SDA go or the clocks are used up.
I2cPulse ==
  /\ i2c.at = "pulse"
  /\ \E w \in I2cRaised(i2cLine, i2cDev) :
       IF ~w.ok THEN I2cRecovered("TIMEOUT") /\ i2cLine' = w.line /\ i2cDev' = w.dev
       ELSE IF I2cSda(w.line, w.dev)
         THEN i2c' = [i2c EXCEPT !.at = "close"] /\ i2cLine' = w.line /\ i2cDev' = w.dev
       ELSE /\ i2cLine' = [w.line EXCEPT !.scl = FALSE]
            /\ i2cDev' \in I2cFell(w.dev, "recover")
            /\ i2c' = [i2c EXCEPT !.pulse = @ + 1,
                                  !.at = IF i2c.pulse + 1 = I2cPulses THEN "close" ELSE "pulse"]
  /\ UNCHANGED i2cLast

\* The STOP that ends the recovery, and the look at both lines.
I2cClose ==
  /\ i2c.at = "close"
  /\ \E w \in I2cRaised([i2cLine EXCEPT !.sda = FALSE], i2cDev) :
       LET dev == I2cStopSeen([w.line EXCEPT !.sda = TRUE], w.dev)
       IN  /\ i2cDev' = dev
           /\ i2cLine' = I2cReleased
           /\ I2cRecovered(IF ~w.ok THEN "TIMEOUT"
                           ELSE IF I2cSda(I2cReleased, dev) THEN "OK" ELSE "BUS_LOCKED")
  /\ UNCHANGED i2cLast

\* The lines are released, the result is recorded, the mutex is given back.
\* Sleep looks at the lines once more; an init that failed leaves the adapter
\* unconfigured and, alone of the three, the lines as they are.
I2cFinish ==
  /\ i2c.at = "finish"
  /\ LET line == IF i2c.call = "init" THEN i2cLine ELSE I2cReleased
         idle == I2cSda(line, i2cDev) /\ I2cScl(line, i2cDev)
         status == IF i2c.call = "sleep" /\ i2c.status = "OK" /\ ~idle
                     THEN "BUS_LOCKED" ELSE i2c.status
     IN  /\ i2cLine' = line
         /\ i2cLast' = [call |-> i2c.call, status |-> status, closed |-> ~i2cDev.open,
                        idle |-> idle, empty |-> i2c.empty,
                        excused |-> i2c.expired \/ i2c.sawStuck]
         /\ i2c' = [i2c EXCEPT !.at = "idle", !.call = "none", !.todo = << >>,
                               !.started = FALSE, !.status = "OK", !.back = "none",
                               !.pulse = 0, !.empty = FALSE, !.expired = FALSE,
                               !.sawStuck = FALSE,
                               !.configured = i2c.call # "init" \/ status = "OK"]
  /\ UNCHANGED i2cDev

-----------------------------------------------------------------------------
(* The surroundings.                                                       *)

\* The deadline of the transaction passes.
I2cDeadline ==
  /\ i2c.at # "idle" /\ ~i2c.expired
  /\ i2c' = [i2c EXCEPT !.expired = TRUE]
  /\ UNCHANGED <<i2cLine, i2cDev, i2cLast>>

\* A broken device pulls SDA low, or lets it go: to the others, a STOP.
I2cStick ==
  /\ LET dev == [i2cDev EXCEPT !.stuck = ~@]
     IN  i2cDev' = IF dev.stuck THEN dev ELSE I2cStopSeen(i2cLine, dev)
  /\ i2c' = [i2c EXCEPT !.sawStuck = i2c.at # "idle"]
  /\ UNCHANGED <<i2cLine, i2cLast>>

I2cNext ==
  \/ I2cPortInit \/ I2cTransaction \/ I2cSleep \/ I2cRefused \/ I2cInvalid
  \/ I2cPrepare \/ I2cStart \/ I2cBegin \/ I2cClock \/ I2cStop
  \/ I2cRecover \/ I2cPulse \/ I2cClose \/ I2cFinish
  \/ I2cDeadline \/ I2cStick

-----------------------------------------------------------------------------

\* However a call ends, with an acknowledge missing, a clock stretched too
\* long, the deadline passed at any step or a device left inside a byte: when
\* the mutex is free the master drives neither line; a transaction that
\* returned OK closed the bus with a STOP; a sleep that was granted found both
\* lines high.  A call that came to the bus and reports it locked met a stuck
\* device or the deadline, since the recovery's clocks free every other device;
\* or it was a read of no bytes, which such a device answers with a byte nobody
\* clocks: then the report is of the STOP that failed, and the recovery after it
\* has closed and freed the bus (ev_i2c_adapter.c:360-410, :683-717, :830-867).
BusIsReturned ==
  /\ i2c.at = "idle" /\ i2c.configured => i2cLine = I2cReleased
  /\ i2cLast.status = "OK" /\ i2cLast.call = "transaction" => i2cLast.closed
  /\ i2cLast.status = "OK" /\ i2cLast.call = "sleep" => i2cLast.idle
  /\ i2cLast.status = "BUS_LOCKED" /\ i2cLast.call # "invalid" =>
       i2cLast.excused \/ (i2cLast.empty /\ i2cLast.closed /\ i2cLast.idle)
=============================================================================
