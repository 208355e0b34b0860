------------------------------- MODULE Command -------------------------------
(***************************************************************************)
(* The command actor (actors/framework/ev_command_actor.c): MQTT messages  *)
(* of key=value pairs with a token become LED, display and sleep commands. *)
(* Sleep takes two messages, an arm with a nonce and a duration and a      *)
(* confirm with the same nonce, within a window of one-second ticks.       *)
(*                                                                         *)
(* A payload is a sequence of pairs; a value is a sequence of characters,  *)
(* where 0 .. 9 stand for the decimal digits, 10 .. 15 for the letters of  *)
(* hexadecimal ones, and larger numbers for any other character.           *)
(***************************************************************************)
EXTENDS Integers, Sequences

CONSTANTS
  CmdMessages,    \* the messages that may arrive: [topic, payload]
  CmdToken,       \* the board's token; empty when remote commands are disabled
  CmdCaps,        \* capabilities: a subset of {"led", "display", "sleep"}
  CmdWindow,      \* EV_COMMAND_SLEEP_CONFIRM_WINDOW_TICKS
  CmdInterval,    \* EV_COMMAND_MIN_INTERVAL_TICKS
  CmdNonceMax,    \* EV_COMMAND_SLEEP_NONCE_MAX_BYTES
  CmdTextMax,     \* EV_OLED_TEXT_MAX_CHARS
  CmdMaxSleep,    \* EV_POWER_MAX_SLEEP_DURATION_MS
  CmdU32,         \* UINT32_MAX of a parsed number
  CmdDigits,      \* EV_COMMAND_U32_MAX_DECIMAL_DIGITS
  CmdMod          \* number of values of the tick counter (2^32)

ASSUME CmdAssumption ==
  /\ {CmdWindow, CmdInterval, CmdNonceMax, CmdTextMax, CmdMaxSleep} \subseteq Nat \ {0}
  /\ {CmdU32, CmdDigits, CmdMod} \subseteq Nat
  /\ CmdMaxSleep <= CmdU32 /\ 2 * CmdWindow < CmdMod - 1

VARIABLES
  cmd,            \* ev_command_actor_ctx_t
  cmdOut,         \* the command the last message published, and that message
  cmdArm          \* history: the arm in force, its age, what came this tick

cmdVars == <<cmd, cmdOut, cmdArm>>

CmdNothing == [kind |-> "none", value |-> 0, valid |-> 0,
               from |-> [topic |-> "none", payload |-> << >>]]

CmdNoArm == [live |-> FALSE, nonce |-> << >>, ms |-> << >>, age |-> 0, executed |-> {}]

\* ev_command_actor_init
CmdInit ==
  /\ cmd = [tick |-> 0, armed |-> FALSE, nonce |-> << >>, duration |-> 0, expiry |-> 0,
            last |-> [k \in {"led", "display", "sleep"} |-> CmdMod - 1]]
  /\ cmdOut = CmdNothing
  /\ cmdArm = CmdNoArm

-----------------------------------------------------------------------------
(* Parsing.                                                                *)

\* ev_command_parse_uint32_dec: the number, or -1.
ev_command_parse_uint32_dec(s) ==
  LET value[i \in 0 .. Len(s)] ==
        IF i = 0 THEN 0
        ELSE IF value[i - 1] = -1 \/ s[i] \notin 0 .. 9
                  \/ value[i - 1] > (CmdU32 - s[i]) \div 10 THEN -1
        ELSE 10 * value[i - 1] + s[i]
  IN  IF Len(s) \in 1 .. CmdDigits THEN value[Len(s)] ELSE -1

\* ev_command_parse_u8_hex
ev_command_parse_u8_hex(s) ==
  CASE Len(s) \notin 1 .. 2 \/ \E i \in 1 .. Len(s) : s[i] \notin 0 .. 15 -> -1
    [] Len(s) = 1 /\ s[1] \in 0 .. 15 -> s[1]
    [] Len(s) = 2 /\ s[1] \in 0 .. 15 /\ s[2] \in 0 .. 15 -> 16 * s[1] + s[2]

\* ev_command_parse_payload: a pair without a key rejects the whole payload,
\* an unknown key is skipped, the last of several pairs with a key counts.
CmdWellFormed(m) ==
  m.payload # << >> /\ \A i \in 1 .. Len(m.payload) : m.payload[i].key # ""
CmdHas(m, k) == \E i \in 1 .. Len(m.payload) : m.payload[i].key = k
CmdField(m, k) ==
  m.payload[CHOOSE i \in 1 .. Len(m.payload) :
              /\ m.payload[i].key = k
              /\ \A j \in i + 1 .. Len(m.payload) : m.payload[j].key # k].value

\* ev_command_authorized
CmdAuthorized(m) ==
  CmdToken # << >> /\ CmdHas(m, "token") /\ CmdField(m, "token") = CmdToken

-----------------------------------------------------------------------------
(* Commands.                                                               *)

\* ev_command_rate_limited
CmdLimited(kind) == (cmd.tick - cmd.last[kind]) % CmdMod < CmdInterval

CmdMay(kind) == kind \in CmdCaps /\ ~CmdLimited(kind)

\* On message m a command is published, on the context c, or the publication is
\* refused and only counted.
CmdPublish(m, c, kind, value, valid) ==
  \/ /\ cmdOut' = [kind |-> kind, value |-> value, valid |-> valid, from |-> m]
     /\ cmd' = [c EXCEPT !.last[kind] = c.tick]
     /\ cmdArm' = IF kind = "sleep" THEN [CmdNoArm EXCEPT !.executed = {kind} \cup cmdArm.executed]
                   ELSE [cmdArm EXCEPT !.executed = @ \cup {kind}]
  \/ cmd' = c /\ cmdOut' = CmdNothing /\ UNCHANGED cmdArm

\* Any rejection: nothing but a counter changes.
CmdDrop == cmdOut' = CmdNothing /\ UNCHANGED <<cmd, cmdArm>>

\* ev_command_handle_led: the four low bits of both numbers.
CmdLed(m) ==
  LET good == /\ CmdMay("led") /\ CmdHas(m, "mask") /\ CmdHas(m, "valid")
              /\ ev_command_parse_u8_hex(CmdField(m, "mask")) # -1
              /\ ev_command_parse_u8_hex(CmdField(m, "valid")) # -1
  IN  IF good THEN CmdPublish(m, cmd, "led", ev_command_parse_u8_hex(CmdField(m, "mask")) % 16,
                              ev_command_parse_u8_hex(CmdField(m, "valid")) % 16)
      ELSE CmdDrop

\* ev_command_handle_display
CmdDisplay(m) ==
  IF CmdMay("display") /\ CmdHas(m, "text") /\ Len(CmdField(m, "text")) \in 1 .. CmdTextMax - 1
    THEN CmdPublish(m, cmd, "display", Len(CmdField(m, "text")), 0)
    ELSE CmdDrop

\* ev_command_handle_sleep_arm: replaces an arm that is in force.
CmdSleepArm(m) ==
  IF /\ CmdMay("sleep") /\ CmdHas(m, "ms")
     /\ Len(CmdField(m, "arm")) \in 1 .. CmdNonceMax - 1
     /\ ev_command_parse_uint32_dec(CmdField(m, "ms")) \in 1 .. CmdMaxSleep
    THEN /\ cmd' = [cmd EXCEPT
                      !.armed = TRUE, !.nonce = CmdField(m, "arm"),
                      !.duration = ev_command_parse_uint32_dec(CmdField(m, "ms")),
                      !.expiry = (cmd.tick + CmdWindow) % CmdMod]
         /\ cmdArm' = [cmdArm EXCEPT !.live = TRUE, !.nonce = CmdField(m, "arm"),
                                     !.ms = CmdField(m, "ms"), !.age = 0]
         /\ cmdOut' = CmdNothing
    ELSE CmdDrop

\* (uint32_t)(tick_counter - sleep_expiry_tick) < UINT32_MAX / 2U
CmdExpired(c) == (c.tick - c.expiry) % CmdMod < (CmdMod - 1) \div 2

\* Faulty variant: any nonce confirms the arm in force.
CmdSleepConfirmAny(m) ==
  IF "sleep" \notin CmdCaps \/ ~cmd.armed
    THEN CmdDrop
  ELSE IF CmdExpired(cmd)
    THEN cmd' = [cmd EXCEPT !.armed = FALSE] /\ cmdOut' = CmdNothing /\ UNCHANGED cmdArm
  ELSE CmdPublish(m, [cmd EXCEPT !.armed = FALSE], "sleep", cmd.duration, 0)

\* ev_command_handle_sleep_confirm: the arm is used up, published or not.
CmdSleepConfirm(m) ==
  IF "sleep" \notin CmdCaps \/ ~cmd.armed \/ CmdField(m, "confirm") # cmd.nonce
    THEN CmdDrop
  ELSE IF CmdExpired(cmd)
    THEN cmd' = [cmd EXCEPT !.armed = FALSE] /\ cmdOut' = CmdNothing /\ UNCHANGED cmdArm
  ELSE CmdPublish(m, [cmd EXCEPT !.armed = FALSE], "sleep", cmd.duration, 0)

\* ev_command_dispatch, from EV_NET_MQTT_MSG_RX or EV_NET_MQTT_MSG_RX_LEASE.
\* A message with both arm and confirm only arms.
CmdReceive ==
  \E m \in CmdMessages :
    CASE ~CmdWellFormed(m) \/ ~CmdAuthorized(m) -> CmdDrop
      [] CmdWellFormed(m) /\ CmdAuthorized(m) ->
           CASE m.topic = "led" -> CmdLed(m)
             [] m.topic = "display" -> CmdDisplay(m)
             [] m.topic = "sleep" /\ CmdHas(m, "arm") -> CmdSleepArm(m)
             [] m.topic = "sleep" /\ ~CmdHas(m, "arm") /\ CmdHas(m, "confirm") ->
                  CmdSleepConfirm(m)
             [] OTHER -> CmdDrop

\* EV_TICK_1S, with ev_command_expire_sleep_arm.
CmdTick ==
  LET c == [cmd EXCEPT !.tick = (@ + 1) % CmdMod]
  IN  /\ cmd' = [c EXCEPT !.armed = @ /\ ~CmdExpired(c)]
      /\ cmdOut' = CmdNothing
      /\ cmdArm' = IF cmdArm.live /\ cmdArm.age < CmdWindow
                     THEN [cmdArm EXCEPT !.executed = {}, !.age = @ + 1]
                     ELSE CmdNoArm

CmdNext == CmdReceive \/ CmdTick

-----------------------------------------------------------------------------

\* The number a sequence of decimal digits stands for.
CmdDecimal(s) ==
  LET value[i \in 0 .. Len(s)] == IF i = 0 THEN 0 ELSE 10 * value[i - 1] + s[i]
  IN  value[Len(s)]

\* m is a sleep message that confirms this nonce.
CmdConfirms(m, nonce) ==
  m.topic = "sleep" /\ CmdHas(m, "confirm") /\ CmdField(m, "confirm") = nonce

\* m is well formed and carries the board's token.
CmdGenuine(m) == CmdWellFormed(m) /\ CmdAuthorized(m)

\* docs/specs/remote-command-dispatcher.md:54: a sleep command is published
\* only after an arm and a confirm of it inside the window.  The message that
\* makes the actor publish one is a confirm with the nonce of the arm message
\* accepted last, which no confirm has used since and which is less than
\* CmdWindow ticks old on a counter that wraps; the command asks for exactly
\* the duration that arm's digits say.  Every command comes from a message with
\* the board's token, and no kind is executed twice within a tick
\* (ev_command_actor.c:241-253, :337-392).
SleepIsConfirmed ==
  [][/\ cmdOut'.kind = "sleep" =>
          /\ cmdArm.live /\ cmdArm.age < CmdWindow
          /\ CmdConfirms(cmdOut'.from, cmdArm.nonce)
          /\ cmdOut'.value = CmdDecimal(cmdArm.ms)
     /\ cmdOut'.kind # "none" =>
          CmdGenuine(cmdOut'.from) /\ cmdOut'.kind \notin cmdArm.executed]_cmdVars
=============================================================================
