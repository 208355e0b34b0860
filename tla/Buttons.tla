------------------------------- MODULE Buttons -------------------------------
(***************************************************************************)
(* The buttons and LEDs: the MCP23008 actor (actors/device/                *)
(* ev_mcp23008_actor.c), its port expander, and the panel actor            *)
(* (ev_panel_actor.c) that turns masks of pressed buttons into PRESS,      *)
(* RELEASE, SHORT and LONG for the application.  Both actors get the       *)
(* 100 ms tick, the panel first, and the MCP23008 actor's messages reach   *)
(* the panel behind the ticks already in its mailbox.                      *)
(*                                                                         *)
(* A mask is the set of its buttons or LEDs.  btHeard and btAbsorbed are   *)
(* history.                                                                *)
(***************************************************************************)
EXTENDS Integers, Sequences

CONSTANTS
  BtButtons,    \* EV_PANEL_BUTTON_COUNT buttons
  BtLeds,       \* EV_MCP23008_LED_MASK
  BtDebounce,   \* EV_PANEL_DEBOUNCE_TICKS
  BtLong,       \* EV_PANEL_LONG_PRESS_TICKS
  BtMailbox     \* EV_MAILBOX_FIFO_8

ASSUME BtAssumption == {BtDebounce, BtLong, BtMailbox} \subseteq Nat \ {0}

VARIABLES
  mcp,          \* ev_mcp23008_actor_ctx_t
  mcpTicks,     \* ticks in its mailbox
  mcpChip,      \* the expander: buttons held down, latched outputs
  panel,        \* ev_panel_actor_ctx_t
  panelBox,     \* its mailbox: a tick, or a mask
  btHeard,      \* what the application heard of each button
  btAbsorbed    \* the shadow was set by a configuration since the last mask

btVars == <<mcp, mcpTicks, mcpChip, panel, panelBox, btHeard, btAbsorbed>>

\* ev_mcp23008_actor_init.  `failed`: a handler returned an error.
McpFresh == [booted |-> FALSE, failed |-> FALSE, configured |-> FALSE,
             inputs_valid |-> FALSE, input_shadow |-> {}, output_shadow |-> {}]

\* ev_panel_actor_init: the raw mask, and for each button its bits and counters.
PanelFresh == [raw_valid |-> FALSE, raw |-> {},
               button |-> [b \in BtButtons |-> [stable |-> FALSE, debounce |-> 0,
                                                hold |-> 0, long |-> FALSE]]]

BtStart ==
  /\ mcp = McpFresh /\ mcpTicks = 0 /\ panel = PanelFresh /\ panelBox = << >>
  /\ btHeard = [b \in BtButtons |-> "up"] /\ btAbsorbed = FALSE

BtInit == mcpChip = [pressed |-> {}, olat |-> {}] /\ BtStart

\* The messages of the panel's mailbox.
BtTick == [tick |-> TRUE, pressed_mask |-> {}]
BtChanged(mask) == [tick |-> FALSE, pressed_mask |-> mask]

-----------------------------------------------------------------------------
(* The MCP23008 actor.                                                     *)

McpUnconfigured(m) == [m EXCEPT !.configured = FALSE, !.inputs_valid = FALSE]

\* A write of OLAT: acknowledged, or not and then latched or not.
McpWriteOlat(m, acked) ==
  \E latched \in {TRUE, acked} :
    mcpChip' = IF latched THEN [mcpChip EXCEPT !.olat = m.output_shadow] ELSE mcpChip

\* The three writes before OLAT, or OLAT, or the read of GPIO fails: not an
\* error, the next tick tries again.
McpConfigureFails(m) ==
  /\ mcp' = McpUnconfigured(m)
  /\ \/ UNCHANGED mcpChip
     \/ \E acked \in BOOLEAN : McpWriteOlat(m, acked)
  /\ UNCHANGED <<panelBox, btAbsorbed>>

\* EV_MCP23008_READY is refused: the handler fails.
McpReadyRefused(m) ==
  /\ McpWriteOlat(m, TRUE)
  /\ mcp' = [McpUnconfigured(m) EXCEPT !.failed = TRUE]
  /\ UNCHANGED <<panelBox, btAbsorbed>>

\* The buttons read become the shadow, and nobody is told of them.
McpConfigured(m, read) ==
  [m EXCEPT !.configured = TRUE, !.inputs_valid = TRUE, !.input_shadow = read]

McpAbsorbs(read) == read # mcp.input_shadow \/ btAbsorbed

\* ev_mcp23008_actor_try_configure, as the whole of EV_BOOT_COMPLETED.
McpBoot ==
  LET m == [mcp EXCEPT !.booted = TRUE]
  IN  /\ ~mcp.booted /\ ~mcp.failed
      /\ \/ McpConfigureFails(m)
         \/ McpReadyRefused(m)
         \/ /\ McpWriteOlat(m, TRUE)
            /\ mcp' = McpConfigured(m, mcpChip.pressed)
            /\ btAbsorbed' = McpAbsorbs(mcpChip.pressed)
            /\ UNCHANGED panelBox
      /\ UNCHANGED <<mcpTicks, panel, btHeard>>

\* The read of a configured expander: it fails, finds nothing new, or its mask
\* is kept and published; a refusal fails the handler.
McpReadGpio(m) ==
  \/ mcp' = McpUnconfigured(m) /\ UNCHANGED panelBox
  \/ /\ mcpChip.pressed = m.input_shadow
     /\ mcp' = m /\ UNCHANGED panelBox
  \/ /\ mcpChip.pressed # m.input_shadow
     /\ \/ /\ Len(panelBox) < BtMailbox
           /\ panelBox' = Append(panelBox, BtChanged(mcpChip.pressed))
           /\ mcp' = [m EXCEPT !.input_shadow = mcpChip.pressed]
        \/ /\ mcp' = [m EXCEPT !.input_shadow = mcpChip.pressed, !.failed = TRUE]
           /\ UNCHANGED panelBox

\* ev_mcp23008_actor_handle_tick.  An unconfigured expander is configured and
\* then read again; the buttons may move between the two reads.
McpTick ==
  /\ mcp.booted /\ ~mcp.failed
  /\ mcpTicks > 0 /\ mcpTicks' = mcpTicks - 1
  /\ \/ /\ mcp.configured
        /\ McpReadGpio(mcp)
        /\ btAbsorbed' = (btAbsorbed /\ panelBox' = panelBox)
        /\ UNCHANGED mcpChip
     \/ ~mcp.configured /\ McpConfigureFails(mcp)
     \/ ~mcp.configured /\ McpReadyRefused(mcp)
     \/ /\ ~mcp.configured
        /\ McpWriteOlat(mcp, TRUE)
        /\ \E read \in SUBSET BtButtons :
             /\ McpReadGpio(McpConfigured(mcp, read))
             /\ btAbsorbed' = (McpAbsorbs(read) /\ panelBox' = panelBox)
  /\ UNCHANGED <<panel, btHeard>>

\* Faulty variant: the result of the write is not looked at.
McpLedCmdTrusting ==
  /\ mcp.booted /\ ~mcp.failed
  /\ \E valid, value \in SUBSET BtLeds :
       LET m == [mcp EXCEPT !.output_shadow = (@ \ valid) \cup (value \cap valid)]
       IN  /\ mcp' = m
           /\ IF ~mcp.configured THEN UNCHANGED mcpChip
              ELSE \E acked \in BOOLEAN : McpWriteOlat(m, acked)
  /\ UNCHANGED <<mcpTicks, panel, panelBox, btHeard, btAbsorbed>>

\* ev_mcp23008_actor_handle_led_cmd: what cannot be written now is written by
\* the next configuration.
McpLedCmd ==
  /\ mcp.booted /\ ~mcp.failed
  /\ \E valid, value \in SUBSET BtLeds :
       LET m == [mcp EXCEPT !.output_shadow = (@ \ valid) \cup (value \cap valid)]
       IN  IF ~mcp.configured THEN mcp' = m /\ UNCHANGED mcpChip
           ELSE \E acked \in BOOLEAN :
                  /\ McpWriteOlat(m, acked)
                  /\ mcp' = IF acked THEN m ELSE McpUnconfigured(m)
  /\ UNCHANGED <<mcpTicks, panel, panelBox, btHeard, btAbsorbed>>

-----------------------------------------------------------------------------
(* The panel actor.                                                        *)

\* One button of ev_panel_actor_handle_tick.  The hold counter matters up to
\* BtLong, so it stops there.
PanelStep(raw, s) ==
  CASE raw # s.stable /\ s.debounce + 1 < BtDebounce ->
         [s EXCEPT !.debounce = @ + 1]
    [] raw # s.stable /\ s.debounce + 1 >= BtDebounce ->
         [stable |-> raw, debounce |-> 0, hold |-> 0, long |-> FALSE]
    [] raw = s.stable /\ ~raw -> [s EXCEPT !.debounce = 0]
    [] raw = s.stable /\ raw ->
         LET hold == IF s.hold < BtLong THEN s.hold + 1 ELSE BtLong
         IN  [s EXCEPT !.debounce = 0, !.hold = hold, !.long = @ \/ hold >= BtLong]

\* The button events of that step.
PanelEvents(s, t) ==
  CASE ~s.stable /\ t.stable -> << "PRESS" >>
    [] s.stable /\ ~t.stable /\ s.long -> << "RELEASE" >>
    [] s.stable /\ ~t.stable /\ ~s.long -> << "RELEASE", "SHORT" >>
    [] s.stable = t.stable /\ t.long /\ ~s.long -> << "LONG" >>
    [] OTHER -> << >>

\* What one event tells the application of a button.
BtHear(state, event) ==
  CASE state = "up" /\ event = "PRESS" -> "down"
    [] state = "down" /\ event = "LONG" -> "long"
    [] state = "down" /\ event = "RELEASE" -> "released"
    [] state = "released" /\ event = "SHORT" -> "up"
    [] state = "long" /\ event = "RELEASE" -> "up"
    [] OTHER -> "bad"

BtHearAll(state, events) ==
  CASE Len(events) = 0 -> state
    [] Len(events) = 1 -> BtHear(state, events[1])
    [] Len(events) = 2 -> BtHear(BtHear(state, events[1]), events[2])

\* ev_panel_actor_handle_tick; an event refused fails the handler.
PanelTick ==
  LET after == [b \in BtButtons |-> PanelStep(b \in panel.raw, panel.button[b])]
      events == [b \in BtButtons |-> PanelEvents(panel.button[b], after[b])]
  IN  /\ panelBox # << >> /\ Head(panelBox).tick /\ ~mcp.failed
      /\ panelBox' = Tail(panelBox)
      /\ \/ ~panel.raw_valid /\ UNCHANGED <<mcp, panel, btHeard>>
         \/ /\ panel.raw_valid
            /\ panel' = [panel EXCEPT !.button = after]
            /\ btHeard' = [b \in BtButtons |-> BtHearAll(btHeard[b], events[b])]
            /\ UNCHANGED mcp
         \/ /\ panel.raw_valid
            /\ \E b \in BtButtons : events[b] # << >>
            /\ mcp' = [mcp EXCEPT !.failed = TRUE]
            /\ UNCHANGED <<panel, btHeard>>
      /\ UNCHANGED <<mcpTicks, mcpChip, btAbsorbed>>

\* ev_panel_actor_handle_inputs_changed
PanelInputsChanged ==
  /\ panelBox # << >> /\ ~Head(panelBox).tick /\ ~mcp.failed
  /\ panel' = [panel EXCEPT !.raw = Head(panelBox).pressed_mask, !.raw_valid = TRUE]
  /\ panelBox' = Tail(panelBox)
  /\ UNCHANGED <<mcp, mcpTicks, mcpChip, btHeard, btAbsorbed>>

-----------------------------------------------------------------------------

\* EV_TICK_100MS is published to the panel and then to the MCP23008 actor; one
\* that refuses it fails the publisher.
BtTickPublished ==
  /\ mcp.booted /\ ~mcp.failed
  /\ IF Len(panelBox) < BtMailbox /\ mcpTicks < BtMailbox
       THEN /\ panelBox' = Append(panelBox, BtTick)
            /\ mcpTicks' = mcpTicks + 1
            /\ UNCHANGED mcp
       ELSE mcp' = [mcp EXCEPT !.failed = TRUE] /\ UNCHANGED <<panelBox, mcpTicks>>
  /\ UNCHANGED <<mcpChip, panel, btHeard, btAbsorbed>>

\* A finger.
BtFinger ==
  /\ \E b \in BtButtons :
       mcpChip' = [mcpChip EXCEPT !.pressed = IF b \in @ THEN @ \ {b} ELSE @ \cup {b}]
  /\ UNCHANGED <<mcp, mcpTicks, panel, panelBox, btHeard, btAbsorbed>>

\* A failed handler restarts the device; the expander keeps its outputs.
BtRestart ==
  /\ mcp.failed
  /\ mcp' = McpFresh /\ mcpTicks' = 0 /\ panel' = PanelFresh /\ panelBox' = << >>
  /\ btHeard' = [b \in BtButtons |-> "up"] /\ btAbsorbed' = FALSE
  /\ UNCHANGED mcpChip

BtNext ==
  \/ McpBoot \/ McpTick \/ McpLedCmd
  \/ PanelTick \/ PanelInputsChanged
  \/ BtTickPublished \/ BtFinger \/ BtRestart

BtSpec == BtInit /\ [][BtNext]_btVars

-----------------------------------------------------------------------------

\* The mask the panel has once it handled these messages: that of the last mask.
BtWillHave(box, raw) ==
  LET masks == {i \in DOMAIN box : ~box[i].tick}
      last == CHOOSE i \in masks : \A j \in masks : j <= i
  IN  IF masks = {} THEN raw ELSE box[last].pressed_mask

BtPanelWillHave == BtWillHave(panelBox, panel.raw)

\* Three views of the buttons agree, through bus errors at any write, retries,
\* full mailboxes and late ticks: what the application heard is a proper
\* sequence of PRESS, LONG, RELEASE and SHORT that ends in the panel's stable
\* mask (ev_panel_actor.c:77-130); the panel has or will get the shadow the
\* MCP23008 actor compares with, unless a configuration replaced it
\* (ev_mcp23008_actor.c:148, :210); and a configured expander drives the LEDs
\* last asked for (:233).
ButtonsAgree ==
  /\ \A b \in BtButtons :
       btHeard[b] = CASE ~panel.button[b].stable -> "up"
                      [] panel.button[b].stable /\ panel.button[b].long -> "long"
                      [] panel.button[b].stable /\ ~panel.button[b].long -> "down"
  /\ mcp.inputs_valid /\ ~btAbsorbed /\ ~mcp.failed => BtPanelWillHave = mcp.input_shadow
  /\ mcp.configured => mcpChip.olat = mcp.output_shadow

\* mcp23008_actor.h:23: a payload is "published when the normalized MCP23008
\* button state changes".  So once a first one was, the panel has or will get
\* the state the actor holds.
ChangesAreTold ==
  panel.raw_valid /\ mcp.inputs_valid /\ ~mcp.failed =>
    BtPanelWillHave = mcp.input_shadow
=============================================================================
