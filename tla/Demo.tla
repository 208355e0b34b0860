-------------------------------- MODULE Demo --------------------------------
(***************************************************************************)
(* The demo application's two actors (apps/demo/ev_demo_policy.c) and what *)
(* they show (ev_demo_presentation.c): the application actor moves a block *)
(* of text over the display, pauses it on a button and lights a LED while  *)
(* it is paused; the diagnostics actor sends it a snapshot every second.   *)
(*                                                                         *)
(* Scenes and snapshots travel in slots of one small lease pool, APP to    *)
(* OLED and DIAG to APP.  A slot counts its references: the handle, the    *)
(* message being published and the message in the receiver's mailbox.      *)
(* Every failing handler restarts the device.                              *)
(***************************************************************************)
EXTENDS Naturals, Sequences

CONSTANTS
  DmSlots,        \* EV_DEMO_APP_LEASE_SLOTS
  DmMailbox,      \* EV_MAILBOX_FIFO_8
  DmMasks,        \* the hardware SYSTEM_READY may announce
  DmColumns,      \* EV_DEMO_APP_OLED_MAX_COLUMN_OFFSET
  DmPages,        \* EV_DEMO_APP_OLED_MAX_PAGE_OFFSET
  DmMod           \* 2^32

ASSUME DmAssumption ==
  /\ DmSlots \in Nat /\ DmMailbox \in Nat \ {0} /\ DmMod \in Nat \ {0, 1}
  /\ DmColumns \in Nat /\ DmPages \in Nat

VARIABLES
  dm,             \* the states of both actors
  dmAppBox, dmDiagBox, dmOledBox,   \* their mailboxes and the display's
  dmRefs, dmData, \* the pool: references and contents of each slot
  dmShown,        \* the scene the display took last
  dmLed,          \* the LED, as the expander was last told since the boot
  dmEarly,        \* the button was pressed before the system was ready
  dmFailed        \* a handler or a publisher failed

dmPool == <<dmRefs, dmData>>
dmWorld == <<dmShown, dmLed, dmEarly>>
dmVars == <<dm, dmAppBox, dmDiagBox, dmOledBox, dmPool, dmWorld, dmFailed>>

DmAxis == [at |-> 0, up |-> TRUE]

DmFresh == [booted |-> FALSE, ready |-> FALSE, hw |-> {}, column |-> DmAxis, page |-> DmAxis,
            visible |-> FALSE, paused |-> FALSE, sent |-> 0, seen |-> 0]

DmNothing == [column |-> 0, page |-> 0]

\* ev_demo_app_init
DmInit ==
  /\ dm = DmFresh
  /\ dmAppBox = << >> /\ dmDiagBox = << >> /\ dmOledBox = << >>
  /\ dmRefs = [s \in 1 .. DmSlots |-> 0] /\ dmData = [s \in 1 .. DmSlots |-> DmNothing]
  /\ dmShown = DmNothing /\ dmLed = FALSE /\ dmEarly = FALSE /\ dmFailed = FALSE

\* ev_demo_app_publish_boot
DmBoot ==
  /\ ~dm.booted
  /\ dm' = [dm EXCEPT !.booted = TRUE]
  /\ dmDiagBox' = Append(dmDiagBox, "LOGGED") /\ dmAppBox' = Append(dmAppBox, [kind |-> "BOOT"])
  /\ UNCHANGED <<dmOledBox, dmPool, dmWorld, dmFailed>>

\* ev_demo_app_publish_tick: one message, two receivers.
DmTickPublished ==
  /\ dm.booted /\ ~dmFailed
  /\ IF Len(dmDiagBox) < DmMailbox /\ Len(dmAppBox) < DmMailbox
       THEN /\ dmDiagBox' = Append(dmDiagBox, "TICK")
            /\ dmAppBox' = Append(dmAppBox, [kind |-> "TICK"])
            /\ UNCHANGED dmFailed
       ELSE dmFailed' = TRUE /\ UNCHANGED <<dmDiagBox, dmAppBox>>
  /\ UNCHANGED <<dm, dmOledBox, dmPool, dmWorld>>

\* The hardware announced so far, which only grows.
DmAnnounced ==
  dm.hw \cup UNION {dmAppBox[i].hw : i \in {j \in 1 .. Len(dmAppBox) : dmAppBox[j].kind = "READY"}}

\* The supervisor announces hardware, or the panel a button.
DmArrives ==
  /\ dm.booted /\ ~dmFailed
  /\ \E m \in [kind : {"READY"}, hw : {h \in DmMasks : DmAnnounced \subseteq h}]
                 \cup [kind : {"SHORT"}] :
       IF Len(dmAppBox) < DmMailbox
         THEN dmAppBox' = Append(dmAppBox, m) /\ UNCHANGED dmFailed
         ELSE dmFailed' = TRUE /\ UNCHANGED dmAppBox
  /\ UNCHANGED <<dm, dmDiagBox, dmOledBox, dmPool, dmWorld>>

(***************************************************************************)
(* A publication in a lease: acquire, fill, attach to the message, publish *)
(* and dispose of it, release the handle.  The receiver's copy of the      *)
(* message is what remains, if its mailbox had room.                       *)
(***************************************************************************)
\* Faulty variant: a refused publication keeps its handle.
DmLeaseKept(box, content, slot) ==
  /\ dmData' = [dmData EXCEPT ![slot] = content]
  /\ dmRefs' = [dmRefs EXCEPT ![slot] = 1]
  /\ box' = IF Len(box) < DmMailbox THEN Append(box, [kind |-> "LEASE", slot |-> slot]) ELSE box
  /\ dmFailed' = (Len(box) >= DmMailbox)

DmLease(box, content, slot) ==
  LET posted == IF Len(box) < DmMailbox THEN 1 ELSE 0
      handle == 1
      message == 1
  IN  /\ dmData' = [dmData EXCEPT ![slot] = content]
      /\ dmRefs' = [dmRefs EXCEPT ![slot] = handle + message + posted - message - handle]
      /\ box' = IF posted = 1 THEN Append(box, [kind |-> "LEASE", slot |-> slot]) ELSE box
      /\ dmFailed' = (posted = 0)

\* ev_lease_pool_acquire takes the first free slot, or there is none.
DmFree == {s \in 1 .. DmSlots : dmRefs[s] = 0}

DmPublish(box, content) ==
  IF DmFree # {}
    THEN DmLease(box, content, CHOOSE s \in DmFree : \A t \in DmFree : s <= t)
    ELSE dmFailed' = TRUE /\ UNCHANGED <<box, dmPool>>

(***************************************************************************)
(* The diagnostics actor.  The messages it only logs are one kind.         *)
(***************************************************************************)
\* ev_demo_app_publish_snapshot
DmSnapshot ==
  /\ DmPublish(dmAppBox, [seq |-> (dm.sent + 1) % DmMod])
  /\ dm' = IF dmFailed' THEN dm ELSE [dm EXCEPT !.sent = (@ + 1) % DmMod]

\* ev_demo_diag_actor_handle; a tick reads the clock first, which may fail.
DmDiag ==
  /\ dmDiagBox # << >> /\ ~dmFailed
  /\ \/ Head(dmDiagBox) = "LOGGED" /\ UNCHANGED <<dm, dmAppBox, dmPool, dmFailed>>
     \/ Head(dmDiagBox) \in {"TICK", "REQUEST"} /\ DmSnapshot
     \/ /\ Head(dmDiagBox) = "TICK"
        /\ dmFailed' = TRUE /\ UNCHANGED <<dm, dmAppBox, dmPool>>
  /\ dmDiagBox' = Tail(dmDiagBox)
  /\ UNCHANGED <<dmOledBox, dmWorld>>

(***************************************************************************)
(* The application actor.                                                  *)
(***************************************************************************)
\* ev_demo_app_screensaver_step_axis, with the direction as a Boolean.
\* Faulty variant: the edge is noticed one step late.
DmStepLate(axis, max) ==
  CASE max = 0 -> DmAxis
    [] max > 0 /\ axis.up /\ axis.at <= max -> [axis EXCEPT !.at = @ + 1]
    [] max > 0 /\ axis.up /\ axis.at > max -> [at |-> axis.at - 1, up |-> FALSE]
    [] max > 0 /\ ~axis.up /\ axis.at = 0 -> [at |-> 1, up |-> TRUE]
    [] OTHER -> [axis EXCEPT !.at = @ - 1]

DmStep(axis, max) ==
  CASE max = 0 -> DmAxis
    [] max > 0 /\ axis.up /\ axis.at < max -> [axis EXCEPT !.at = @ + 1]
    [] max > 0 /\ axis.up /\ axis.at >= max -> [at |-> axis.at - 1, up |-> FALSE]
    [] max > 0 /\ ~axis.up /\ axis.at = 0 -> [at |-> 1, up |-> TRUE]
    [] OTHER -> [axis EXCEPT !.at = @ - 1]

DmScene(state) == [column |-> state.column.at, page |-> state.page.at]

\* ev_demo_app_render_oled_frame, with the actor in the given state; what the
\* frame says beside its place is left out.
DmRender(state) ==
  IF state.ready /\ "OLED" \in state.hw
    THEN dm' = [state EXCEPT !.visible = TRUE] /\ DmPublish(dmOledBox, DmScene(state))
    ELSE dm' = state /\ UNCHANGED <<dmOledBox, dmPool, dmFailed>>

\* EV_BOOT_COMPLETED
DmAppBoot ==
  /\ dm' = [DmFresh EXCEPT !.booted = dm.booted, !.sent = dm.sent, !.seen = dm.seen]
  /\ UNCHANGED <<dmDiagBox, dmOledBox, dmPool, dmLed, dmEarly, dmFailed>>

\* The mask of EV_SYSTEM_READY.  The first one turns the LEDs off and asks for a
\* snapshot; each of these may be refused, and then nothing follows it.
DmAppReady(hw) ==
  LET state == [dm EXCEPT !.ready = TRUE, !.hw = hw]
      first == ~dm.ready
      leds == first /\ "MCP23008" \in hw
  IN  \/ /\ leds
         /\ dm' = state /\ dmFailed' = TRUE
         /\ UNCHANGED <<dmDiagBox, dmOledBox, dmPool, dmLed, dmEarly>>
      \/ /\ first /\ Len(dmDiagBox) >= DmMailbox
         /\ dm' = state /\ dmFailed' = TRUE
         /\ dmLed' = (dmLed /\ ~leds)
         /\ UNCHANGED <<dmDiagBox, dmOledBox, dmPool, dmEarly>>
      \/ /\ first => Len(dmDiagBox) < DmMailbox
         /\ dmLed' = (dmLed /\ ~leds)
         /\ dmDiagBox' = IF first THEN Append(dmDiagBox, "REQUEST") ELSE dmDiagBox
         /\ DmRender(state)
         /\ UNCHANGED dmEarly

\* EV_TICK_1S
DmAppTick ==
  /\ IF dm.ready
       THEN DmRender(IF dm.paused THEN dm
                     ELSE [dm EXCEPT !.column = DmStep(@, DmColumns), !.page = DmStep(@, DmPages)])
       ELSE UNCHANGED <<dm, dmOledBox, dmPool, dmFailed>>
  /\ UNCHANGED <<dmDiagBox, dmLed, dmEarly>>

\* EV_BUTTON_EVENT with the button that pauses; the others change nothing.
DmAppShort ==
  /\ dm' = [dm EXCEPT !.paused = ~@]
  /\ \/ dmLed' = ~dm.paused /\ UNCHANGED dmFailed
     \/ dmFailed' = TRUE /\ UNCHANGED dmLed
  /\ dmEarly' = ~dm.ready
  /\ UNCHANGED <<dmDiagBox, dmOledBox, dmPool>>

\* EV_DIAG_SNAPSHOT_RSP; the runtime disposes of the message after the handler.
DmAppSnapshot(slot) ==
  /\ dm' = [dm EXCEPT !.seen = dmData[slot].seq]
  /\ dmRefs' = [dmRefs EXCEPT ![slot] = @ - 1]
  /\ UNCHANGED <<dmDiagBox, dmOledBox, dmData, dmLed, dmEarly, dmFailed>>

\* ev_demo_app_actor_handle
DmApp ==
  /\ dmAppBox # << >> /\ ~dmFailed
  /\ LET m == Head(dmAppBox) IN
       \/ m.kind = "BOOT" /\ DmAppBoot
       \/ m.kind = "READY" /\ DmAppReady(m.hw)
       \/ m.kind = "TICK" /\ DmAppTick
       \/ m.kind = "SHORT" /\ DmAppShort
       \/ m.kind = "LEASE" /\ DmAppSnapshot(m.slot)
  /\ dmAppBox' = Tail(dmAppBox)
  /\ UNCHANGED dmShown

\* The display actor takes a scene; what it does with it is in Oled.
DmOled ==
  /\ dmOledBox # << >> /\ ~dmFailed
  /\ dmShown' = dmData[Head(dmOledBox).slot]
  /\ dmRefs' = [dmRefs EXCEPT ![Head(dmOledBox).slot] = @ - 1]
  /\ dmOledBox' = Tail(dmOledBox)
  /\ UNCHANGED <<dm, dmAppBox, dmDiagBox, dmData, dmLed, dmEarly, dmFailed>>

\* A failed handler restarts the device; the expander is then configured with its
\* LEDs off.
DmRestart ==
  /\ dmFailed
  /\ dm' = DmFresh
  /\ dmAppBox' = << >> /\ dmDiagBox' = << >> /\ dmOledBox' = << >>
  /\ dmRefs' = [s \in 1 .. DmSlots |-> 0] /\ dmData' = [s \in 1 .. DmSlots |-> DmNothing]
  /\ dmShown' = DmNothing /\ dmLed' = FALSE /\ dmEarly' = FALSE /\ dmFailed' = FALSE

DmNext ==
  \/ DmBoot \/ DmTickPublished \/ DmArrives
  \/ DmDiag \/ DmApp \/ DmOled \/ DmRestart

DmSpec == DmInit /\ [][DmNext]_dmVars

-----------------------------------------------------------------------------

\* The queued messages that carry a slot.
DmCarriers(s) ==
  {<<"app", i>> : i \in {j \in 1 .. Len(dmAppBox) :
                           dmAppBox[j].kind = "LEASE" /\ dmAppBox[j].slot = s}}
    \cup {<<"oled", i>> : i \in {j \in 1 .. Len(dmOledBox) : dmOledBox[j].slot = s}}

\* A slot is in use exactly while a message in a mailbox carries it, after the
\* failing publications as well (a mailbox without room, a refused command, a
\* pool without a slot): the four slots that scenes and snapshots share never
\* leak, and no two messages share one (ev_demo_app.c:206-239,
\* ev_demo_policy.c:28-74).
SlotsAreQueued ==
  \A s \in 1 .. DmSlots :
    /\ dmRefs[s] = 0 <=> DmCarriers(s) = {}
    /\ dmRefs[s] <= 1
    /\ \A c, d \in DmCarriers(s) : c = d

\* What the user sees follows the actor.  The block never leaves the display;
\* when no scene waits the display has the actor's place, with slots reused
\* meanwhile; the LED is on exactly while the movement is paused, unless the
\* button was pressed before SYSTEM_READY, which turns the LED off; and when no
\* snapshot waits the actor has the last one sent (ev_demo_policy.c:95-259).
PanelTellsTruth ==
  ~dmFailed =>
    /\ dm.column.at <= DmColumns /\ dm.page.at <= DmPages
    /\ dm.visible /\ dmOledBox = << >> => dmShown = DmScene(dm)
    /\ dmLed = dm.paused \/ dmEarly
    /\ (\A i \in 1 .. Len(dmAppBox) : dmAppBox[i].kind # "LEASE") => dm.seen = dm.sent
=============================================================================
