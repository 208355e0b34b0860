------------------------------- MODULE Startup -------------------------------
(***************************************************************************)
(* The supervisor actor (actors/framework/ev_supervisor_actor.c): it hears *)
(* READY from each device actor and tells the application, with            *)
(* SYSTEM_READY, which hardware there is, once the required devices        *)
(* answered or a tick of one second passed, and again when a device comes  *)
(* later.                                                                  *)
(*                                                                         *)
(* BOOT_COMPLETED is published to the supervisor and the device actors at  *)
(* once, so it lies in the supervisor's mailbox before any READY; READYs   *)
(* are published by the device actors' turns in any order, repeatedly.     *)
(***************************************************************************)
EXTENDS Naturals, Sequences

CONSTANTS
  SvHardware,     \* EV_SUPERVISOR_KNOWN_MASK, as a set
  SvConfigs,      \* the boards: records of required and optional masks
  SvMailbox,      \* EV_MAILBOX_FIFO_8
  SvSettle        \* EV_SUPERVISOR_BOOT_SETTLE_TICKS

ASSUME SvAssumption ==
  /\ SvMailbox \in Nat \ {0} /\ SvSettle \in Nat \ {0}
  /\ {"BOOT", "TICK"} \cap SvHardware = {}   \* a device is no other message

VARIABLES
  sv,             \* ev_supervisor_actor_ctx_t
  svBox,          \* its mailbox: "BOOT", "TICK", or the device that is READY
  svReady,        \* devices that published READY since the boot
  svTold          \* the mask of the last SYSTEM_READY

svVars == <<sv, svBox, svReady, svTold>>

\* ev_supervisor_actor_init; the board's masks are set before the boot.
SvFresh == [configured |-> FALSE, required |-> {}, known |-> {}, boot_observed |-> FALSE,
            published |-> FALSE, ticks |-> 0, active |-> {}, observed |-> {},
            failed |-> FALSE]

SvInit == sv = SvFresh /\ svBox = << >> /\ svReady = {} /\ svTold = {}

\* ev_supervisor_actor_configure_hardware, which refuses an unknown device and
\* a device that is both required and optional; then BOOT_COMPLETED is published.
SvConfigure ==
  /\ ~sv.configured
  /\ \E c \in SvConfigs :
       /\ c.required \cup c.optional \subseteq SvHardware
       /\ c.required \cap c.optional = {}
       /\ sv' = [sv EXCEPT !.configured = TRUE, !.required = c.required,
                           !.known = c.required \cup c.optional]
  /\ svBox' = Append(svBox, "BOOT")
  /\ UNCHANGED <<svReady, svTold>>

\* A message for the supervisor; a full mailbox fails its publisher.
SvSend(m) ==
  IF Len(svBox) < SvMailbox
    THEN svBox' = Append(svBox, m) /\ UNCHANGED sv
    ELSE sv' = [sv EXCEPT !.failed = TRUE] /\ UNCHANGED svBox

\* A device actor publishes READY: when it is configured, and again whenever
\* its device came back.
SvDeviceReady ==
  /\ sv.configured /\ ~sv.failed
  /\ \E d \in sv.known : SvSend(d) /\ svReady' = svReady \cup {d}
  /\ UNCHANGED svTold

\* EV_TICK_1S is published.
SvTickPublished ==
  /\ sv.configured /\ ~sv.failed
  /\ SvSend("TICK")
  /\ UNCHANGED <<svReady, svTold>>

\* ev_supervisor_actor_publish_system_ready: delivered, or refused by the
\* application, which fails the handler.
SvPublish(s) ==
  \/ sv' = s /\ svTold' = s.active
  \/ sv' = [s EXCEPT !.failed = TRUE] /\ UNCHANGED svTold

\* Faulty variant: the devices that did not answer are no longer waited for.
SvTryPublishFinal(s) ==
  IF s.boot_observed /\ ~s.published
       /\ (s.required \subseteq s.observed \/ s.ticks >= SvSettle)
    THEN SvPublish([s EXCEPT !.published = TRUE,
                             !.active = IF s.ticks >= SvSettle THEN s.known ELSE @])
    ELSE sv' = s /\ UNCHANGED svTold

\* ev_supervisor_actor_try_publish_if_settled
SvTryPublish(s) ==
  IF s.boot_observed /\ ~s.published
       /\ (s.required \subseteq s.observed \/ s.ticks >= SvSettle)
    THEN SvPublish([s EXCEPT !.published = TRUE,
                             !.observed = IF s.ticks >= SvSettle THEN @ \cup s.known ELSE @])
    ELSE sv' = s /\ UNCHANGED svTold

SvTake(m) ==
  /\ svBox # << >> /\ ~sv.failed
  /\ Head(svBox) = m
  /\ svBox' = Tail(svBox)
  /\ UNCHANGED svReady

\* EV_BOOT_COMPLETED
SvBoot ==
  /\ SvTake("BOOT")
  /\ sv' = [sv EXCEPT !.boot_observed = TRUE, !.published = FALSE, !.ticks = 0,
                      !.active = {}, !.observed = {}]
  /\ UNCHANGED svTold

\* ev_supervisor_actor_handle_ready
SvHandleReady ==
  \E d \in SvHardware :
    LET s == [sv EXCEPT !.active = @ \cup {d}, !.observed = @ \cup {d}]
    IN  /\ SvTake(d)
        /\ IF ~sv.published THEN SvTryPublish(s)
           ELSE IF d \notin sv.active THEN SvPublish(s)
           ELSE sv' = s /\ UNCHANGED svTold

\* EV_TICK_1S
SvTick ==
  /\ SvTake("TICK")
  /\ IF sv.boot_observed /\ ~sv.published
       THEN SvTryPublish([sv EXCEPT !.ticks = @ + 1])
       ELSE UNCHANGED <<sv, svTold>>

\* A failed handler restarts the device.
SvRestart ==
  /\ sv.failed
  /\ sv' = SvFresh /\ svBox' = << >> /\ svReady' = {} /\ svTold' = {}

SvNext ==
  \/ SvConfigure \/ SvDeviceReady \/ SvTickPublished
  \/ SvBoot \/ SvHandleReady \/ SvTick \/ SvRestart

-----------------------------------------------------------------------------

\* Devices whose READY still waits for the supervisor.
SvWaiting == {d \in SvHardware : \E i \in 1 .. Len(svBox) : svBox[i] = d}

\* No READY is forgotten and none is invented, in whatever order READYs, the
\* boot message and ticks are handled: once SYSTEM_READY was published, the
\* application was last told exactly the devices that published READY since
\* the boot, less those whose message still waits; and before it was, a tick
\* or a required device is still missing (ev_supervisor_actor.c:58-80, :82-102).
ReadinessIsTold ==
  sv.boot_observed /\ ~sv.failed =>
    /\ sv.published => svReady \ SvWaiting \subseteq svTold /\ svTold \subseteq svReady
    /\ ~sv.published => /\ sv.ticks < SvSettle
                        /\ ~(sv.required \subseteq svReady \ SvWaiting) \/ sv.required = {}
=============================================================================
