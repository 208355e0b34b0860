------------------------------ MODULE Telemetry ------------------------------
(***************************************************************************)
(* Publishing to the broker: the network actor's telemetry and transmit    *)
(* command (actors/framework/ev_network_actor.c) over the adapter's        *)
(* publish functions (ev_net_adapter.c).                                   *)
(*                                                                         *)
(* The actor goes by the state it last heard of, the adapter by the flag   *)
(* its callbacks maintain, and the client by its session.  The adapter     *)
(* reads its flag under the lock and calls the client after it, so the     *)
(* MQTT task may run between the two.                                      *)
(*                                                                         *)
(* Topics and bodies are constants and numbers that fit their buffers: the *)
(* code's checks of their sizes cannot fail here, nor can the adapter call *)
(* them invalid.                                                           *)
(***************************************************************************)
EXTENDS Naturals

CONSTANTS
  TlKinds,        \* temperature, time, inputs and light
  TlInterval,     \* EV_NETWORK_TELEMETRY_MIN_INTERVAL_TICKS
  TlMod,          \* 2^32
  TlMessages      \* bound on the messages the actor is given to publish

ASSUME TlAssumption ==
  /\ TlInterval \in Nat \ {0} /\ TlMod \in Nat /\ TlMod > TlInterval
  /\ TlMessages \in Nat /\ "tx" \notin TlKinds

\* EV_NETWORK_TELEMETRY_TICK_NEVER, which is UINT32_MAX
TlNever == TlMod - 1

VARIABLES
  tl,             \* ev_network_actor_ctx_t
  tlAdapter,      \* the adapter's flag and counters
  tlSession,      \* the client has a session
  tlNow,          \* the publication in progress
  tlAccepted,     \* messages the client accepted
  tlAge           \* ticks since it accepted one of a kind, up to a full lap

tlVars == <<tl, tlAdapter, tlSession, tlNow, tlAccepted, tlAge>>

TlIdle == [step |-> "idle"]

TlCounters == [seen |-> 0, sent |-> 0, disconnected |-> 0, limited |-> 0,
               tx_seen |-> 0, tx_rejected |-> 0, tx_attempts |-> 0, tx_ok |-> 0, tx_failed |-> 0]

\* ev_network_actor_init.  A build without MQTT support never reports a session,
\* so it publishes nothing; the one modelled has it.
TlInit ==
  /\ tl = [connected |-> FALSE, counter |-> 0, last |-> [k \in TlKinds |-> TlNever],
           stats |-> TlCounters]
  /\ tlAdapter = [connected |-> FALSE, attempts |-> 0, ok |-> 0, failed |-> 0]
  /\ tlSession = FALSE /\ tlNow = TlIdle /\ tlAccepted = 0
  /\ tlAge = [k \in TlKinds |-> TlMod]

(***************************************************************************)
(* The MQTT task, which runs between any two steps of the actor: the       *)
(* session opens or closes and the flag follows it.                        *)
(***************************************************************************)
TlSessionChanges ==
  /\ tlSession' = ~tlSession
  /\ UNCHANGED <<tl, tlAdapter, tlNow, tlAccepted, tlAge>>

TlFlagFollows ==
  /\ tlAdapter.connected # tlSession
  /\ tlAdapter' = [tlAdapter EXCEPT !.connected = tlSession]
  /\ UNCHANGED <<tl, tlSession, tlNow, tlAccepted, tlAge>>

(***************************************************************************)
(* The actor hears of the link later, after either change of the flag, and *)
(* misses a change whose event was dropped.                                *)
(***************************************************************************)
TlLinkHeard ==
  /\ tlNow = TlIdle
  /\ tl' = [tl EXCEPT !.connected = ~@]
  /\ UNCHANGED <<tlAdapter, tlSession, tlNow, tlAccepted, tlAge>>

\* EV_TICK_1S
TlTick ==
  /\ tlNow = TlIdle
  /\ tl' = [tl EXCEPT !.counter = (@ + 1) % TlMod]
  /\ tlAge' = [k \in TlKinds |-> IF tlAge[k] < TlMod THEN tlAge[k] + 1 ELSE TlMod]
  /\ UNCHANGED <<tlAdapter, tlSession, tlNow, tlAccepted>>

\* ev_network_telemetry_rate_limited
\* Faulty variant: the deadline is computed and compared, which a wrap breaks.
TlLimitedByDeadline(k) ==
  tl.last[k] # TlNever /\ tl.counter < tl.last[k] + TlInterval

TlLimited(k) ==
  tl.last[k] # TlNever /\ (tl.counter - tl.last[k] + TlMod) % TlMod < TlInterval

TlCount(state, field) == [state EXCEPT !.stats[field] = @ + 1]

\* ev_network_actor_handle_*_updated and _inputs_changed, up to the call of the
\* adapter.
TlMeasured(k) ==
  LET seen == TlCount(tl, "seen") IN
  /\ tlNow = TlIdle /\ tl.stats.seen + tl.stats.tx_seen < TlMessages
  /\ \/ ~tl.connected /\ tl' = TlCount(seen, "disconnected") /\ UNCHANGED tlNow
     \/ tl.connected /\ TlLimited(k) /\ tl' = TlCount(seen, "limited") /\ UNCHANGED tlNow
     \/ /\ tl.connected /\ ~TlLimited(k)
        /\ tl' = seen /\ tlNow' = [step |-> "snapshot", for |-> k]
  /\ UNCHANGED <<tlAdapter, tlSession, tlAccepted, tlAge>>

\* ev_network_actor_handle_tx, up to the call of the adapter.
TlTransmit ==
  LET seen == TlCount(tl, "tx_seen") IN
  /\ tlNow = TlIdle /\ tl.stats.seen + tl.stats.tx_seen < TlMessages
  /\ \/ ~tl.connected /\ tl' = TlCount(seen, "tx_rejected") /\ UNCHANGED tlNow
     \/ /\ tl.connected
        /\ tl' = TlCount(seen, "tx_attempts") /\ tlNow' = [step |-> "snapshot", for |-> "tx"]
  /\ UNCHANGED <<tlAdapter, tlSession, tlAccepted, tlAge>>

(***************************************************************************)
(* ev_esp8266_net_publish_mqtt_view_fn and _publish_mqtt_fn: the snapshot  *)
(* of the flags, then the client, which accepts a message only while it    *)
(* has a session and may refuse one then.                                  *)
(***************************************************************************)
TlSnapshot ==
  /\ tlNow.step = "snapshot"
  /\ \/ /\ ~tlAdapter.connected
        /\ tlNow' = [tlNow EXCEPT !.step = "STATE"]
        /\ tlAdapter' = [tlAdapter EXCEPT !.attempts = @ + 1, !.failed = @ + 1]
     \/ /\ tlAdapter.connected
        /\ tlNow' = [tlNow EXCEPT !.step = "client"]
        /\ tlAdapter' = [tlAdapter EXCEPT !.attempts = @ + 1]
  /\ UNCHANGED <<tl, tlSession, tlAccepted, tlAge>>

TlClient ==
  /\ tlNow.step = "client"
  /\ \/ /\ tlSession
        /\ tlNow' = [tlNow EXCEPT !.step = "OK"]
        /\ tlAdapter' = [tlAdapter EXCEPT !.ok = @ + 1]
        /\ tlAccepted' = tlAccepted + 1
        /\ tlAge' = [k \in TlKinds |-> IF k = tlNow.for THEN 0 ELSE tlAge[k]]
     \/ /\ tlNow' = [tlNow EXCEPT !.step = "STATE"]
        /\ tlAdapter' = [tlAdapter EXCEPT !.failed = @ + 1]
        /\ UNCHANGED <<tlAccepted, tlAge>>
  /\ UNCHANGED <<tl, tlSession>>

\* ev_network_publish_telemetry, after the adapter returned.
TlTelemetryDone ==
  CASE tlNow.step = "OK" -> [TlCount(tl, "sent") EXCEPT !.last[tlNow.for] = tl.counter]
    [] OTHER -> TlCount(tl, "disconnected")

\* The end of the handler.  A refused transmit command fails it, and the device
\* restarts.
TlReturned ==
  /\ tlNow.step \in {"OK", "STATE"}
  /\ tl' = IF tlNow.for # "tx" THEN TlTelemetryDone
           ELSE TlCount(tl, IF tlNow.step = "OK" THEN "tx_ok" ELSE "tx_failed")
  /\ tlNow' = IF tlNow.for = "tx" /\ tlNow.step # "OK" THEN [step |-> "failed"] ELSE TlIdle
  /\ UNCHANGED <<tlAdapter, tlSession, tlAccepted, tlAge>>

TlRestart ==
  /\ tlNow.step = "failed"
  /\ tl' = [connected |-> FALSE, counter |-> 0, last |-> [k \in TlKinds |-> TlNever],
            stats |-> TlCounters]
  /\ tlAdapter' = [connected |-> FALSE, attempts |-> 0, ok |-> 0, failed |-> 0]
  /\ tlSession' = FALSE /\ tlNow' = TlIdle /\ tlAccepted' = 0
  /\ tlAge' = [k \in TlKinds |-> TlMod]

TlNext ==
  \/ TlSessionChanges \/ TlFlagFollows \/ TlLinkHeard \/ TlTick
  \/ (\E k \in TlKinds : TlMeasured(k)) \/ TlTransmit
  \/ TlSnapshot \/ TlClient \/ TlReturned \/ TlRestart

TlSpec == TlInit /\ [][TlNext]_tlVars

-----------------------------------------------------------------------------

\* Between publications every message is accounted for once: telemetry is sent
\* or dropped for one reason, a command is rejected, accepted or failed; and the
\* actor, the adapter and the client agree on how many got through, although
\* session and flag change while they publish.
TlReconciled ==
  tlNow.step \in {"idle", "failed"} =>
    /\ tl.stats.seen = tl.stats.sent + tl.stats.disconnected + tl.stats.limited
    /\ tl.stats.tx_seen = tl.stats.tx_rejected + tl.stats.tx_attempts
    /\ tl.stats.tx_attempts = tl.stats.tx_ok + tl.stats.tx_failed
    /\ tlAdapter.attempts = tlAdapter.ok + tlAdapter.failed
    /\ tl.stats.sent + tl.stats.tx_ok = tlAdapter.ok /\ tlAdapter.ok = tlAccepted

\* A kind is accepted again only TlInterval ticks after it was, and limited only
\* within them.  The counter's wrap leaves two exceptions: what was sent at the
\* tick that means never does not limit, and a full lap later it limits again.
TlSpaced ==
  \A k \in TlKinds :
    /\ tlAge'[k] = 0 /\ tlAccepted' > tlAccepted /\ tlNow.for = k =>
         tlAge[k] >= TlInterval \/ tl.last[k] = TlNever
    /\ TlMeasured(k) /\ tl'.stats.limited > tl.stats.limited =>
         tlAge[k] < TlInterval \/ tlAge[k] = TlMod

\* Telemetry is reported as it happened (ev_network_actor.c:17-112): nothing is
\* lost from the counters, and the rate limit holds across the counter's wrap.
TelemetryTellsTruth == [](TlReconciled) /\ [][TlSpaced]_tlVars
=============================================================================
