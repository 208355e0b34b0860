------------------------------- MODULE NetLink -------------------------------
(***************************************************************************)
(* The network link: the ESP8266 adapter (ev_net_adapter.c), whose         *)
(* callbacks run in the SDK's Wi-Fi and MQTT tasks, the ingress ring, and  *)
(* the network actor's connection state (ev_network_actor.c), which learns *)
(* of the link from the ring only.                                         *)
(*                                                                         *)
(* A callback first updates the adapter's flags under the lock and then    *)
(* pushes its events, each under the lock again, so the two tasks and the  *)
(* poll loop interleave between these steps.                               *)
(*                                                                         *)
(* ap, radio and session are the world outside: the access point, the      *)
(* SDK's station and the MQTT client's session.                            *)
(***************************************************************************)
EXTENDS Naturals, Sequences

CONSTANTS
  NetRingCapacity,  \* EV_NET_INGRESS_RING_CAPACITY
  Window,        \* EV_ESP8266_NET_RECONNECT_MIN_INTERVAL, in clock steps
  Prompt         \* the SDK may report a disconnection within the window

ASSUME NetLinkAssumption ==
  NetRingCapacity \in Nat \ {0} /\ Window \in Nat \ {0} /\ Prompt \in BOOLEAN

VARIABLES
  ap,              \* an access point accepts the station
  radio,           \* the SDK's station
  session,         \* the MQTT client's session
  wifi_connected, mqtt_connected,   \* the adapter's flags
  since,           \* time since the last reconnection, up to Window
  wifiTodo,        \* what the Wi-Fi callback has left to do
  mqttTodo,        \* what the MQTT callback has left to do
  ingress_ring,            \* the ingress ring
  lost,            \* a link event found the ring full
  actor            \* the network actor's state

external == <<ap, radio, session>>
adapter == <<wifi_connected, mqtt_connected, since>>
netVars == <<external, adapter, wifiTodo, mqttTodo, ingress_ring, lost, actor>>

LinkEvents == {"WIFI_UP", "WIFI_DOWN", "MQTT_UP", "MQTT_DOWN"}
Events == LinkEvents \cup {"MQTT_MSG_RX"}

If(condition, step) == IF condition THEN <<step>> ELSE << >>

\* ev_esp8266_net_start_fn has asked for a connection; no reconnection was
\* tried yet, which the code writes as last_reconnect_attempt_us = 0.
NetInit ==
  /\ ap \in BOOLEAN
  /\ radio = "connecting"
  /\ session = "none"
  /\ wifi_connected = FALSE
  /\ mqtt_connected = FALSE
  /\ since = Window
  /\ wifiTodo = << >>
  /\ mqttTodo = << >>
  /\ ingress_ring = << >>
  /\ lost = FALSE
  /\ actor = "DISCONNECTED"

(***************************************************************************)
(* ev_esp8266_net_push_event: a full ring drops the newest event.          *)
(***************************************************************************)
Push(event) ==
  IF Len(ingress_ring) < NetRingCapacity
    THEN ingress_ring' = Append(ingress_ring, event) /\ UNCHANGED lost
    ELSE lost' = (lost \/ event \in LinkEvents) /\ UNCHANGED ingress_ring

(***************************************************************************)
(* The Wi-Fi task.  GotIp and Disconnected are the event arriving and the  *)
(* locked part of its handler; the rest of the handler is in wifiTodo.     *)
(***************************************************************************)
GotIp ==
  /\ wifiTodo = << >>
  /\ ap /\ radio \in {"connecting", "up"}
  /\ radio' = "up"
  /\ wifi_connected' = TRUE
  /\ wifiTodo' = If(~wifi_connected, "WIFI_UP")
  /\ UNCHANGED <<ap, session, mqtt_connected, since, mqttTodo, ingress_ring, lost, actor>>

\* Faulty variant: only the loss of an established link is answered.
WifiDownStepsOnce ==
  If(mqtt_connected, "MQTT_DOWN")
    \o If(wifi_connected, "WIFI_DOWN")
    \o If(wifi_connected /\ since = Window, "connect")

WifiDownSteps ==
  If(mqtt_connected, "MQTT_DOWN")
    \o If(wifi_connected, "WIFI_DOWN")
    \o If(since = Window, "connect")

\* A failed attempt to connect is reported like a lost link.
Disconnected ==
  /\ wifiTodo = << >>
  /\ radio \in {"connecting", "up"}
  /\ Prompt \/ since = Window
  /\ radio' = "idle"
  /\ session' = IF session = "open" THEN "lost" ELSE session
  /\ wifi_connected' = FALSE
  /\ mqtt_connected' = FALSE
  /\ since' = IF since = Window THEN 0 ELSE since
  /\ wifiTodo' = WifiDownSteps
  /\ UNCHANGED <<ap, mqttTodo, ingress_ring, lost, actor>>

WifiStep ==
  /\ wifiTodo # << >>
  /\ wifiTodo' = Tail(wifiTodo)
  /\ IF Head(wifiTodo) = "connect"
       THEN radio' = "connecting" /\ UNCHANGED <<ingress_ring, lost>>
       ELSE Push(Head(wifiTodo)) /\ UNCHANGED radio
  /\ UNCHANGED <<ap, session, adapter, mqttTodo, actor>>

(***************************************************************************)
(* The MQTT task: the client opens or loses its session, or receives data, *)
(* and calls the handler.                                                  *)
(***************************************************************************)
MqttEvent ==
  /\ mqttTodo = << >>
  /\ \/ /\ session = "none" /\ radio = "up"
        /\ session' = "open"
        /\ mqttTodo' = <<"note_mqtt_up">>
     \/ /\ session' = "none"
        /\ mqttTodo' = <<"note_mqtt_down">>
     \/ /\ session = "open"
        /\ mqttTodo' = <<"MQTT_MSG_RX">>
        /\ UNCHANGED session
  /\ UNCHANGED <<ap, radio, adapter, wifiTodo, ingress_ring, lost, actor>>

note_mqtt_up ==
  /\ mqtt_connected' = TRUE
  /\ mqttTodo' = If(~mqtt_connected, "MQTT_UP")

\* Faulty variant: the event is pushed, the flag stays.
note_mqtt_down_keeps ==
  /\ mqttTodo' = If(mqtt_connected, "MQTT_DOWN")
  /\ UNCHANGED mqtt_connected

note_mqtt_down ==
  /\ mqtt_connected' = FALSE
  /\ mqttTodo' = If(mqtt_connected, "MQTT_DOWN")

MqttStep ==
  /\ mqttTodo # << >>
  /\ CASE Head(mqttTodo) = "note_mqtt_up" -> note_mqtt_up /\ UNCHANGED <<ingress_ring, lost>>
       [] Head(mqttTodo) = "note_mqtt_down" -> note_mqtt_down /\ UNCHANGED <<ingress_ring, lost>>
       [] OTHER -> /\ Push(Head(mqttTodo))
                   /\ mqttTodo' = Tail(mqttTodo)
                   /\ UNCHANGED mqtt_connected
  /\ UNCHANGED <<external, wifi_connected, since, wifiTodo, actor>>

(***************************************************************************)
(* The poll loop takes one event off the ring and the actor handles it.    *)
(* The mailbox between the two keeps their order.                          *)
(***************************************************************************)
\* Faulty variant: a session is entered from WIFI_UP only.
HandledByDiagram(event) ==
  CASE event = "WIFI_UP" -> IF actor = "DISCONNECTED" THEN "WIFI_UP" ELSE actor
    [] event = "WIFI_DOWN" -> "DISCONNECTED"
    [] event = "MQTT_UP" -> IF actor = "WIFI_UP" THEN "MQTT_CONNECTED" ELSE actor
    [] event = "MQTT_DOWN" -> "WIFI_UP"
    [] OTHER -> actor

Handled(event) ==
  CASE event = "WIFI_UP" -> IF actor = "DISCONNECTED" THEN "WIFI_UP" ELSE actor
    [] event = "WIFI_DOWN" -> "DISCONNECTED"
    [] event = "MQTT_UP" -> "MQTT_CONNECTED"
    [] event = "MQTT_DOWN" -> "WIFI_UP"
    [] OTHER -> actor

NetPoll ==
  /\ ingress_ring # << >>
  /\ actor' = Handled(Head(ingress_ring))
  /\ ingress_ring' = Tail(ingress_ring)
  /\ UNCHANGED <<external, adapter, wifiTodo, mqttTodo, lost>>

ApChanges ==
  /\ ap' = ~ap
  /\ UNCHANGED <<radio, session, adapter, wifiTodo, mqttTodo, ingress_ring, lost, actor>>

NetTick ==
  /\ since < Window
  /\ since' = since + 1
  /\ UNCHANGED <<external, wifi_connected, mqtt_connected, wifiTodo, mqttTodo,
                 ingress_ring, lost, actor>>

NetNext ==
  \/ GotIp \/ Disconnected \/ WifiStep
  \/ MqttEvent \/ MqttStep
  \/ NetPoll \/ ApChanges \/ NetTick

NetSpec == NetInit /\ [][NetNext]_netVars

(***************************************************************************)
(* Fairness: time passes, the tasks finish their callbacks, the poll loop  *)
(* runs, an attempt to connect has an outcome, and an access point that    *)
(* is there again and again lets one of the attempts succeed.              *)
(***************************************************************************)
NetFairness ==
  /\ WF_netVars(NetTick) /\ WF_netVars(WifiStep) /\ WF_netVars(MqttStep) /\ WF_netVars(NetPoll)
  /\ WF_netVars(radio = "connecting" /\ Disconnected)
  /\ SF_netVars(radio = "connecting" /\ GotIp)

NetFairSpec == NetSpec /\ NetFairness

(***************************************************************************)
(* Properties.                                                             *)
(***************************************************************************)

(* Types; and the ring never holds more than its capacity.                 *)
NetTypeOK ==
  /\ ap \in BOOLEAN /\ radio \in {"idle", "connecting", "up"}
  /\ session \in {"none", "open", "lost"}
  /\ wifi_connected \in BOOLEAN /\ mqtt_connected \in BOOLEAN
  /\ since \in 0 .. Window
  /\ wifiTodo \in Seq(LinkEvents \cup {"connect"}) /\ Len(wifiTodo) <= 3
  /\ mqttTodo \in Seq(Events \cup {"note_mqtt_up", "note_mqtt_down"})
  /\ Len(mqttTodo) <= 1
  /\ ingress_ring \in Seq(Events) /\ Len(ingress_ring) <= NetRingCapacity
  /\ lost \in BOOLEAN
  /\ actor \in {"DISCONNECTED", "WIFI_UP", "MQTT_CONNECTED"}

\* No callback is running, and the client knows of its lost session.
CallbacksDone == wifiTodo = << >> /\ mqttTodo = << >> /\ session # "lost"

(* Between callbacks the adapter's flags say what the SDK says, although   *)
(* both tasks write mqtt_connected: no order of ev_esp8266_net_note_*      *)
(* leaves a flag behind that no later event would correct.                 *)
FlagsTellTruth ==
  CallbacksDone =>
    /\ wifi_connected <=> radio = "up"
    /\ mqtt_connected <=> session = "open"

(* When every event was handled and none was dropped, the network actor is *)
(* never behind the adapter: with Wi-Fi it is not DISCONNECTED, and with a *)
(* session it is MQTT_CONNECTED, whichever task pushed its events first.   *)
ConnectionIsSeen ==
  CallbacksDone /\ ingress_ring = << >> /\ ~lost =>
    /\ wifi_connected => actor # "DISCONNECTED"
    /\ mqtt_connected => actor = "MQTT_CONNECTED"

(* docs/specs/wifi-reconnect-hil.md, phase recovery: when the access point *)
(* is restored for good, the link comes up.                                *)
Recovers == <>[]ap => []<>wifi_connected
=============================================================================
