------------------------------ MODULE NetPayload ------------------------------
(***************************************************************************)
(* The MQTT messages too long to be copied into an event: their path from  *)
(* the adapter's payload slots (ev_net_adapter.c) through the ingress ring *)
(* and the publication in the main loop (ev_demo_app.c) to the mailboxes   *)
(* of the network and the command actor, which share the slot.             *)
(*                                                                         *)
(* The MQTT task is preempted between its locked sections; the main loop   *)
(* publishes and runs the actors, one at a time.  A message is named by    *)
(* its slot and the slot's generation when it was acquired; a message      *)
(* short enough for the event holds no slot and has slot 0.                *)
(***************************************************************************)
EXTENDS Integers, Sequences, FiniteSets, FiniteSetsExt

CONSTANTS
  NpSlotCount,   \* EV_NET_PAYLOAD_SLOT_COUNT
  NpGenMod,      \* number of values of a slot's generation
  NpRing,        \* EV_NET_INGRESS_RING_CAPACITY
  NpMailbox      \* length of an actor's mailbox

ASSUME NpAssumption ==
  /\ {NpSlotCount, NpRing, NpMailbox} \subseteq Nat \ {0}
  /\ NpGenMod \in Nat /\ NpGenMod > 2

VARIABLES
  np,        \* the slots, and the adapter's count of those in use
  npTask,    \* what the MQTT task is doing, and with which message
  npRing,    \* the ingress ring
  npMain,    \* what the main loop is doing, and with which message
  npBox      \* the mailboxes

npVars == <<np, npTask, npRing, npMain, npBox>>

NpSlots == 1 .. NpSlotCount
NpRoutes == <<"ACT_NETWORK", "ACT_COMMAND">>
NpActors == {NpRoutes[i] : i \in DOMAIN NpRoutes}
NpInline == [slot |-> 0, generation |-> 0]
NpIdle == [do |-> "idle", msg |-> NpInline]

NpInit ==
  /\ np = [slot |-> [i \in NpSlots |->
             [in_use |-> FALSE, refcount |-> 0, generation |-> 0, filled |-> FALSE]],
           used |-> 0]
  /\ npTask = NpIdle
  /\ npRing = << >>
  /\ npMain = NpIdle
  /\ npBox = [a \in NpActors |-> << >>]

-----------------------------------------------------------------------------
(* The slots; each of these is one locked section.                         *)

NpFree == {i \in NpSlots : ~np.slot[i].in_use}

NpNextGeneration(g) == IF (g + 1) % NpGenMod = 0 THEN 1 ELSE (g + 1) % NpGenMod

NpAcquired(i) ==
  [slot |-> [np.slot EXCEPT ![i] = [in_use |-> TRUE, refcount |-> 1, filled |-> FALSE,
                                    generation |-> NpNextGeneration(@.generation)]],
   used |-> np.used + 1]

\* A message without a slot has nothing to retain.
NpRetainable(m) == m.slot = 0 \/ (np.slot[m.slot].in_use /\ np.slot[m.slot].refcount > 0)

NpRetained(m) ==
  IF m.slot = 0 THEN np ELSE [np EXCEPT !.slot[m.slot].refcount = @ + 1]

NpReleased(m) ==
  IF m.slot = 0 \/ ~np.slot[m.slot].in_use THEN np
  ELSE IF np.slot[m.slot].refcount > 1
    THEN [np EXCEPT !.slot[m.slot].refcount = @ - 1]
    ELSE [slot |-> [np.slot EXCEPT ![m.slot].refcount = 0, ![m.slot].in_use = FALSE,
                                   ![m.slot].filled = FALSE],
          used |-> np.used - 1]

-----------------------------------------------------------------------------
(* The MQTT task: ev_esp8266_net_push_mqtt_data.                           *)

\* A short message goes to the ring as it is; with no slot free, a long one
\* is dropped and counted.
NpReceive ==
  /\ npTask = NpIdle
  /\ \/ npTask' = [do |-> "push", msg |-> NpInline] /\ UNCHANGED np
     \/ /\ NpFree # {}
        /\ LET i == Min(NpFree)
           IN  /\ np' = NpAcquired(i)
               /\ npTask' = [do |-> "fill",
                             msg |-> [slot |-> i, generation |-> np'.slot[i].generation]]
  /\ UNCHANGED <<npRing, npMain, npBox>>

NpFill ==
  /\ npTask.do = "fill"
  /\ np' = [np EXCEPT !.slot[npTask.msg.slot].filled = TRUE]
  /\ npTask' = [npTask EXCEPT !.do = "push"]
  /\ UNCHANGED <<npRing, npMain, npBox>>

\* Faulty variant: the caller takes the push for done.
NpPushTrusting ==
  /\ npTask.do = "push"
  /\ npTask' = NpIdle
  /\ npRing' = IF Len(npRing) < NpRing THEN Append(npRing, npTask.msg) ELSE npRing
  /\ UNCHANGED <<np, npMain, npBox>>

\* ev_esp8266_net_push_event, and what its caller makes of a full ring
NpPush ==
  /\ npTask.do = "push"
  /\ IF Len(npRing) < NpRing
       THEN npRing' = Append(npRing, npTask.msg) /\ npTask' = NpIdle
       ELSE npTask' = [npTask EXCEPT !.do = "release"] /\ UNCHANGED npRing
  /\ UNCHANGED <<np, npMain, npBox>>

NpGiveUp ==
  /\ npTask.do = "release"
  /\ np' = NpReleased(npTask.msg)
  /\ npTask' = NpIdle
  /\ UNCHANGED <<npRing, npMain, npBox>>

-----------------------------------------------------------------------------
(* The main loop.                                                          *)

\* ev_esp8266_net_poll_ingress_fn; ev_demo_app_publish_net_event then makes the
\* event's reference its message's
NpPoll ==
  /\ npMain = NpIdle /\ npRing # << >>
  /\ npMain' = [do |-> NpRoutes[1], msg |-> Head(npRing)]
  /\ npRing' = Tail(npRing)
  /\ UNCHANGED <<np, npTask, npBox>>

\* One route.  The mailbox retains what it takes; both routes are strict, so
\* the first refusal ends the publication.
NpDeliver ==
  /\ npMain.do \in NpActors
  /\ LET m == npMain.msg
         accepted == Len(npBox[npMain.do]) < NpMailbox /\ NpRetainable(m)
     IN  /\ np' = IF accepted THEN NpRetained(m) ELSE np
         /\ npBox' = IF accepted THEN [npBox EXCEPT ![npMain.do] = Append(@, m)] ELSE npBox
         /\ npMain' = [npMain EXCEPT !.do =
              IF accepted /\ npMain.do = NpRoutes[1] THEN NpRoutes[2] ELSE "dispose"]
  /\ UNCHANGED <<npTask, npRing>>

\* ev_actor_runtime_process_one: the message is popped and handed to the handler
NpHandle(a) ==
  /\ npMain = NpIdle /\ npBox[a] # << >>
  /\ npMain' = [do |-> "dispose", msg |-> Head(npBox[a])]
  /\ npBox' = [npBox EXCEPT ![a] = Tail(@)]
  /\ UNCHANGED <<np, npTask, npRing>>

\* Whoever owns the message disposes of it, whatever publishing or the
\* handler returned.
NpDispose ==
  /\ npMain.do = "dispose"
  /\ np' = NpReleased(npMain.msg)
  /\ npMain' = NpIdle
  /\ UNCHANGED <<npTask, npRing, npBox>>

NpNext ==
  \/ NpReceive \/ NpFill \/ NpPush \/ NpGiveUp
  \/ NpPoll \/ NpDeliver \/ NpDispose
  \/ \E a \in NpActors : NpHandle(a)

-----------------------------------------------------------------------------
(* Properties.                                                             *)

\* Everywhere a message can be, with the message that is there.
NpHolders ==
  {<<"task", 1, npTask.msg>>, <<"main", 1, npMain.msg>>}
    \cup {<<"ring", i, npRing[i]>> : i \in DOMAIN npRing}
    \cup UNION {{<<a, i, npBox[a][i]>> : i \in DOMAIN npBox[a]} : a \in NpActors}

(* A payload slot is in use exactly while somebody holds its message, and  *)
(* its count is the number of holders: no order of receiving, dropping,    *)
(* refusing, publishing and handling leaks a slot of the few there are.    *)
(* And a holder that may read it always finds its own message there: a     *)
(* slot is never given to the next message while an actor has one to read. *)
PayloadIsHeld ==
  /\ \A i \in NpSlots :
       LET held == {h \in NpHolders : h[3].slot = i}
       IN  /\ np.slot[i].refcount = Cardinality(held)
           /\ np.slot[i].in_use <=> held # {}
           /\ \A h \in held :
                /\ h[3].generation = np.slot[i].generation
                /\ np.slot[i].filled \/ (h[1] = "task" /\ npTask.do = "fill")
  /\ np.used = Cardinality(NpSlots \ NpFree)
=============================================================================
