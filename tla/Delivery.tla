------------------------------- MODULE Delivery -------------------------------
(***************************************************************************)
(* Building a runtime graph and publishing through it: the builder and its   *)
(* active route table (runtime/src/ev_runtime_graph.c,                       *)
(* ev_active_route_table.c), the delivery service (ev_delivery_service.c),   *)
(* the actors' publish port (ev_actor_publish_port.c) and registry delivery  *)
(* (core/src/ev_actor_runtime.c).                                            *)
(*                                                                          *)
(* A publication runs to its end before anything else happens; it is one     *)
(* step per route because a report is built up route by route.  Mailboxes    *)
(* are FIFO, as every actor's in config/actors.def, and follow module        *)
(* MailboxContract.  The graph counts modulo 2^32; runs stay far below.      *)
(***************************************************************************)
EXTENDS QosContract, Sequences, FiniteSets, FiniteSetsExt

CONSTANTS ActorCount,    \* EV_ACTOR_COUNT; actors are 0 .. ActorCount - 1
          Events,        \* event ids
          Routes,        \* the generated route table, grouped by event
          Policy,        \* route_policy_flags of each actor's module
          Missing,       \* actors whose capabilities the board lacks
          Publishers,    \* actors that publish
          Runtime,       \* ACT_RUNTIME, the source of the builder's faults
          FaultCapacity, \* EV_FAULT_STORE_CAPACITY
          RingCapacity,  \* slots of a mailbox
          MaxPosts       \* bound: publications and sends

Actors == 0..(ActorCount - 1)
NoActor == ActorCount
Route == [event: Events, target: Actors, qos: QosClasses]

ASSUME GraphAssumption ==
  /\ ActorCount \in Nat \ {0} /\ RingCapacity \in Nat \ {0} /\ MaxPosts \in Nat
  /\ Routes \in Seq(Route)
  /\ Policy \in [Actors -> QosClasses]
  /\ Missing \subseteq Actors /\ Publishers \subseteq Actors
  /\ Runtime \in Actors /\ FaultCapacity \in Nat \ {0}

\* tools/codegen emits the routes of an event next to each other
ASSUME GroupedAssumption ==
  \A i, j, k \in DOMAIN Routes :
    i < j /\ j < k /\ Routes[i].event = Routes[k].event
      => Routes[j].event = Routes[i].event

VARIABLES requested,   \* builder->requested
          strict,      \* EV_RUNTIME_ROUTE_VALIDATE_STRICT_MANDATORY is set
          table,       \* state and reason of each active route
          routesBound, \* active_routes_bound
          registered,  \* actors with a runtime in the registry
          built,       \* what the last build returned ("NONE": not called)
          mailbox,     \* pending messages of each actor
          runtimes,    \* stats of each actor runtime: enqueued, handled
          registry,    \* stats of the registry
          metrics,     \* the metrics delivery increments
          faults,      \* keys of the records in the fault registry
          pc, pub,     \* the publication in progress, and its report
          posts,       \* bound: publications and sends so far
          reached,     \* history: routes this publication reached
          lateAdd,     \* history: an actor was added after the routes were
                       \* bound and not bound again before the build
          rebuilt      \* history: a build ran over a registered actor

graphVars == <<requested, strict, table, routesBound, registered, built>>
statVars == <<mailbox, runtimes, registry, metrics, faults>>
pubVars == <<pc, pub, posts, reached>>
historyVars == <<lateAdd, rebuilt>>
vars == <<graphVars, statVars, pubVars, historyVars>>

MB == INSTANCE MailboxContract
        WITH EventKind <- [e \in Events |-> "INLINE"],
             EventQos <- [e \in Events |-> "CRITICAL"], Payloads <- {}

Message(e) == [event |-> e, storage |-> "NONE", payload |-> MB!NoPayload,
               disposed |-> FALSE]

\* Records with the same id, source and event are coalesced.
Fault(id, source, e) == [id |-> id, source |-> source, event |-> e]

\* ev_fault_emit: a full registry drops a fault of a new key, and neither the
\* builder nor delivery looks at the result.  Nothing in src/ drains it.
EmitFault(records, fault) ==
  IF fault \in records \/ Cardinality(records) >= FaultCapacity THEN records
  ELSE records \cup {fault}

NoReport == [matched |-> 0, attempted |-> 0, delivered |-> 0, dropped |-> 0,
             disabled |-> 0, rejected |-> 0, coalesced |-> 0, replaced |-> 0,
             qos_dropped |-> 0, policy_rejected |-> 0,
             first_error |-> "OK", first_failed |-> NoActor]
NoPub(e, source) == [event |-> e, source |-> source, index |-> 0, rc |-> "OK",
                     active |-> FALSE, report |-> NoReport]

Init ==
  /\ requested = {} /\ strict = FALSE /\ table = <<>> /\ routesBound = FALSE
  /\ registered = {} /\ built = "NONE"
  /\ mailbox = [a \in Actors |-> <<>>]
  /\ runtimes = [a \in Actors |-> [enqueued |-> 0, handled |-> 0]]
  /\ registry = [attempted |-> 0, succeeded |-> 0, failed |-> 0]
  /\ metrics = [attempted |-> 0, ok |-> 0, failed |-> 0, merged |-> 0]
  /\ faults = {}
  /\ pc = "idle" /\ pub = NoPub(CHOOSE e \in Events : TRUE, Runtime) /\ posts = 0
  /\ reached = {} /\ lateAdd = FALSE /\ rebuilt = FALSE

-----------------------------------------------------------------------------
(* The builder. *)

\* ev_runtime_builder_add_module: an actor the board cannot carry is refused.
AddModule(a) ==
  /\ pc = "idle" /\ a \notin Missing
  /\ requested' = requested \cup {a}
  /\ lateAdd' = (lateAdd \/ (a \notin requested /\ (routesBound \/ built = "OK")))
  /\ UNCHANGED <<strict, table, routesBound, registered, built, statVars,
                 pubVars, rebuilt>>

SetStrict ==
  /\ pc = "idle"
  /\ strict' = ~strict
  /\ UNCHANGED <<requested, table, routesBound, registered, built, statVars,
                 pubVars, historyVars>>

Entry(state, reason) == [state |-> state, reason |-> reason]

\* Faulty variant: a route is enabled whether or not its actor is.
ClassifyRouteLoose(r) ==
  IF ~RouteIsValid(Policy[r.target], r.qos) THEN Entry("QOS_CONFLICT", "POLICY")
  ELSE Entry("ENABLED", "OK")

\* ev_runtime_builder_classify_route
ClassifyRoute(r) ==
  IF ~RouteIsValid(Policy[r.target], r.qos) THEN Entry("QOS_CONFLICT", "POLICY")
  ELSE IF r.target \in requested THEN Entry("ENABLED", "OK")
  ELSE IF r.target \in Missing \/ ~strict
       THEN Entry("OPTIONAL_DISABLED", "NO_CAPABILITY")
  ELSE Entry("MISSING_ACTOR", "NOT_FOUND")

Entries == {Entry("ENABLED", "OK"), Entry("OPTIONAL_DISABLED", "NO_CAPABILITY"),
            Entry("QOS_CONFLICT", "POLICY"), Entry("MISSING_ACTOR", "NOT_FOUND")}

Refused(entry) == entry.state \notin {"ENABLED", "OPTIONAL_DISABLED"}

\* The table ev_runtime_builder_bind_routes leaves behind: under strict
\* validation it ends with the first refused route, and is then not bound.
BoundTable ==
  LET full == [i \in DOMAIN Routes |-> ClassifyRoute(Routes[i])]
      refused == {i \in DOMAIN full : Refused(full[i])}
  IN  IF strict /\ refused # {}
      THEN [entries |-> SubSeq(full, 1, Min(refused)), bound |-> FALSE,
            refused |-> {Min(refused)}]
      ELSE [entries |-> full, bound |-> TRUE, refused |-> refused]

\* ev_runtime_builder_emit_route_fault
RouteFault(i) ==
  Fault(IF ClassifyRoute(Routes[i]).state = "QOS_CONFLICT"
        THEN "ROUTE_QOS_CONFLICT" ELSE "ROUTE_MISSING_CRITICAL_TARGET",
        Runtime, Routes[i].event)

\* The registry after the faults of the refused routes, in table order.
RouteFaultsEmitted(refused) ==
  LET upTo[i \in 0 .. Len(Routes)] ==
        IF i = 0 THEN faults
        ELSE IF i \in refused THEN EmitFault(upTo[i - 1], RouteFault(i))
        ELSE upTo[i - 1]
  IN  upTo[Len(Routes)]

BindTable ==
  /\ table' = BoundTable.entries
  /\ routesBound' = BoundTable.bound
  /\ faults' = RouteFaultsEmitted(BoundTable.refused)
  /\ lateAdd' = (lateAdd /\ (built = "OK" \/ ~BoundTable.bound))

BindRoutes ==
  /\ pc = "idle"
  /\ BindTable
  /\ UNCHANGED <<requested, strict, registered, built, mailbox, runtimes,
                 registry, metrics, pubVars, rebuilt>>

\* ev_runtime_builder_build registers the requested actors in order of their
\* ids and stops at the first that is registered already or whose init
\* callback fails.  That actor's mailbox has been initialised by then.
RegisterActors(failing) ==
  LET stops == {a \in requested : a \in registered \/ a \in failing}
      done == IF stops = {} THEN requested
              ELSE {a \in requested : a <= Min(stops)}
  IN  /\ registered' = registered \cup done
      /\ mailbox' = [a \in Actors |-> IF a \in done THEN <<>> ELSE mailbox[a]]
      /\ runtimes' = [a \in Actors |-> IF a \in done
                                       THEN [enqueued |-> 0, handled |-> 0]
                                       ELSE runtimes[a]]
      /\ built' = IF stops = {} THEN "OK" ELSE "FAILED"
      /\ rebuilt' = (rebuilt \/ done \cap registered # {})

Build(failing) ==
  /\ pc = "idle" /\ failing \subseteq requested
  /\ IF routesBound THEN UNCHANGED <<table, routesBound, faults, lateAdd>>
     ELSE BindTable
  /\ IF routesBound'
     THEN RegisterActors(failing)
     ELSE /\ built' = "FAILED"
          /\ UNCHANGED <<registered, mailbox, runtimes, rebuilt>>
  /\ UNCHANGED <<requested, strict, registry, metrics, pubVars>>

-----------------------------------------------------------------------------
(* Registry delivery. *)

Rejection == [queue |-> <<>>, effect |-> "REJECTED"]

Pushed(a, e, qos) ==
  IF a \in registered THEN MB!EnqueueQos("FIFO", mailbox[a], Message(e), qos)
  ELSE Rejection

DeliveryResult(a, effect) ==
  IF a \notin registered THEN "NOT_FOUND"
  ELSE IF effect = "REJECTED" THEN "FULL" ELSE "OK"

Accepted(effect) == effect \notin {"REJECTED", "DROPPED"}

\* ev_actor_registry_delivery_impl
RegistryDelivery(a, e, qos) ==
  LET out == Pushed(a, e, qos) IN
  /\ mailbox' = IF a \in registered THEN [mailbox EXCEPT ![a] = out.queue]
                ELSE mailbox
  /\ runtimes' = IF a \in registered /\ Accepted(out.effect)
                 THEN [runtimes EXCEPT ![a].enqueued = @ + 1]
                 ELSE runtimes
  /\ registry' = [attempted |-> registry.attempted + 1,
                  succeeded |-> registry.succeeded
                                  + (IF Accepted(out.effect) THEN 1 ELSE 0),
                  failed |-> registry.failed
                               + (IF Accepted(out.effect) THEN 0 ELSE 1)]

-----------------------------------------------------------------------------
(* ev_delivery_publish *)

\* the active and the generated table have the same spans
Span(e) == {i \in DOMAIN Routes : Routes[i].event = e}

StartPublish(e, source) ==
  /\ pc = "idle" /\ posts < MaxPosts
  /\ posts' = posts + 1
  /\ reached' = {}
  /\ IF Span(e) = {}
     THEN /\ pub' = [NoPub(e, source) EXCEPT !.rc = "NOT_FOUND", !.active = routesBound,
                                     !.report.first_error = "NOT_FOUND"]
          /\ metrics' = [metrics EXCEPT !.failed = @ + 1]
          /\ UNCHANGED pc
     ELSE /\ pub' = [NoPub(e, source) EXCEPT
               !.active = routesBound, !.index = Min(Span(e)),
               !.report.matched = IF routesBound THEN 0
                                  ELSE Cardinality(Span(e))]
          /\ pc' = "fanout"
          /\ UNCHANGED metrics
  /\ UNCHANGED <<graphVars, mailbox, runtimes, registry, faults, historyVars>>

\* The fan-out goes on with the next route of the event, or ends.
Advance(report, rc) ==
  /\ pub' = [pub EXCEPT !.report = report, !.rc = rc, !.index = @ + 1]
  /\ pc' = IF pub.index = Max(Span(pub.event)) THEN "idle" ELSE "fanout"

Stop(report, rc) ==
  /\ pub' = [pub EXCEPT !.report = report, !.rc = rc]
  /\ pc' = "idle"

\* Faulty variant: the last error is reported.
FailedLast(report, rc, a) ==
  [report EXCEPT !.first_error = rc, !.first_failed = a]

Failed(report, rc, a) ==
  IF report.first_error = "OK"
  THEN [report EXCEPT !.first_error = rc, !.first_failed = a]
  ELSE report

CurrentRoute == Routes[pub.index]
Matched == [pub.report EXCEPT !.matched = IF pub.active THEN @ + 1 ELSE @]

\* ev_delivery_emit_fault
DeliveryFault == Fault("MAILBOX_OVERFLOW", pub.source, pub.event)

SkipDisabledRoute ==
  /\ pc = "fanout" /\ pub.active /\ table[pub.index].state = "OPTIONAL_DISABLED"
  /\ Advance([Matched EXCEPT !.dropped = @ + 1, !.disabled = @ + 1], pub.rc)
  /\ UNCHANGED <<graphVars, statVars, posts, reached, historyVars>>

SkipRefusedRoute ==
  /\ pc = "fanout" /\ pub.active /\ Refused(table[pub.index])
  /\ LET reason == table[pub.index].reason IN
     Advance(Failed([Matched EXCEPT !.dropped = @ + 1, !.rejected = @ + 1],
                    reason, CurrentRoute.target), reason)
  /\ faults' = EmitFault(faults, DeliveryFault)
  /\ UNCHANGED <<graphVars, mailbox, runtimes, registry, metrics, posts,
                 reached, historyVars>>

\* ev_delivery_record_mailbox_effect
Effect(report, effect) ==
  [report EXCEPT !.coalesced = IF effect = "COALESCED" THEN @ + 1 ELSE @,
                 !.replaced = IF effect = "REPLACED" THEN @ + 1 ELSE @,
                 !.qos_dropped = IF effect = "DROPPED" THEN @ + 1 ELSE @,
                 !.policy_rejected = IF effect = "REJECTED" THEN @ + 1 ELSE @]

\* Only the failure of a strict route fails the publication, and ends it.
AfterDelivery(report, rc, r) ==
  IF rc = "OK" \/ ~FailureIsStrict(r.qos) THEN Advance(report, pub.rc)
  ELSE Stop(Failed(report, rc, r.target), rc)

\* ev_delivery_deliver_one, and what publish_active or publish_static does
\* with its result
DeliverOne ==
  LET r == CurrentRoute
      effect == Pushed(r.target, pub.event, r.qos).effect
      rc == DeliveryResult(r.target, effect)
      report == Effect([Matched EXCEPT
                          !.attempted = @ + 1,
                          !.delivered = IF Accepted(effect) THEN @ + 1 ELSE @,
                          !.dropped = IF Accepted(effect) THEN @ ELSE @ + 1],
                       effect)
  IN
  /\ pc = "fanout" /\ (pub.active => table[pub.index].state = "ENABLED")
  /\ RegistryDelivery(r.target, pub.event, r.qos)
  /\ metrics' = [attempted |-> metrics.attempted + 1,
                 ok |-> metrics.ok + (IF Accepted(effect) THEN 1 ELSE 0),
                 failed |-> metrics.failed + (IF Accepted(effect) THEN 0 ELSE 1),
                 merged |-> metrics.merged
                   + (IF effect \in {"COALESCED", "REPLACED"} THEN 1 ELSE 0)]
  /\ faults' = IF rc # "OK" /\ FailureIsStrict(r.qos)
               THEN EmitFault(faults, DeliveryFault) ELSE faults
  /\ reached' = IF Accepted(effect) THEN reached \cup {pub.index} ELSE reached
  /\ AfterDelivery(report, rc, r)
  /\ UNCHANGED <<graphVars, posts, historyVars>>

-----------------------------------------------------------------------------
(* ev_actor_send through a publish port, and the receiving actor. *)

\* A disabled route makes the send a successful no-op, a refused one fails it,
\* and without any route the message is delivered all the same.
Send(e, a) ==
  LET found == {i \in DOMAIN table : routesBound /\ Routes[i].event = e
                                                 /\ Routes[i].target = a}
  IN
  /\ pc = "idle" /\ posts < MaxPosts
  /\ posts' = posts + 1
  /\ IF found # {} /\ table[Min(found)].state # "ENABLED"
     THEN UNCHANGED <<mailbox, runtimes, registry>>
     ELSE RegistryDelivery(a, e, "CRITICAL")
  /\ UNCHANGED <<graphVars, metrics, faults, pc, pub, reached, historyVars>>

\* Faulty variant: the message stays in the mailbox.
HandlePeeks(a) ==
  /\ pc = "idle" /\ a \in registered /\ mailbox[a] # <<>>
  /\ runtimes[a].handled < runtimes[a].enqueued
  /\ runtimes' = [runtimes EXCEPT ![a].handled = @ + 1]
  /\ UNCHANGED <<graphVars, mailbox, registry, metrics, faults, pubVars,
                 historyVars>>

\* ev_actor_runtime_process_one
Handle(a) ==
  /\ pc = "idle" /\ a \in registered /\ mailbox[a] # <<>>
  /\ mailbox' = [mailbox EXCEPT ![a] = Tail(@)]
  /\ runtimes' = [runtimes EXCEPT ![a].handled = @ + 1]
  /\ UNCHANGED <<graphVars, registry, metrics, faults, pubVars, historyVars>>

Next ==
  \/ \E a \in Actors : AddModule(a) \/ Handle(a)
  \/ SetStrict \/ BindRoutes
  \/ \E failing \in SUBSET Actors : Build(failing)
  \/ \E e \in Events, source \in Publishers : StartPublish(e, source)
  \/ SkipDisabledRoute \/ SkipRefusedRoute \/ DeliverOne
  \/ \E e \in Events, a \in Actors : Send(e, a)

Spec == Init /\ [][Next]_vars

-----------------------------------------------------------------------------
(* Properties. *)

\* The graph, the mailboxes and the report keep their types; no mailbox holds
\* more than its capacity.
TypeOK ==
  /\ requested \subseteq Actors /\ registered \subseteq Actors
  /\ strict \in BOOLEAN /\ routesBound \in BOOLEAN
  /\ built \in {"NONE", "OK", "FAILED"}
  /\ table \in Seq(Entries) /\ Len(table) <= Len(Routes)
  /\ mailbox \in [Actors -> Seq({Message(e) : e \in Events})]
  /\ \A a \in Actors : Len(mailbox[a]) <= RingCapacity
  /\ runtimes \in [Actors -> [enqueued : Nat, handled : Nat]]
  /\ registry \in [attempted : Nat, succeeded : Nat, failed : Nat]
  /\ metrics \in [attempted : Nat, ok : Nat, failed : Nat, merged : Nat]
  /\ pc \in {"idle", "fanout"}
  /\ pc = "fanout" => pub.index \in Span(pub.event)
  /\ pub.rc \in {"OK", "FULL", "NOT_FOUND", "POLICY"}
  /\ posts \in 0 .. MaxPosts

Routed == {i \in Span(pub.event) : ~pub.active \/ table[i].state = "ENABLED"}
Returns == pc = "fanout" /\ pc' = "idle"

\* EV_OK: the message is in the mailbox of every enabled route whose QoS is
\* strict (CRITICAL, WAKEUP_CRITICAL, COMMAND).
OkReachesStrict ==
  pub'.rc = "OK" =>
    \A i \in Routed : Routes[i].qos \in StrictClasses => i \in reached'

\* A fan-out that ends early ended at a strict failure.
DropsAreIsolated ==
  pub.index # Max(Span(pub.event)) =>
    CurrentRoute.qos \in StrictClasses /\ pub.index \notin reached'

\* The error in the report is that of the first failing route; a record of the
\* publication's source and event is on the bus, unless the registry is full.
ErrorIsTheFirst ==
  LET failing == {i \in Span(pub.event) :
                    \/ pub.active /\ Refused(table[i])
                    \/ Routes[i].qos \in StrictClasses /\ i \in Routed
                         /\ i \notin reached'}
  IN  /\ pub'.rc = "OK" <=> pub'.report.first_error = "OK"
      /\ pub'.rc # "OK" =>
           /\ failing # {}
           /\ pub'.report.first_failed = Routes[Min(failing)].target
           /\ DeliveryFault \in faults' \/ Cardinality(faults') >= FaultCapacity

\* What a publication returns is what happened. EV_OK means that every strict
\* route was served (only routes that allow drops may have missed the message);
\* a failure on a route that allows drops keeps the message from nobody else;
\* the error that is reported belongs to the first route, in table order, that
\* failed the publication, and has left a record on the fault bus, which only a
\* full registry may lack (ev_fault_bus.c:36-40 drops it there, unnoticed).
ResultTellsTruth ==
  [][Returns => OkReachesStrict /\ DropsAreIsolated /\ ErrorIsTheFirst]_vars

\* After a successful build the route table and the registry agree, unless an
\* actor was added in between: an enabled route has an actor behind it, and a
\* registered actor is cut off from an event only by the QoS contract.
TableMatchesActors ==
  built = "OK" /\ routesBound /\ ~lateAdd =>
    \A i \in DOMAIN table :
      /\ table[i].state = "ENABLED" => Routes[i].target \in registered
      /\ Routes[i].target \in registered =>
           table[i].state \in {"ENABLED", "QOS_CONFLICT"}

Total(f) == MapThenSumSet(LAMBDA a : f[a], Actors)
Merged(a) == runtimes[a].enqueued - runtimes[a].handled - Len(mailbox[a])

\* Metrics, registry and actor runtimes count the same deliveries: what was
\* enqueued is still pending, has been handled, or was merged into a pending
\* message (which only the metrics know).
CountersReconcile ==
  /\ registry.attempted = registry.succeeded + registry.failed
  /\ ~rebuilt =>
       /\ registry.succeeded = Total([a \in Actors |-> runtimes[a].enqueued])
       /\ metrics.merged = Total([a \in Actors |-> Merged(a)])

=============================================================================
