---------------------------- MODULE DeliveryProofs ----------------------------
(* Proofs about building a runtime graph and publishing through it, for every *)
(* set of actors, grouped route table, route policy and mailbox capacity.     *)
EXTENDS Delivery, CommonLemmas, SequenceTheorems

-----------------------------------------------------------------------------
(* The inductive invariant. *)

DvMessages == {Message(e) : e \in Events}
DvCodes == {"OK", "FULL", "NOT_FOUND", "POLICY"}
DvReports ==
  [matched : Nat, attempted : Nat, delivered : Nat, dropped : Nat, disabled : Nat,
   rejected : Nat, coalesced : Nat, replaced : Nat, qos_dropped : Nat,
   policy_rejected : Nat, first_error : DvCodes, first_failed : Actors \cup {NoActor}]
DvPubs == [event : Events, source : Publishers, index : Nat, rc : DvCodes, active : BOOLEAN,
           report : DvReports]

DvGraphTypes ==
  /\ requested \subseteq Actors /\ registered \subseteq Actors
  /\ strict \in BOOLEAN /\ routesBound \in BOOLEAN
  /\ built \in {"NONE", "OK", "FAILED"}
  /\ table \in Seq(Entries) /\ Len(table) <= Len(Routes)

DvStatTypes ==
  /\ mailbox \in [Actors -> Seq(DvMessages)]
  /\ \A a \in Actors : Len(mailbox[a]) <= RingCapacity
  /\ runtimes \in [Actors -> [enqueued : Nat, handled : Nat]]
  /\ registry \in [attempted : Nat, succeeded : Nat, failed : Nat]
  /\ metrics \in [attempted : Nat, ok : Nat, failed : Nat, merged : Nat]

\* A bound table covers all routes; what it enables was requested, and what was
\* requested when it was bound is cut off by the QoS contract only.  Without a
\* late addition a successful build has registered all that was requested.
DvTable ==
  /\ routesBound => Len(table) = Len(Routes)
  /\ \A i \in DOMAIN table :
       table[i].state = "ENABLED" => Routes[i].target \in requested
  /\ routesBound /\ ~lateAdd =>
       \A i \in DOMAIN table : Routes[i].target \in requested =>
         table[i].state \in {"ENABLED", "QOS_CONFLICT"}

DvGraph ==
  /\ registered \subseteq requested
  /\ DvTable
  /\ built = "OK" /\ ~lateAdd => requested \subseteq registered

\* An actor that is not registered has been sent nothing.
DvFresh ==
  \A a \in Actors \ registered :
    runtimes[a] = [enqueued |-> 0, handled |-> 0] /\ mailbox[a] = << >>

DvEnabled(p, i) == ~p.active \/ table[i].state = "ENABLED"
DvRefused(p, i) == p.active /\ Refused(table[i])
DvStrict(i) == Routes[i].qos \in StrictClasses

\* The fault of publication p is among records f, or they left it no room.
DvNoted(p, f) ==
  \/ Fault("MAILBOX_OVERFLOW", p.source, p.event) \in f
  \/ Cardinality(f) >= FaultCapacity

\* Publication p has passed its routes before n, reached r and left the fault
\* records f: every strict route is served, and the error in the report is that
\* of the first refused route.
DvUpTo(p, n, r, f) ==
  /\ r \subseteq {i \in Span(p.event) : i < n}
  /\ \A i \in Span(p.event) : i < n /\ DvStrict(i) /\ DvEnabled(p, i) => i \in r
  /\ p.rc = "OK" <=> p.report.first_error = "OK"
  /\ p.rc = "OK" => \A i \in Span(p.event) : i < n => ~DvRefused(p, i)
  /\ p.rc # "OK" =>
       \E j \in Span(p.event) :
         /\ j < n /\ DvRefused(p, j)
         /\ \A i \in Span(p.event) : i < j => ~DvRefused(p, i)
         /\ p.report.first_failed = Routes[j].target
         /\ DvNoted(p, f)

DvFanout ==
  pc = "fanout" =>
    /\ pub \in DvPubs /\ pub.active = routesBound /\ pub.index \in Span(pub.event)
    /\ DvUpTo(pub, pub.index, reached, faults)

DvPubTypes ==
  /\ pc \in {"idle", "fanout"} /\ pub.rc \in DvCodes /\ posts \in 0 .. MaxPosts

DvInv ==
  /\ DvGraphTypes /\ DvStatTypes /\ DvPubTypes
  /\ DvGraph /\ DvFresh /\ CountersReconcile /\ DvFanout

-----------------------------------------------------------------------------
(* Spans of the route table. *)

\* The sizes of the graph.
LEMMA DvSizes ==
  /\ ActorCount \in Nat /\ RingCapacity \in Nat /\ RingCapacity > 0 /\ MaxPosts \in Nat
  /\ Routes \in Seq(Route) /\ Policy \in [Actors -> QosClasses]
  BY GraphAssumption

\* A route leads to an actor, with a QoS class.
LEMMA RouteIs ==
  ASSUME NEW i \in DOMAIN Routes
  PROVE  /\ i \in Nat /\ i >= 1 /\ i <= Len(Routes) /\ Len(Routes) \in Nat
         /\ Routes[i].event \in Events /\ Routes[i].target \in Actors
         /\ Routes[i].qos \in QosClasses
<1>1. Routes \in Seq(Route) BY DvSizes
<1>2. DOMAIN Routes = 1 .. Len(Routes) /\ Len(Routes) \in Nat BY <1>1
<1>3. Routes[i] \in Route BY <1>1, <1>2
<1> QED BY <1>2, <1>3 DEF Route

\* Min is the number that is in the set and not above any other.
LEMMA MinIs ==
  ASSUME NEW T \in SUBSET Nat, NEW j \in T, \A i \in T : j <= i
  PROVE  Min(T) = j
<1>1. PICK m : m = CHOOSE x \in T : \A y \in T : x <= y OBVIOUS
<1>2. m \in T /\ \A y \in T : m <= y BY <1>1
<1>3. m <= j /\ j <= m /\ m \in Nat /\ j \in Nat BY <1>2
<1> QED BY <1>1, <1>3 DEF Min

\* The first and the last route of an event.
LEMMA SpanEnds ==
  ASSUME NEW e, Span(e) # {}
  PROVE  /\ Min(Span(e)) \in Span(e) /\ \A i \in Span(e) : Min(Span(e)) <= i
         /\ Max(Span(e)) \in Span(e) /\ \A i \in Span(e) : i <= Max(Span(e))
<1> DEFINE T == Span(e)
<1>1. Len(Routes) \in Nat /\ DOMAIN Routes = 1 .. Len(Routes) BY DvSizes
<1>2. T \in SUBSET (0 .. Len(Routes)) /\ T \in SUBSET Nat /\ T # {}
  BY <1>1 DEF Span
<1> HIDE DEF T
<1>3. \E z \in T : \A y \in T : z <= y BY <1>2, LeastElement
<1>4. \E z \in T : \A y \in T : z >= y BY <1>1, <1>2, GreatestElement
<1>5. Min(T) \in T /\ \A i \in T : Min(T) <= i BY <1>3 DEF Min
<1>6. Max(T) \in T /\ \A i \in T : Max(T) >= i BY <1>4 DEF Max
<1>7. \A i \in T : i <= Max(T) BY <1>2, <1>6
<1> QED BY <1>5, <1>6, <1>7 DEF T

\* The routes of an event follow each other (tools/codegen groups them).
LEMMA SpanGoesOn ==
  ASSUME NEW e, NEW i \in Span(e), i # Max(Span(e))
  PROVE  i + 1 \in Span(e)
<1>1. PICK m : m = Max(Span(e)) OBVIOUS
<1>2. m \in Span(e) /\ i <= m /\ i # m BY <1>1, SpanEnds
<1>3. Len(Routes) \in Nat /\ DOMAIN Routes = 1 .. Len(Routes) BY DvSizes
<1>4. /\ i \in 1 .. Len(Routes) /\ m \in 1 .. Len(Routes)
      /\ Routes[i].event = e /\ Routes[m].event = e
  BY <1>2, <1>3 DEF Span
<1>5. i + 1 \in 1 .. Len(Routes) /\ i < i + 1 /\ (i + 1 = m \/ i + 1 < m)
  BY <1>2, <1>3, <1>4
<1>6. CASE i + 1 = m BY <1>2, <1>6
<1>7. CASE i + 1 < m
  <2>1. PICK j \in DOMAIN Routes : j = i + 1 BY <1>3, <1>5
  <2>2. i < j /\ j < m BY <1>5, <1>7, <2>1
  <2>3. Routes[j].event = e BY <1>3, <1>4, <2>2, GroupedAssumption
  <2> QED BY <2>1, <2>3 DEF Span
<1> QED BY <1>5, <1>6, <1>7

-----------------------------------------------------------------------------
(* A push into a mailbox of the graph, and what delivery counts of it. *)

Effects == {"POSTED", "COALESCED", "REPLACED", "DROPPED", "REJECTED"}

\* ev_mailbox_push_qos on a FIFO mailbox: only a posted message makes it longer,
\* never beyond its capacity, and only a merging class merges or drops one.
LEMMA PushIs ==
  ASSUME NEW q \in Seq(DvMessages), Len(q) <= RingCapacity, NEW e \in Events, NEW qos,
         NEW out, out = MB!EnqueueQos("FIFO", q, Message(e), qos)
  PROVE  /\ out.queue \in Seq(DvMessages) /\ Len(out.queue) <= RingCapacity
         /\ out.effect \in Effects
         /\ Len(out.queue) = IF out.effect = "POSTED" THEN Len(q) + 1 ELSE Len(q)
         /\ out.effect \in {"COALESCED", "REPLACED", "DROPPED"} =>
              qos \in {"COALESCED", "LATEST_ONLY"}
<1>0. RingCapacity \in Nat /\ RingCapacity > 0 /\ Len(q) \in Nat BY DvSizes
<1>1. PICK m : m = Message(e) OBVIOUS
<1>2. m \in DvMessages /\ m.storage = "NONE" /\ ~m.disposed /\ m.event = e
  BY <1>1 DEF DvMessages, Message
<1>3. MB!Valid(m) /\ MB!Retainable(m) BY <1>2 DEF MB!Valid, MB!Retainable
<1>4. MB!Capacity("FIFO") = RingCapacity BY DEF MB!Capacity
<1> DEFINE Same == MB!Pending(q, m.event)
           Full == Len(q) >= MB!Capacity("FIFO")
           Last == CHOOSE i \in Same : \A j \in Same : j <= i
<1>5. MB!Enqueue("FIFO", q, m) =
        IF Full THEN MB!Outcome(q, "REJECTED") ELSE MB!Outcome(Append(q, m), "POSTED")
  BY <1>3 DEF MB!Enqueue
<1>6. out = IF qos = "COALESCED" /\ Same # {} THEN MB!Outcome(q, "COALESCED")
            ELSE IF qos = "LATEST_ONLY" /\ Same # {}
              THEN MB!Outcome([q EXCEPT ![Last] = m], "REPLACED")
            ELSE IF qos \in {"COALESCED", "LATEST_ONLY"} /\ Full
              THEN MB!Outcome(q, "DROPPED")
            ELSE MB!Enqueue("FIFO", q, m)
  BY <1>1, <1>3 DEF MB!EnqueueQos
<1> HIDE DEF Same, Full, Last
<1>7. PICK r : r = [q EXCEPT ![Last] = m] OBVIOUS
<1>8. r \in Seq(DvMessages) /\ Len(r) = Len(q)
  <2>1. PICK n : n = Last OBVIOUS
  <2>2. r = [q EXCEPT ![n] = m] BY <1>7, <2>1
  <2>3. CASE n \in 1 .. Len(q) BY <1>2, <2>2, <2>3, ExceptSeq
  <2>4. CASE n \notin 1 .. Len(q)
    <3>1. DOMAIN q = 1 .. Len(q) OBVIOUS
    <3>2. r = q BY <2>2, <2>4, <3>1
    <3> QED BY <3>2
  <2> QED BY <2>3, <2>4
<1>9. CASE out = MB!Outcome(q, "COALESCED") /\ qos = "COALESCED"
  BY <1>0, <1>9 DEF MB!Outcome, Effects
<1>10. CASE out = MB!Outcome(r, "REPLACED") /\ qos = "LATEST_ONLY"
  BY <1>0, <1>8, <1>10 DEF MB!Outcome, Effects
<1>11. CASE out = MB!Outcome(q, "DROPPED") /\ qos \in {"COALESCED", "LATEST_ONLY"}
  BY <1>0, <1>11 DEF MB!Outcome, Effects
<1>12. CASE out = MB!Outcome(q, "REJECTED") BY <1>0, <1>12 DEF MB!Outcome, Effects
<1>13. CASE out = MB!Outcome(Append(q, m), "POSTED") /\ ~Full
  <2>1. Len(q) < RingCapacity BY <1>0, <1>4, <1>13 DEF Full
  <2>2. Append(q, m) \in Seq(DvMessages) /\ Len(Append(q, m)) = Len(q) + 1 BY <1>2
  <2>3. Len(q) + 1 <= RingCapacity BY <1>0, <2>1
  <2> QED BY <1>13, <2>2, <2>3 DEF MB!Outcome, Effects
<1> QED BY <1>5, <1>6, <1>7, <1>9, <1>10, <1>11, <1>12, <1>13

-----------------------------------------------------------------------------
(* The counters of registry, runtimes and metrics. *)

\* Total is the sum over the actors.
LEMMA TotalIs == ASSUME NEW f PROVE Total(f) = SumOf(Actors, f)
  BY DEF Total, MapThenSumSet, MapThenFoldSet, SumOf

\* There are finitely many actors.
LEMMA ActorsFinite == IsFiniteSet(Actors)
<1>1. 0 \in Int /\ ActorCount - 1 \in Int BY DvSizes
<1> QED BY <1>1, FS_Interval DEF Actors

\* What a step adds to the values of one actor it adds to their total.
LEMMA TotalChanges ==
  ASSUME NEW f \in [Actors -> Int], NEW k \in [Actors -> Int], NEW a \in Actors,
         NEW d \in Int, AddedAt(Actors, f, k, a, d)
  PROVE  Total(f) \in Int /\ Total(k) = Total(f) + d
<1>1. SumOf(Actors, f) \in Int /\ SumOf(Actors, k) = SumOf(Actors, f) + d
  BY ActorsFinite, SumChanges
<1> QED BY <1>1, TotalIs

\* What a delivery to a whose push had this effect does to the mailboxes,
DvMailed(a, effect) ==
  /\ mailbox' \in [Actors -> Seq(DvMessages)]
  /\ Len(mailbox'[a]) <= RingCapacity
  /\ Len(mailbox'[a]) = Len(mailbox[a]) + (IF effect = "POSTED" THEN 1 ELSE 0)
  /\ \A b \in Actors \ {a} : mailbox'[b] = mailbox[b]
  /\ a \notin registered => mailbox' = mailbox

\* to the counts of the actors' runtimes
DvRan(a, effect) ==
  /\ runtimes' \in [Actors -> [enqueued : Nat, handled : Nat]]
  /\ runtimes'[a].enqueued = runtimes[a].enqueued + (IF Accepted(effect) THEN 1 ELSE 0)
  /\ runtimes'[a].handled = runtimes[a].handled
  /\ \A b \in Actors \ {a} : runtimes'[b] = runtimes[b]
  /\ a \notin registered => runtimes' = runtimes

\* and to those of the registry.
DvRegistered(effect) ==
  /\ registry' \in [attempted : Nat, succeeded : Nat, failed : Nat]
  /\ registry'.attempted = registry.attempted + 1
  /\ registry'.succeeded = registry.succeeded + (IF Accepted(effect) THEN 1 ELSE 0)
  /\ registry'.failed = registry.failed + (IF Accepted(effect) THEN 0 ELSE 1)

\* ev_actor_registry_delivery_impl does that.
LEMMA DeliveryIs ==
  ASSUME DvStatTypes, NEW a \in Actors, NEW e \in Events, NEW qos,
         RegistryDelivery(a, e, qos), NEW effect, effect = Pushed(a, e, qos).effect
  PROVE  /\ effect \in Effects
         /\ a \notin registered => effect = "REJECTED"
         /\ effect \in {"COALESCED", "REPLACED", "DROPPED"} =>
              qos \in {"COALESCED", "LATEST_ONLY"}
         /\ DvMailed(a, effect) /\ DvRan(a, effect) /\ DvRegistered(effect)
<1>1. PICK out : out = Pushed(a, e, qos) OBVIOUS
<1>2. PICK q : q = mailbox[a] OBVIOUS
<1>3. q \in Seq(DvMessages) /\ Len(q) <= RingCapacity /\ Len(q) \in Nat
  BY <1>2 DEF DvStatTypes
<1>4. /\ effect \in Effects
      /\ a \notin registered => effect = "REJECTED"
      /\ effect \in {"COALESCED", "REPLACED", "DROPPED"} =>
           qos \in {"COALESCED", "LATEST_ONLY"}
      /\ a \in registered =>
           /\ out.queue \in Seq(DvMessages) /\ Len(out.queue) <= RingCapacity
           /\ Len(out.queue) = IF effect = "POSTED" THEN Len(q) + 1 ELSE Len(q)
  <2>1. CASE a \in registered
    <3>1. out = MB!EnqueueQos("FIFO", q, Message(e), qos) BY <1>1, <1>2, <2>1 DEF Pushed
    <3> QED BY <1>1, <1>3, <2>1, <3>1, PushIs
  <2>2. CASE a \notin registered
    <3>1. effect = "REJECTED" BY <2>2 DEF Pushed, Rejection
    <3> QED BY <2>2, <3>1 DEF Effects
  <2> QED BY <2>1, <2>2
<1>5. /\ mailbox' = IF a \in registered THEN [mailbox EXCEPT ![a] = out.queue] ELSE mailbox
      /\ runtimes' = IF a \in registered /\ Accepted(effect)
                     THEN [runtimes EXCEPT ![a].enqueued = @ + 1] ELSE runtimes
      /\ registry' = [attempted |-> registry.attempted + 1,
                      succeeded |-> registry.succeeded + (IF Accepted(effect) THEN 1 ELSE 0),
                      failed |-> registry.failed + (IF Accepted(effect) THEN 0 ELSE 1)]
  BY <1>1 DEF RegistryDelivery
<1>6. DvMailed(a, effect)
  <2>1. mailbox \in [Actors -> Seq(DvMessages)] BY DEF DvStatTypes
  <2>2. CASE a \in registered
    <3>1. mailbox' = [mailbox EXCEPT ![a] = out.queue] BY <1>5, <2>2
    <3>2. mailbox'[a] = out.queue BY <2>1, <3>1
    <3> QED BY <1>2, <1>3, <1>4, <2>1, <2>2, <3>1, <3>2 DEF DvMailed
  <2>3. CASE a \notin registered
    <3>1. mailbox' = mailbox /\ effect # "POSTED" BY <1>4, <1>5, <2>3
    <3> QED BY <1>2, <1>3, <2>1, <2>3, <3>1 DEF DvMailed
  <2> QED BY <2>2, <2>3
<1>7. DvRan(a, effect)
  <2>1. runtimes \in [Actors -> [enqueued : Nat, handled : Nat]] BY DEF DvStatTypes
  <2>2. a \notin registered => ~Accepted(effect) BY <1>4 DEF Accepted
  <2> QED BY <1>5, <2>1, <2>2 DEF DvRan
<1>8. DvRegistered(effect)
  <2>1. registry \in [attempted : Nat, succeeded : Nat, failed : Nat] BY DEF DvStatTypes
  <2> QED BY <1>5, <2>1 DEF DvRegistered
<1> QED BY <1>4, <1>6, <1>7, <1>8

\* Registry, runtimes and metrics count a delivery alike.
LEMMA DeliveryCounted ==
  ASSUME DvStatTypes, DvFresh, CountersReconcile,
         NEW a \in Actors, NEW e \in Events, NEW qos,
         RegistryDelivery(a, e, qos), NEW effect, effect = Pushed(a, e, qos).effect,
         registered' = registered, rebuilt' = rebuilt,
         metrics' \in [attempted : Nat, ok : Nat, failed : Nat, merged : Nat],
         metrics'.merged = metrics.merged
                             + (IF effect \in {"COALESCED", "REPLACED"} THEN 1 ELSE 0)
  PROVE  DvStatTypes' /\ DvFresh' /\ CountersReconcile'
<1>0. effect \in Effects /\ DvMailed(a, effect) /\ DvRan(a, effect) /\ DvRegistered(effect)
  BY DeliveryIs
<1>1. /\ effect \in Effects
      /\ a \notin registered => mailbox' = mailbox /\ runtimes' = runtimes
      /\ \A b \in Actors \ {a} : mailbox'[b] = mailbox[b] /\ runtimes'[b] = runtimes[b]
  BY <1>0 DEF DvMailed, DvRan
<1>2. /\ mailbox' \in [Actors -> Seq(DvMessages)]
      /\ Len(mailbox'[a]) <= RingCapacity
      /\ Len(mailbox'[a]) = Len(mailbox[a]) + (IF effect = "POSTED" THEN 1 ELSE 0)
  BY <1>0 DEF DvMailed
<1>3. /\ runtimes' \in [Actors -> [enqueued : Nat, handled : Nat]]
      /\ runtimes'[a].enqueued = runtimes[a].enqueued + (IF Accepted(effect) THEN 1 ELSE 0)
      /\ runtimes'[a].handled = runtimes[a].handled
  BY <1>0 DEF DvRan
<1>4. /\ registry' \in [attempted : Nat, succeeded : Nat, failed : Nat]
      /\ registry'.attempted = registry.attempted + 1
      /\ registry'.succeeded = registry.succeeded + (IF Accepted(effect) THEN 1 ELSE 0)
      /\ registry'.failed = registry.failed + (IF Accepted(effect) THEN 0 ELSE 1)
  BY <1>0 DEF DvRegistered
<1>5. /\ runtimes \in [Actors -> [enqueued : Nat, handled : Nat]]
      /\ mailbox \in [Actors -> Seq(DvMessages)]
      /\ registry \in [attempted : Nat, succeeded : Nat, failed : Nat]
      /\ metrics \in [attempted : Nat, ok : Nat, failed : Nat, merged : Nat]
  BY DEF DvStatTypes
<1>6. \A b \in Actors : Len(mailbox'[b]) <= RingCapacity BY <1>1, <1>2 DEF DvStatTypes
<1>7. DvStatTypes' BY <1>2, <1>3, <1>4, <1>6 DEF DvStatTypes
<1>8. DvFresh'
  <2>1. SUFFICES ASSUME NEW b \in Actors \ registered
                 PROVE  runtimes'[b] = runtimes[b] /\ mailbox'[b] = mailbox[b]
    BY DEF DvFresh
  <2> QED BY <1>1
<1>9. registry'.attempted = registry'.succeeded + registry'.failed
  <2>1. registry.attempted = registry.succeeded + registry.failed
    BY DEF CountersReconcile
  <2>2. PICK x \in Nat, y \in Nat, z \in Nat :
          registry.attempted = x /\ registry.succeeded = y /\ registry.failed = z
    BY <1>5
  <2>3. x = y + z BY <2>1, <2>2
  <2>4. CASE Accepted(effect)
    <3>1. registry'.attempted = x + 1 /\ registry'.succeeded = y + 1 /\ registry'.failed = z + 0
      BY <1>4, <2>2, <2>4
    <3> QED BY <2>3, <3>1
  <2>5. CASE ~Accepted(effect)
    <3>1. registry'.attempted = x + 1 /\ registry'.succeeded = y + 0 /\ registry'.failed = z + 1
      BY <1>4, <2>2, <2>5
    <3> QED BY <2>3, <3>1
  <2> QED BY <2>4, <2>5
<1>10. ~rebuilt => registry'.succeeded = Total([b \in Actors |-> runtimes'[b].enqueued])
  <2>1. PICK f : f = [b \in Actors |-> runtimes[b].enqueued] OBVIOUS
  <2>2. PICK k : k = [b \in Actors |-> runtimes'[b].enqueued] OBVIOUS
  <2>3. PICK d \in {0, 1} : d = IF Accepted(effect) THEN 1 ELSE 0 OBVIOUS
  <2>4. f \in [Actors -> Int] /\ k \in [Actors -> Int] BY <1>3, <1>5, <2>1, <2>2
  <2>5. AddedAt(Actors, f, k, a, d)
    BY <1>1, <1>3, <2>1, <2>2, <2>3, <2>4 DEF AddedAt
  <2>6. Total(k) = Total(f) + d BY <2>4, <2>5, TotalChanges
  <2>7. ~rebuilt => registry.succeeded = Total(f) BY <2>1 DEF CountersReconcile
  <2>8. registry'.succeeded = registry.succeeded + d BY <1>4, <2>3
  <2> QED BY <2>2, <2>6, <2>7, <2>8
<1>11. ~rebuilt => metrics'.merged = Total([b \in Actors |-> Merged(b)'])
  <2>1. PICK f : f = [b \in Actors |-> Merged(b)] OBVIOUS
  <2>2. PICK k : k = [b \in Actors |-> Merged(b)'] OBVIOUS
  <2>3. PICK d \in {0, 1} : d = IF effect \in {"COALESCED", "REPLACED"} THEN 1 ELSE 0
    OBVIOUS
  <2>4. ASSUME NEW b \in Actors PROVE Len(mailbox[b]) \in Nat /\ Len(mailbox'[b]) \in Nat
    <3>1. mailbox[b] \in Seq(DvMessages) /\ mailbox'[b] \in Seq(DvMessages)
      BY <1>2, <1>5
    <3> QED BY <3>1
  <2>5. f \in [Actors -> Int]
    <3>1. ASSUME NEW b \in Actors PROVE Merged(b) \in Int
      <4>1. runtimes[b].enqueued \in Nat /\ runtimes[b].handled \in Nat BY <1>5
      <4> QED BY <2>4, <4>1 DEF Merged
    <3> QED BY <2>1, <3>1
  <2>6. k \in [Actors -> Int] BY <1>3, <2>2, <2>4 DEF Merged
  <2>7. ASSUME NEW b \in Actors PROVE k[b] = IF b = a THEN f[b] + d ELSE f[b]
    <3>1. CASE b # a
      <4>1. mailbox'[b] = mailbox[b] /\ runtimes'[b] = runtimes[b] BY <1>1, <3>1
      <4>2. k[b] = f[b] BY <2>1, <2>2, <4>1 DEF Merged
      <4> QED BY <3>1, <4>2
    <3>2. CASE b = a
      <4>1. PICK v \in Nat, w \in Nat, x \in Nat :
              v = runtimes[a].enqueued /\ w = runtimes[a].handled /\ x = Len(mailbox[a])
        BY <1>5, <2>4
      <4>2. /\ runtimes'[a].enqueued = v + (IF Accepted(effect) THEN 1 ELSE 0)
            /\ runtimes'[a].handled = w
            /\ Len(mailbox'[a]) = x + (IF effect = "POSTED" THEN 1 ELSE 0)
        BY <1>2, <1>3, <4>1
      <4>3. Accepted(effect) <=> effect \in {"POSTED", "COALESCED", "REPLACED"}
        BY <1>1 DEF Effects, Accepted
      <4>4. f[a] = v - w - x BY <2>1, <4>1 DEF Merged
      <4>5. k[a] = runtimes'[a].enqueued - runtimes'[a].handled - Len(mailbox'[a])
        BY <2>2 DEF Merged
      <4>6. k[a] = f[a] + d BY <2>3, <4>2, <4>3, <4>4, <4>5
      <4> QED BY <3>2, <4>6
    <3> QED BY <3>1, <3>2
  <2>11. AddedAt(Actors, f, k, a, d) BY <2>5, <2>7 DEF AddedAt
  <2>8. Total(k) = Total(f) + d BY <2>5, <2>6, <2>11, TotalChanges
  <2>9. ~rebuilt => metrics.merged = Total(f) BY <2>1 DEF CountersReconcile
  <2>10. metrics'.merged = metrics.merged + d BY <2>3
  <2> QED BY <2>2, <2>8, <2>9, <2>10
<1>12. CountersReconcile' BY <1>9, <1>10, <1>11 DEF CountersReconcile
<1> QED BY <1>7, <1>8, <1>12

-----------------------------------------------------------------------------
(* A publication, route by route. *)

\* q is p with the error of route n, unless p had one before
\* (ev_delivery_service.c:166-169, :208-211).
DvFirst(p, q, n) ==
  /\ p.report.first_error = "OK" =>
       q.report.first_error = q.rc /\ q.report.first_failed = Routes[n].target
  /\ p.report.first_error # "OK" =>
       /\ q.report.first_error = p.report.first_error
       /\ q.report.first_failed = p.report.first_failed

\* Route n left the result of publication p alone, or was refused.
DvPassed(p, q, n) ==
  /\ ~DvRefused(p, n) /\ q.rc = p.rc
  /\ q.report.first_error = p.report.first_error
  /\ q.report.first_failed = p.report.first_failed

DvWasRefused(p, q, n, g) ==
  /\ DvRefused(p, n) /\ q.rc # "OK" /\ DvNoted(p, g) /\ DvFirst(p, q, n)

\* The routes that fail publication p when it reached those of s.
DvFailing(p, s) ==
  {i \in Span(p.event) : \/ DvRefused(p, i)
                         \/ DvStrict(i) /\ DvEnabled(p, i) /\ i \notin s}

\* What ResultTellsTruth says of publication p that returned as q.
DvTold(p, q, s, g) ==
  /\ q.rc = "OK" => \A i \in Span(p.event) : DvStrict(i) /\ DvEnabled(p, i) => i \in s
  /\ p.index # Max(Span(p.event)) => DvStrict(p.index) /\ p.index \notin s
  /\ q.rc = "OK" <=> q.report.first_error = "OK"
  /\ q.rc # "OK" =>
       \E j \in DvFailing(p, s) :
         /\ \A i \in DvFailing(p, s) : j <= i
         /\ q.report.first_failed = Routes[j].target /\ DvNoted(p, g)

\* Routes are numbers.
LEMMA SpanNumbers == ASSUME NEW e PROVE Span(e) \subseteq Nat /\ Span(e) \subseteq Int
<1>1. DOMAIN Routes \subseteq Nat BY DvSizes
<1> QED BY <1>1 DEF Span

\* A route that was passed or refused keeps what is known of the publication.
LEMMA RouteDone ==
  ASSUME NEW p, NEW n \in Span(p.event), NEW r, NEW f, DvUpTo(p, n, r, f),
         NEW q, q.event = p.event, q.source = p.source, q.active = p.active,
         NEW s, NEW g, r \subseteq s, s \subseteq r \cup {n}, DvNoted(p, f) => DvNoted(p, g),
         DvStrict(n) /\ DvEnabled(p, n) => n \in s,
         DvPassed(p, q, n) \/ DvWasRefused(p, q, n, g)
  PROVE  DvUpTo(q, n + 1, s, g)
<1>0. /\ \A i \in Span(p.event) : i \in Int /\ (i < n + 1 <=> i < n \/ i = n)
      /\ Span(q.event) = Span(p.event) /\ n \in Int
      /\ DvNoted(q, g) <=> DvNoted(p, g)
  BY SpanNumbers DEF DvNoted
<1>1. /\ r \subseteq {i \in Span(p.event) : i < n}
      /\ \A i \in Span(p.event) : i < n /\ DvStrict(i) /\ DvEnabled(p, i) => i \in r
      /\ p.rc = "OK" <=> p.report.first_error = "OK"
      /\ p.rc = "OK" => \A i \in Span(p.event) : i < n => ~DvRefused(p, i)
  BY DEF DvUpTo
<1>2. /\ \A i : DvEnabled(q, i) <=> DvEnabled(p, i)
      /\ \A i : DvRefused(q, i) <=> DvRefused(p, i)
  BY DEF DvEnabled, DvRefused
<1>3. s \subseteq {i \in Span(q.event) : i < n + 1} BY <1>0, <1>1
<1>4. \A i \in Span(q.event) : i < n + 1 /\ DvStrict(i) /\ DvEnabled(q, i) => i \in s
  BY <1>0, <1>1, <1>2
<1>5. q.rc = "OK" <=> q.report.first_error = "OK"
  BY <1>1 DEF DvPassed, DvWasRefused, DvFirst
<1>6. q.rc = "OK" => \A i \in Span(q.event) : i < n + 1 => ~DvRefused(q, i)
  BY <1>0, <1>1, <1>2 DEF DvPassed, DvWasRefused
<1>7. ASSUME q.rc # "OK"
      PROVE  \E j \in Span(q.event) :
               /\ j < n + 1 /\ DvRefused(q, j)
               /\ \A i \in Span(q.event) : i < j => ~DvRefused(q, i)
               /\ q.report.first_failed = Routes[j].target
               /\ DvNoted(q, g)
  <2>1. CASE p.rc = "OK"
    <3>1. DvWasRefused(p, q, n, g) BY <1>7, <2>1 DEF DvPassed
    <3>2. /\ DvRefused(p, n) /\ DvNoted(p, g)
          /\ q.report.first_failed = Routes[n].target
      BY <1>1, <2>1, <3>1 DEF DvWasRefused, DvFirst
    <3>3. \A i \in Span(p.event) : i < n => ~DvRefused(p, i) BY <1>1, <2>1
    <3>4. n \in Span(q.event) /\ n < n + 1 BY <1>0
    <3> QED BY <1>0, <1>2, <3>2, <3>3, <3>4
  <2>2. CASE p.rc # "OK"
    <3>1. PICK j \in Span(p.event) :
            /\ j < n /\ DvRefused(p, j)
            /\ \A i \in Span(p.event) : i < j => ~DvRefused(p, i)
            /\ p.report.first_failed = Routes[j].target
            /\ DvNoted(p, f)
      BY <2>2 DEF DvUpTo
    <3>2. q.report.first_failed = p.report.first_failed
      BY <1>1, <2>2 DEF DvPassed, DvWasRefused, DvFirst
    <3>3. j < n + 1 /\ j \in Span(q.event) BY <1>0, <3>1
    <3> QED BY <1>0, <1>2, <3>1, <3>2, <3>3
  <2> QED BY <2>1, <2>2
<1> QED BY <1>3, <1>4, <1>5, <1>6, <1>7 DEF DvUpTo

\* A publication that passed its last route tells what happened.
LEMMA ReturnsAtTheEnd ==
  ASSUME NEW p, NEW q, q.event = p.event, q.source = p.source, q.active = p.active,
         NEW s, NEW g, p.index = Max(Span(p.event)), Span(p.event) # {},
         DvUpTo(q, p.index + 1, s, g)
  PROVE  DvTold(p, q, s, g)
<1>0. \A i \in Span(p.event) : i \in Int /\ i < p.index + 1
  <2>1. \A i \in Span(p.event) : i <= p.index BY SpanEnds
  <2>2. p.index \in Int BY SpanEnds, SpanNumbers
  <2> QED BY <2>1, <2>2, SpanNumbers
<1>1. /\ \A i : DvEnabled(q, i) <=> DvEnabled(p, i)
      /\ \A i : DvRefused(q, i) <=> DvRefused(p, i)
      /\ DvNoted(q, g) <=> DvNoted(p, g)
  BY DEF DvEnabled, DvRefused, DvNoted
<1>2. \A i \in Span(p.event) : DvStrict(i) /\ DvEnabled(p, i) => i \in s
  BY <1>0, <1>1 DEF DvUpTo
<1>3. DvFailing(p, s) = {i \in Span(p.event) : DvRefused(p, i)}
  BY <1>2 DEF DvFailing
<1>4. ASSUME q.rc # "OK"
      PROVE  \E j \in DvFailing(p, s) :
               /\ \A i \in DvFailing(p, s) : j <= i
               /\ q.report.first_failed = Routes[j].target /\ DvNoted(p, g)
  <2>1. PICK j \in Span(q.event) :
          /\ DvRefused(q, j) /\ \A i \in Span(q.event) : i < j => ~DvRefused(q, i)
          /\ q.report.first_failed = Routes[j].target
          /\ DvNoted(q, g)
    BY <1>4 DEF DvUpTo
  <2>2. j \in DvFailing(p, s) BY <1>1, <1>3, <2>1
  <2>3. ASSUME NEW i \in DvFailing(p, s) PROVE j <= i
    <3>1. i \in Span(p.event) /\ DvRefused(p, i) BY <1>3
    <3>2. ~(i < j) BY <1>1, <2>1, <3>1
    <3> QED BY <1>0, <2>1, <3>1, <3>2
  <2> QED BY <1>1, <2>1, <2>2, <2>3
<1>5. q.rc = "OK" <=> q.report.first_error = "OK" BY DEF DvUpTo
<1> QED BY <1>2, <1>4, <1>5 DEF DvTold

\* A publication that stopped at a strict route it could not serve does, too.
LEMMA ReturnsAtAFailure ==
  ASSUME NEW p, NEW r, NEW f, p.index \in Span(p.event), DvUpTo(p, p.index, r, f),
         DvStrict(p.index), DvEnabled(p, p.index),
         NEW q, q.rc # "OK", DvFirst(p, q, p.index),
         NEW g, DvNoted(p, f) => DvNoted(p, g), DvNoted(p, g)
  PROVE  DvTold(p, q, r, g)
<1>0. p.index \in Int /\ \A i \in Span(p.event) : i \in Int BY SpanNumbers
<1>1. /\ r \subseteq {i \in Span(p.event) : i < p.index}
      /\ \A i \in Span(p.event) : i < p.index /\ DvStrict(i) /\ DvEnabled(p, i) => i \in r
      /\ p.rc = "OK" <=> p.report.first_error = "OK"
      /\ p.rc = "OK" => \A i \in Span(p.event) : i < p.index => ~DvRefused(p, i)
  BY DEF DvUpTo
<1>2. p.index \notin r BY <1>0, <1>1
<1>3. p.index \in DvFailing(p, r) BY <1>2 DEF DvFailing
<1>4. q.report.first_error # "OK" BY DEF DvFirst
<1>5. \E j \in DvFailing(p, r) :
        /\ \A i \in DvFailing(p, r) : j <= i
        /\ q.report.first_failed = Routes[j].target /\ DvNoted(p, g)
  <2>1. CASE p.rc = "OK"
    <3>1. q.report.first_failed = Routes[p.index].target BY <1>1, <2>1 DEF DvFirst
    <3>2. ASSUME NEW i \in DvFailing(p, r) PROVE p.index <= i
      <4>1. i \in Span(p.event) BY DEF DvFailing
      <4>2. ~(i < p.index) BY <1>1, <2>1, <4>1 DEF DvFailing
      <4> QED BY <1>0, <4>1, <4>2
    <3> QED BY <1>3, <3>1, <3>2
  <2>2. CASE p.rc # "OK"
    <3>1. PICK j \in Span(p.event) :
            /\ j < p.index /\ DvRefused(p, j)
            /\ \A i \in Span(p.event) : i < j => ~DvRefused(p, i)
            /\ p.report.first_failed = Routes[j].target
      BY <2>2 DEF DvUpTo
    <3>2. q.report.first_failed = Routes[j].target BY <1>1, <2>2, <3>1 DEF DvFirst
    <3>3. j \in DvFailing(p, r) BY <3>1 DEF DvFailing
    <3>4. ASSUME NEW i \in DvFailing(p, r) PROVE j <= i
      <4>1. i \in Span(p.event) /\ (DvRefused(p, i) \/ ~(i < p.index))
        BY <1>1 DEF DvFailing
      <4>2. ~(i < j)
        <5>1. CASE DvRefused(p, i) BY <3>1, <4>1, <5>1
        <5>2. CASE ~(i < p.index) BY <1>0, <3>1, <4>1, <5>2
        <5> QED BY <4>1, <5>1, <5>2
      <4> QED BY <1>0, <4>1, <4>2
    <3> QED BY <3>2, <3>3, <3>4
  <2> QED BY <2>1, <2>2
<1> QED BY <1>2, <1>4, <1>5 DEF DvTold

-----------------------------------------------------------------------------
(* The steps of a fan-out. *)

\* Reports that differ in their counts only.
SameFailure(r, s) == s.first_error = r.first_error /\ s.first_failed = r.first_failed

\* A route is counted as matched.
LEMMA MatchedIs ==
  ASSUME pub \in DvPubs PROVE Matched \in DvReports /\ SameFailure(pub.report, Matched)
<1>1. PICK r : r = pub.report OBVIOUS
<1>2. r \in DvReports BY <1>1 DEF DvPubs
<1>3. PICK n \in Nat : n = IF pub.active THEN r.matched + 1 ELSE r.matched
  BY <1>2 DEF DvReports
<1>4. Matched = [r EXCEPT !.matched = n] BY <1>1, <1>2, <1>3 DEF Matched, DvReports
<1> QED BY <1>1, <1>2, <1>4 DEF DvReports, SameFailure

\* ev_delivery_record_mailbox_effect counts.
LEMMA EffectIs ==
  ASSUME NEW r \in DvReports, NEW x
  PROVE  Effect(r, x) \in DvReports /\ SameFailure(r, Effect(r, x))
<1>1. PICK c \in Nat, d \in Nat, e \in Nat, f \in Nat :
        /\ c = IF x = "COALESCED" THEN r.coalesced + 1 ELSE r.coalesced
        /\ d = IF x = "REPLACED" THEN r.replaced + 1 ELSE r.replaced
        /\ e = IF x = "DROPPED" THEN r.qos_dropped + 1 ELSE r.qos_dropped
        /\ f = IF x = "REJECTED" THEN r.policy_rejected + 1 ELSE r.policy_rejected
  BY DEF DvReports
<1>2. Effect(r, x) = [r EXCEPT !.coalesced = c, !.replaced = d, !.qos_dropped = e,
                               !.policy_rejected = f]
  BY <1>1 DEF Effect, DvReports
<1> QED BY <1>2 DEF DvReports, SameFailure

\* The first failure stays in the report.
LEMMA FailedIs ==
  ASSUME NEW r \in DvReports, NEW rc \in DvCodes, NEW a \in Actors
  PROVE  /\ Failed(r, rc, a) \in DvReports
         /\ r.first_error = "OK" =>
              Failed(r, rc, a).first_error = rc /\ Failed(r, rc, a).first_failed = a
         /\ r.first_error # "OK" => SameFailure(r, Failed(r, rc, a))
  BY DEF Failed, DvReports, SameFailure

\* The publication after the step.
LEMMA GoesOn ==
  ASSUME pub \in DvPubs, NEW report \in DvReports, NEW rc \in DvCodes, Advance(report, rc)
  PROVE  /\ pub' \in DvPubs /\ pub'.event = pub.event /\ pub'.active = pub.active
         /\ pub'.source = pub.source
         /\ pub'.index = pub.index + 1 /\ pub'.rc = rc /\ pub'.report = report
<1>1. PICK p, q : p = pub /\ q = pub' OBVIOUS
<1>2. PICK n \in Nat : n = p.index + 1 BY <1>1 DEF DvPubs
<1>3. q = [p EXCEPT !.report = report, !.rc = rc, !.index = n]
  BY <1>1, <1>2 DEF Advance, DvPubs
<1>4. p \in DvPubs BY <1>1
<1>5. /\ q.event = p.event /\ q.source = p.source /\ q.active = p.active /\ q.index = n
      /\ q.rc = rc /\ q.report = report
  BY <1>3, <1>4 DEF DvPubs
<1>6. q \in DvPubs BY <1>3, <1>4 DEF DvPubs
<1> QED BY <1>1, <1>2, <1>5, <1>6

\* The publication that stopped.
LEMMA Stops ==
  ASSUME pub \in DvPubs, NEW report \in DvReports, NEW rc \in DvCodes, Stop(report, rc)
  PROVE  /\ pub'.rc = rc /\ pub'.report = report
         /\ pc' = "idle"
  BY DEF Stop, DvPubs

DvStepTold == pc' = "idle" => DvTold(pub, pub', reached', faults')

\* A route that does not end the fan-out.
LEMMA AdvanceKeeps ==
  ASSUME DvFanout, pc = "fanout", UNCHANGED <<table, routesBound>>,
         NEW report \in DvReports, NEW rc \in DvCodes, Advance(report, rc),
         reached \subseteq reached', reached' \subseteq reached \cup {pub.index},
         DvNoted(pub, faults) => DvNoted(pub, faults'),
         DvStrict(pub.index) /\ DvEnabled(pub, pub.index) => pub.index \in reached',
         DvPassed(pub, pub', pub.index) \/ DvWasRefused(pub, pub', pub.index, faults')
  PROVE  DvFanout' /\ DvStepTold /\ pub'.rc \in DvCodes /\ pc' \in {"idle", "fanout"}
<1>1. /\ pub \in DvPubs /\ pub.active = routesBound /\ pub.index \in Span(pub.event)
      /\ DvUpTo(pub, pub.index, reached, faults)
  BY DEF DvFanout
<1>2. /\ pub' \in DvPubs /\ pub'.event = pub.event /\ pub'.active = pub.active
      /\ pub'.source = pub.source
      /\ pub'.index = pub.index + 1 /\ pub'.rc = rc
  BY <1>1, GoesOn
<1>3. PICK p, q, n, r, f, s, g :
        /\ p = pub /\ q = pub' /\ n = pub.index /\ r = reached /\ f = faults
        /\ s = reached' /\ g = faults'
  OBVIOUS
<1>4. DvUpTo(q, n + 1, s, g) BY <1>1, <1>2, <1>3, RouteDone
<1>5. pc' = IF n = Max(Span(p.event)) THEN "idle" ELSE "fanout" BY <1>3 DEF Advance
<1>6. CASE n = Max(Span(p.event))
  <2>1. DvTold(p, q, s, g)
    BY <1>1, <1>2, <1>3, <1>4, <1>6, ReturnsAtTheEnd
  <2>2. pc' = "idle" BY <1>5, <1>6
  <2>3. DvFanout' BY <2>2 DEF DvFanout
  <2> QED BY <1>2, <1>3, <2>1, <2>2, <2>3 DEF DvStepTold
<1>7. CASE n # Max(Span(p.event))
  <2>1. pc' = "fanout" BY <1>5, <1>7
  <2>2. pub'.index \in Span(pub'.event) BY <1>1, <1>2, <1>3, <1>7, SpanGoesOn
  <2>3. DvUpTo(pub', pub'.index, reached', faults') BY <1>2, <1>3, <1>4
  <2>4. DvUpTo(pub, pub.index, reached, faults)'
    BY <2>3 DEF DvUpTo, DvRefused, DvEnabled
  <2>5. pub'.active = routesBound' BY <1>1, <1>2
  <2>6. DvFanout' BY <1>2, <2>2, <2>4, <2>5 DEF DvFanout, Span
  <2> QED BY <1>2, <2>1, <2>6 DEF DvStepTold
<1> QED BY <1>6, <1>7

\* What a table entry can be.
LEMMA EntryIs ==
  ASSUME DvGraphTypes, NEW i \in DOMAIN table
  PROVE  table[i] \in Entries
         /\ (Refused(table[i]) => table[i].reason \in DvCodes \ {"OK"})
         /\ (Refused(table[i]) <=> table[i].state \notin {"ENABLED", "OPTIONAL_DISABLED"})
<1>1. table[i] \in Entries BY DEF DvGraphTypes
<1> QED BY <1>1 DEF Entries, Entry, Refused, DvCodes

\* A bound table has an entry for every route.
LEMMA TableCovers ==
  ASSUME DvGraphTypes, DvGraph, routesBound, NEW e, NEW i \in Span(e)
  PROVE  i \in DOMAIN table
<1>1. Len(table) = Len(Routes) BY DEF DvGraph, DvTable
<1>2. DOMAIN table = 1 .. Len(table) BY DEF DvGraphTypes
<1>3. DOMAIN Routes = 1 .. Len(Routes) BY DvSizes
<1> QED BY <1>1, <1>2, <1>3 DEF Span

\* A disabled route is passed over.
LEMMA SkipDisabledTold ==
  ASSUME DvInv, SkipDisabledRoute
  PROVE  DvFanout' /\ DvStepTold /\ pub'.rc \in DvCodes /\ pc' \in {"idle", "fanout"}
<1>1. /\ pc = "fanout" /\ pub.active /\ table[pub.index].state = "OPTIONAL_DISABLED"
      /\ UNCHANGED <<table, routesBound, faults, reached>>
      /\ DvFanout
  BY DEF SkipDisabledRoute, DvInv, graphVars, statVars
<1>2. pub \in DvPubs BY <1>1 DEF DvFanout
<1>3. PICK m : m = Matched OBVIOUS
<1>4. m \in DvReports /\ SameFailure(pub.report, m) BY <1>2, <1>3, MatchedIs
<1>5. PICK r : r = [m EXCEPT !.dropped = @ + 1, !.disabled = @ + 1] OBVIOUS
<1>6. r \in DvReports /\ SameFailure(pub.report, r)
  <2>1. PICK c \in Nat, d \in Nat : c = m.dropped + 1 /\ d = m.disabled + 1
    BY <1>4 DEF DvReports
  <2>2. r = [m EXCEPT !.dropped = c, !.disabled = d] BY <1>4, <1>5, <2>1 DEF DvReports
  <2> QED BY <1>4, <2>2 DEF DvReports, SameFailure
<1>7. pub.rc \in DvCodes BY <1>2 DEF DvPubs
<1>8. Advance(r, pub.rc) BY <1>3, <1>5 DEF SkipDisabledRoute
<1>9. pub'.rc = pub.rc /\ pub'.report = r BY <1>2, <1>6, <1>7, <1>8, GoesOn
<1>10. ~DvRefused(pub, pub.index) /\ ~DvEnabled(pub, pub.index)
  BY <1>1 DEF DvRefused, DvEnabled, Refused
<1>11. DvPassed(pub, pub', pub.index) BY <1>6, <1>9, <1>10 DEF DvPassed, SameFailure
<1> QED BY <1>1, <1>6, <1>7, <1>8, <1>10, <1>11, AdvanceKeeps

\* What was emitted is on the fault bus, or a full registry dropped it.
LEMMA EmitIs == ASSUME NEW f PROVE DvNoted(pub, EmitFault(f, DeliveryFault))
  BY DEF DvNoted, EmitFault, DeliveryFault

\* A refused route is counted, reported and put on the fault bus.
LEMMA SkipRefusedTold ==
  ASSUME DvInv, SkipRefusedRoute
  PROVE  DvFanout' /\ DvStepTold /\ pub'.rc \in DvCodes /\ pc' \in {"idle", "fanout"}
<1>1. /\ pc = "fanout" /\ pub.active /\ Refused(table[pub.index])
      /\ UNCHANGED <<table, routesBound, reached>>
      /\ faults' = EmitFault(faults, DeliveryFault)
      /\ DvFanout /\ DvGraphTypes /\ DvGraph
  BY DEF SkipRefusedRoute, DvInv, graphVars
<1>2. pub \in DvPubs /\ pub.index \in Span(pub.event) /\ routesBound
  BY <1>1 DEF DvFanout
<1>3. PICK m : m = Matched OBVIOUS
<1>4. m \in DvReports /\ SameFailure(pub.report, m) BY <1>2, <1>3, MatchedIs
<1>5. PICK k : k = [m EXCEPT !.dropped = @ + 1, !.rejected = @ + 1] OBVIOUS
<1>6. k \in DvReports /\ SameFailure(pub.report, k)
  <2>1. PICK c \in Nat, d \in Nat : c = m.dropped + 1 /\ d = m.rejected + 1
    BY <1>4 DEF DvReports
  <2>2. k = [m EXCEPT !.dropped = c, !.rejected = d] BY <1>4, <1>5, <2>1 DEF DvReports
  <2> QED BY <1>4, <2>2 DEF DvReports, SameFailure
<1>7. PICK rc, a : rc = table[pub.index].reason /\ a = Routes[pub.index].target OBVIOUS
<1>8. rc \in DvCodes \ {"OK"}
  <2>1. pub.index \in DOMAIN table BY <1>1, <1>2, TableCovers
  <2> QED BY <1>1, <1>7, <2>1, EntryIs
<1>9. a \in Actors
  <2>1. pub.index \in DOMAIN Routes BY <1>2 DEF Span
  <2> QED BY <1>7, <2>1, RouteIs
<1>10. PICK r : r = Failed(k, rc, a) OBVIOUS
<1>11. /\ r \in DvReports
       /\ k.first_error = "OK" => r.first_error = rc /\ r.first_failed = a
       /\ k.first_error # "OK" => SameFailure(k, r)
  BY <1>6, <1>8, <1>9, <1>10, FailedIs
<1>12. Advance(r, rc) BY <1>3, <1>5, <1>7, <1>10 DEF SkipRefusedRoute, CurrentRoute
<1>13. pub'.rc = rc /\ pub'.report = r BY <1>2, <1>8, <1>11, <1>12, GoesOn
<1>14. DvRefused(pub, pub.index) /\ ~DvEnabled(pub, pub.index)
  BY <1>1 DEF DvRefused, DvEnabled, Refused
<1>15. DvFirst(pub, pub', pub.index)
  BY <1>6, <1>7, <1>11, <1>13 DEF DvFirst, SameFailure
<1>16. DvNoted(pub, faults') BY <1>1, EmitIs
<1>17. DvWasRefused(pub, pub', pub.index, faults')
  BY <1>8, <1>13, <1>14, <1>15, <1>16 DEF DvWasRefused
<1>18. DvNoted(pub, faults) => DvNoted(pub, faults') BY <1>16
<1> QED BY <1>1, <1>8, <1>11, <1>12, <1>14, <1>17, <1>18, AdvanceKeeps

\* What a delivery returns, by the effect of its push
\* (ev_actor_registry_delivery_impl).
LEMMA ResultIs ==
  ASSUME NEW a, NEW effect \in Effects, a \notin registered => effect = "REJECTED"
  PROVE  /\ DeliveryResult(a, effect) \in DvCodes
         /\ DeliveryResult(a, effect) = "OK" <=> effect # "REJECTED"
         /\ Accepted(effect) => DeliveryResult(a, effect) = "OK"
         /\ DeliveryResult(a, effect) = "OK" /\ effect # "DROPPED" => Accepted(effect)
  BY DEF DeliveryResult, DvCodes, Accepted, Effects

\* A delivery: strict routes are served or end the publication with an error.
LEMMA DeliverOneTold ==
  ASSUME DvInv, DeliverOne
  PROVE  DvFanout' /\ DvStepTold /\ pub'.rc \in DvCodes /\ pc' \in {"idle", "fanout"}
<1>1. /\ pc = "fanout" /\ DvFanout /\ DvGraphTypes /\ DvStatTypes
      /\ UNCHANGED <<table, routesBound>>
      /\ pub.active => table[pub.index].state = "ENABLED"
  BY DEF DeliverOne, DvInv, graphVars
<1>2. /\ pub \in DvPubs /\ pub.index \in Span(pub.event) /\ pub.event \in Events
      /\ DvUpTo(pub, pub.index, reached, faults)
  BY <1>1 DEF DvFanout, DvPubs
<1>3. PICK a, qos, e : a = CurrentRoute.target /\ qos = CurrentRoute.qos /\ e = pub.event
  OBVIOUS
<1>4. /\ a = Routes[pub.index].target /\ qos = Routes[pub.index].qos
      /\ a \in Actors /\ e \in Events
  <2>1. pub.index \in DOMAIN Routes BY <1>2 DEF Span
  <2> QED BY <1>2, <1>3, <2>1, RouteIs DEF CurrentRoute
<1>5. PICK effect : effect = Pushed(a, e, qos).effect OBVIOUS
<1>6. PICK rc : rc = DeliveryResult(a, effect) OBVIOUS
<1>7. PICK m : m = Matched OBVIOUS
<1>8. PICK k : k = [m EXCEPT !.attempted = @ + 1,
                             !.delivered = IF Accepted(effect) THEN @ + 1 ELSE @,
                             !.dropped = IF Accepted(effect) THEN @ ELSE @ + 1]
  OBVIOUS
<1>9. PICK r : r = Effect(k, effect) OBVIOUS
<1>10. /\ RegistryDelivery(a, e, qos)
       /\ faults' = IF rc # "OK" /\ FailureIsStrict(qos)
                    THEN EmitFault(faults, DeliveryFault) ELSE faults
       /\ reached' = IF Accepted(effect) THEN reached \cup {pub.index} ELSE reached
       /\ AfterDelivery(r, rc, CurrentRoute)
  BY <1>3, <1>5, <1>6, <1>7, <1>8, <1>9 DEF DeliverOne
<1>11. /\ effect \in Effects
       /\ a \notin registered => effect = "REJECTED"
       /\ effect \in {"COALESCED", "REPLACED", "DROPPED"} =>
            qos \in {"COALESCED", "LATEST_ONLY"}
  BY <1>1, <1>4, <1>5, <1>10, DeliveryIs
<1>12. /\ rc \in DvCodes
       /\ Accepted(effect) => rc = "OK"
       /\ rc = "OK" /\ effect # "DROPPED" => Accepted(effect)
  BY <1>6, <1>11, ResultIs
<1>13. r \in DvReports /\ SameFailure(pub.report, r)
  <2>1. m \in DvReports /\ SameFailure(pub.report, m) BY <1>2, <1>7, MatchedIs
  <2>2. PICK x \in Nat, y \in Nat, z \in Nat :
          /\ x = m.attempted + 1
          /\ y = IF Accepted(effect) THEN m.delivered + 1 ELSE m.delivered
          /\ z = IF Accepted(effect) THEN m.dropped ELSE m.dropped + 1
    BY <2>1 DEF DvReports
  <2>3. k = [m EXCEPT !.attempted = x, !.delivered = y, !.dropped = z]
    BY <1>8, <2>1, <2>2 DEF DvReports
  <2>4. k \in DvReports /\ SameFailure(pub.report, k)
    BY <2>1, <2>3 DEF DvReports, SameFailure
  <2>5. r \in DvReports /\ SameFailure(k, r) BY <1>9, <2>4, EffectIs
  <2> QED BY <2>4, <2>5 DEF SameFailure
<1>14. ~DvRefused(pub, pub.index) /\ DvEnabled(pub, pub.index)
  BY <1>1 DEF DvRefused, DvEnabled, Refused
<1>15. DvStrict(pub.index) <=> FailureIsStrict(qos)
  BY <1>4 DEF DvStrict, FailureIsStrict
<1>16. CASE rc = "OK" \/ ~FailureIsStrict(qos)
  <2>1. Advance(r, pub.rc) BY <1>3, <1>10, <1>16 DEF AfterDelivery
  <2>2. pub.rc \in DvCodes BY <1>2 DEF DvPubs
  <2>3. pub'.rc = pub.rc /\ pub'.report = r BY <1>2, <1>13, <2>1, <2>2, GoesOn
  <2>4. DvPassed(pub, pub', pub.index) BY <1>13, <1>14, <2>3 DEF DvPassed, SameFailure
  <2>5. DvStrict(pub.index) => pub.index \in reached'
    <3>1. SUFFICES ASSUME FailureIsStrict(qos) PROVE pub.index \in reached' BY <1>15
    <3>2. rc = "OK" BY <1>16, <3>1
    <3>3. effect # "DROPPED" BY <1>11, <3>1 DEF FailureIsStrict, StrictClasses
    <3>4. Accepted(effect) BY <1>12, <3>2, <3>3
    <3> QED BY <1>10, <3>4
  <2>6. reached \subseteq reached' /\ reached' \subseteq reached \cup {pub.index}
    BY <1>10
  <2>7. DvNoted(pub, faults) => DvNoted(pub, faults') BY <1>10, <1>16
  <2> QED BY <1>1, <1>13, <2>1, <2>2, <2>4, <2>5, <2>6, <2>7, AdvanceKeeps
<1>17. CASE rc # "OK" /\ FailureIsStrict(qos)
  <2>1. PICK l : l = Failed(r, rc, a) OBVIOUS
  <2>2. Stop(l, rc) BY <1>3, <1>10, <1>17, <2>1 DEF AfterDelivery
  <2>3. /\ l \in DvReports
        /\ r.first_error = "OK" => l.first_error = rc /\ l.first_failed = a
        /\ r.first_error # "OK" => SameFailure(r, l)
    BY <1>4, <1>12, <1>13, <2>1, FailedIs
  <2>4. pub'.rc = rc /\ pub'.report = l /\ pc' = "idle"
    BY <1>2, <1>12, <2>2, <2>3, Stops
  <2>5. DvFirst(pub, pub', pub.index)
    BY <1>4, <1>13, <2>3, <2>4 DEF DvFirst, SameFailure
  <2>6. reached' = reached BY <1>10, <1>12, <1>17
  <2>7. DvNoted(pub, faults') BY <1>10, <1>17, EmitIs
  <2>8. PICK p, q, f, g : p = pub /\ q = pub' /\ f = faults /\ g = faults' OBVIOUS
  <2>9. DvTold(p, q, reached, g)
    BY <1>2, <1>14, <1>15, <1>17, <2>4, <2>5, <2>7, <2>8, ReturnsAtAFailure
  <2>10. DvTold(pub, pub', reached', faults') BY <2>6, <2>8, <2>9
  <2>11. DvFanout' BY <2>4 DEF DvFanout
  <2> QED BY <1>12, <2>4, <2>10, <2>11 DEF DvStepTold
<1> QED BY <1>16, <1>17

\* A delivery: the counters.
LEMMA DeliverOneCounted ==
  ASSUME DvInv, DeliverOne
  PROVE  DvStatTypes' /\ DvFresh' /\ CountersReconcile'
<1>1. /\ pc = "fanout" /\ DvFanout /\ DvStatTypes /\ DvFresh /\ CountersReconcile
      /\ registered' = registered /\ rebuilt' = rebuilt
  BY DEF DeliverOne, DvInv, graphVars, historyVars
<1>2. pub.index \in Span(pub.event) /\ pub.event \in Events
  BY <1>1 DEF DvFanout, DvPubs
<1>3. PICK a, qos, e : a = CurrentRoute.target /\ qos = CurrentRoute.qos /\ e = pub.event
  OBVIOUS
<1>4. a \in Actors /\ e \in Events
  <2>1. pub.index \in DOMAIN Routes BY <1>2 DEF Span
  <2> QED BY <1>2, <1>3, <2>1, RouteIs DEF CurrentRoute
<1>5. PICK effect : effect = Pushed(a, e, qos).effect OBVIOUS
<1>6. /\ RegistryDelivery(a, e, qos)
      /\ metrics' = [attempted |-> metrics.attempted + 1,
                     ok |-> metrics.ok + (IF Accepted(effect) THEN 1 ELSE 0),
                     failed |-> metrics.failed + (IF Accepted(effect) THEN 0 ELSE 1),
                     merged |-> metrics.merged
                       + (IF effect \in {"COALESCED", "REPLACED"} THEN 1 ELSE 0)]
  BY <1>3, <1>5 DEF DeliverOne
<1>7. metrics \in [attempted : Nat, ok : Nat, failed : Nat, merged : Nat]
  BY <1>1 DEF DvStatTypes
<1>8. metrics' \in [attempted : Nat, ok : Nat, failed : Nat, merged : Nat]
  BY <1>6, <1>7
<1>9. metrics'.merged = metrics.merged
                          + (IF effect \in {"COALESCED", "REPLACED"} THEN 1 ELSE 0)
  BY <1>6
<1> QED BY <1>1, <1>4, <1>5, <1>6, <1>8, <1>9, DeliveryCounted

\* ev_actor_send: the counters.
LEMMA SendCounted ==
  ASSUME DvInv, NEW e \in Events, NEW a \in Actors, Send(e, a)
  PROVE  DvStatTypes' /\ DvFresh' /\ CountersReconcile'
<1>1. /\ DvStatTypes /\ DvFresh /\ CountersReconcile /\ metrics' = metrics
      /\ registered' = registered /\ rebuilt' = rebuilt
  BY DEF Send, DvInv, graphVars, historyVars
<1>2. CASE UNCHANGED <<mailbox, runtimes, registry>>
  <2>1. DvStatTypes' BY <1>1, <1>2 DEF DvStatTypes
  <2>2. DvFresh' BY <1>1, <1>2 DEF DvFresh
  <2>3. CountersReconcile' BY <1>1, <1>2 DEF CountersReconcile, Merged
  <2> QED BY <2>1, <2>2, <2>3
<1>3. CASE RegistryDelivery(a, e, "CRITICAL")
  <2>1. PICK effect : effect = Pushed(a, e, "CRITICAL").effect OBVIOUS
  <2>2. effect \notin {"COALESCED", "REPLACED"} BY <1>1, <1>3, <2>1, DeliveryIs
  <2>3. metrics' \in [attempted : Nat, ok : Nat, failed : Nat, merged : Nat]
    BY <1>1 DEF DvStatTypes
  <2>4. metrics.merged \in Nat BY <1>1 DEF DvStatTypes
  <2>5. metrics'.merged = metrics.merged
                            + (IF effect \in {"COALESCED", "REPLACED"} THEN 1 ELSE 0)
    BY <1>1, <2>2, <2>4
  <2> QED BY <1>1, <1>3, <2>1, <2>3, <2>5, DeliveryCounted
<1> QED BY <1>2, <1>3 DEF Send

-----------------------------------------------------------------------------
(* The builder. *)

\* ev_runtime_builder_classify_route
LEMMA ClassifiedIs ==
  ASSUME NEW i \in DOMAIN Routes
  PROVE  /\ ClassifyRoute(Routes[i]) \in Entries
         /\ ClassifyRoute(Routes[i]).state = "ENABLED" => Routes[i].target \in requested
         /\ Routes[i].target \in requested =>
              ClassifyRoute(Routes[i]).state \in {"ENABLED", "QOS_CONFLICT"}
  BY DEF ClassifyRoute, Entries, Entry

\* Binding leaves the classification of a prefix of the routes, of all if it
\* succeeds.
LEMMA BoundIs ==
  /\ BoundTable.entries \in Seq(Entries)
  /\ Len(BoundTable.entries) <= Len(Routes)
  /\ BoundTable.bound \in BOOLEAN
  /\ BoundTable.bound => Len(BoundTable.entries) = Len(Routes)
  /\ \A i \in DOMAIN BoundTable.entries :
       i \in DOMAIN Routes /\ BoundTable.entries[i] = ClassifyRoute(Routes[i])
<1>1. Len(Routes) \in Nat /\ DOMAIN Routes = 1 .. Len(Routes) BY DvSizes
<1>2. PICK full : full = [i \in DOMAIN Routes |-> ClassifyRoute(Routes[i])] OBVIOUS
<1>3. /\ full \in Seq(Entries) /\ Len(full) = Len(Routes) /\ DOMAIN full = DOMAIN Routes
      /\ \A i \in DOMAIN Routes : full[i] = ClassifyRoute(Routes[i])
  <2>1. \A i \in DOMAIN Routes : full[i] \in Entries BY <1>2, ClassifiedIs
  <2>2. full \in [1 .. Len(Routes) -> Entries] BY <1>1, <1>2, <2>1
  <2> QED BY <1>1, <1>2, <2>2
<1>4. PICK refused : refused = {i \in DOMAIN full : Refused(full[i])} OBVIOUS
<1>5. BoundTable = IF strict /\ refused # {}
                   THEN [entries |-> SubSeq(full, 1, Min(refused)), bound |-> FALSE,
                         refused |-> {Min(refused)}]
                   ELSE [entries |-> full, bound |-> TRUE, refused |-> refused]
  BY <1>2, <1>4 DEF BoundTable
<1>6. CASE strict /\ refused # {}
  <2>1. refused \in SUBSET Nat /\ refused \subseteq 1 .. Len(Routes) BY <1>1, <1>3, <1>4
  <2>2. PICK n \in refused : \A i \in refused : n <= i BY <1>6, <2>1, LeastElement
  <2>3. Min(refused) = n BY <2>1, <2>2, MinIs
  <2>4. n \in 1 .. Len(full) BY <1>3, <2>1
  <2>5. PICK t : t = SubSeq(full, 1, n) OBVIOUS
  <2>6. t \in Seq(Entries) /\ Len(t) = n /\ \A i \in 1 .. n : t[i] = full[i]
    BY <1>3, <2>4, <2>5
  <2>7. BoundTable.entries = t /\ BoundTable.bound = FALSE BY <1>5, <1>6, <2>3, <2>5
  <2>8. DOMAIN t = 1 .. n /\ n <= Len(Routes) BY <1>3, <2>4, <2>6
  <2>9. \A i \in DOMAIN t : i \in DOMAIN Routes /\ t[i] = ClassifyRoute(Routes[i])
    BY <1>1, <1>3, <2>1, <2>4, <2>6, <2>8
  <2>10. Len(t) <= Len(Routes) BY <2>6, <2>8
  <2>11. BoundTable.bound \in BOOLEAN BY <2>7
  <2>12. \A i \in DOMAIN BoundTable.entries :
           i \in DOMAIN Routes /\ BoundTable.entries[i] = ClassifyRoute(Routes[i])
    BY <2>7, <2>9
  <2>13. BoundTable.entries \in Seq(Entries) /\ Len(BoundTable.entries) <= Len(Routes)
    BY <2>6, <2>7, <2>10
  <2>14. BoundTable.bound => Len(BoundTable.entries) = Len(Routes) BY <2>7
  <2> QED BY <2>11, <2>12, <2>13, <2>14
<1>7. CASE ~(strict /\ refused # {})
  <2>1. BoundTable.entries = full /\ BoundTable.bound = TRUE BY <1>5, <1>7
  <2>2. \A i \in DOMAIN BoundTable.entries :
          i \in DOMAIN Routes /\ BoundTable.entries[i] = ClassifyRoute(Routes[i])
    BY <1>3, <2>1
  <2>3. Len(full) <= Len(Routes) BY <1>1, <1>3
  <2>4. BoundTable.entries \in Seq(Entries) /\ Len(BoundTable.entries) <= Len(Routes)
    BY <1>3, <2>1, <2>3
  <2>5. BoundTable.bound \in BOOLEAN BY <2>1
  <2>6. BoundTable.bound => Len(BoundTable.entries) = Len(Routes) BY <1>3, <2>1
  <2> QED BY <2>2, <2>4, <2>5, <2>6
<1> QED BY <1>6, <1>7

\* ev_runtime_builder_bind_routes keeps what the table promises.
LEMMA BindKeeps ==
  ASSUME BindTable, requested' = requested
  PROVE  /\ table' \in Seq(Entries) /\ Len(table') <= Len(Routes)
         /\ routesBound' \in BOOLEAN /\ DvTable'
         /\ (built = "OK" /\ ~lateAdd' => ~lateAdd)
<1>1. PICK b : b = BoundTable OBVIOUS
<1>2. table' = b.entries /\ routesBound' = b.bound
      /\ (built = "OK" /\ ~lateAdd' => ~lateAdd)
  BY <1>1 DEF BindTable
<1>3. /\ b.entries \in Seq(Entries) /\ Len(b.entries) <= Len(Routes)
      /\ b.bound \in BOOLEAN
      /\ b.bound => Len(b.entries) = Len(Routes)
      /\ \A i \in DOMAIN b.entries :
           i \in DOMAIN Routes /\ b.entries[i] = ClassifyRoute(Routes[i])
  BY <1>1, BoundIs
<1>4. \A i \in DOMAIN table' :
        /\ table'[i].state = "ENABLED" => Routes[i].target \in requested'
        /\ Routes[i].target \in requested' => table'[i].state \in {"ENABLED", "QOS_CONFLICT"}
  BY <1>2, <1>3, ClassifiedIs
<1>5. DvTable' BY <1>2, <1>3, <1>4 DEF DvTable
<1> QED BY <1>2, <1>3, <1>5

\* Without anybody's runtime or mailbox changing, the counters agree as before.
LEMMA CountsStay ==
  ASSUME CountersReconcile, registry' = registry, metrics'.merged = metrics.merged,
         \A a \in Actors : /\ runtimes'[a].enqueued = runtimes[a].enqueued
                           /\ Merged(a)' = Merged(a),
         rebuilt => rebuilt'
  PROVE  CountersReconcile'
<1>1. [a \in Actors |-> runtimes'[a].enqueued] = [a \in Actors |-> runtimes[a].enqueued]
  OBVIOUS
<1>2. [a \in Actors |-> Merged(a)'] = [a \in Actors |-> Merged(a)] OBVIOUS
<1>3. registry.attempted = registry.succeeded + registry.failed BY DEF CountersReconcile
<1>4. ~rebuilt =>
        /\ registry.succeeded = Total([a \in Actors |-> runtimes[a].enqueued])
        /\ metrics.merged = Total([a \in Actors |-> Merged(a)])
  BY DEF CountersReconcile
<1> QED BY <1>1, <1>2, <1>3, <1>4 DEF CountersReconcile

\* ev_runtime_builder_build registers actors: those that were not registered had
\* nothing in their mailboxes and nothing counted.
LEMMA RegisterKeeps ==
  ASSUME DvInv, NEW failing, RegisterActors(failing), requested' = requested,
         registry' = registry, metrics' = metrics
  PROVE  /\ registered' \subseteq requested /\ built' \in {"OK", "FAILED"}
         /\ built' = "OK" => requested \subseteq registered'
         /\ DvStatTypes' /\ DvFresh' /\ CountersReconcile'
<1>0. registered \subseteq requested /\ DvStatTypes /\ DvFresh /\ CountersReconcile
  BY DEF DvInv, DvGraph
<1>1. PICK stops : stops = {a \in requested : a \in registered \/ a \in failing} OBVIOUS
<1>2. PICK done : done = IF stops = {} THEN requested
                         ELSE {a \in requested : a <= Min(stops)}
  OBVIOUS
<1>3. /\ registered' = registered \cup done
      /\ mailbox' = [a \in Actors |-> IF a \in done THEN << >> ELSE mailbox[a]]
      /\ runtimes' = [a \in Actors |-> IF a \in done
                                       THEN [enqueued |-> 0, handled |-> 0]
                                       ELSE runtimes[a]]
      /\ built' = IF stops = {} THEN "OK" ELSE "FAILED"
      /\ rebuilt' = (rebuilt \/ done \cap registered # {})
  BY <1>1, <1>2 DEF RegisterActors
<1>4. done \subseteq requested BY <1>2
<1>5. registered' \subseteq requested /\ built' \in {"OK", "FAILED"} BY <1>0, <1>3, <1>4
<1>6. built' = "OK" => requested \subseteq registered' BY <1>2, <1>3
<1>7. DvStatTypes'
  <2>1. mailbox' \in [Actors -> Seq(DvMessages)] BY <1>0, <1>3 DEF DvStatTypes
  <2>2. \A a \in Actors : Len(mailbox'[a]) <= RingCapacity
    BY <1>0, <1>3, DvSizes DEF DvStatTypes
  <2>3. runtimes' \in [Actors -> [enqueued : Nat, handled : Nat]]
    BY <1>0, <1>3 DEF DvStatTypes
  <2> QED BY <1>0, <2>1, <2>2, <2>3 DEF DvStatTypes
<1>8. DvFresh' BY <1>0, <1>3 DEF DvFresh
<1>9. CountersReconcile'
  <2>1. CASE rebuilt'
    BY <1>0, <2>1 DEF CountersReconcile
  <2>2. CASE ~rebuilt'
    <3>1. ~rebuilt /\ done \cap registered = {} BY <1>3, <2>2
    <3>2. ASSUME NEW a \in Actors
          PROVE  runtimes'[a] = runtimes[a] /\ mailbox'[a] = mailbox[a]
      <4>1. CASE a \in done
        <5>1. a \notin registered BY <3>1, <4>1
        <5>2. runtimes[a] = [enqueued |-> 0, handled |-> 0] /\ mailbox[a] = << >>
          BY <1>0, <5>1 DEF DvFresh
        <5> QED BY <1>3, <4>1, <5>2
      <4>2. CASE a \notin done BY <1>3, <4>2
      <4> QED BY <4>1, <4>2
    <3>3. \A a \in Actors : /\ runtimes'[a].enqueued = runtimes[a].enqueued
                            /\ Merged(a)' = Merged(a)
      BY <3>2 DEF Merged
    <3> QED BY <1>0, <3>1, <3>3, CountsStay
  <2> QED BY <2>1, <2>2
<1> QED BY <1>5, <1>6, <1>7, <1>8, <1>9


\* A function that is the same on every actor has the same total.
LEMMA SameTotal ==
  ASSUME NEW f \in [Actors -> Int], \A a \in Actors : f[a] = 0
  PROVE  Total(f) = 0
<1>1. SumOf(Actors, f) = 0 BY ActorsFinite, SumOfZeros
<1> QED BY <1>1, TotalIs

\* The initial state.
LEMMA InitKeeps == ASSUME Init PROVE DvInv
<1>1. DvGraphTypes
  <2>1. << >> \in Seq(Entries) /\ Len(<< >>) = 0 OBVIOUS
  <2>2. Len(Routes) \in Nat BY DvSizes
  <2>3. table \in Seq(Entries) /\ Len(table) <= Len(Routes) BY <2>1, <2>2 DEF Init
  <2> QED BY <2>3 DEF Init, DvGraphTypes
<1>2. DvStatTypes
  <2>1. mailbox = [a \in Actors |-> << >>] BY DEF Init
  <2>2. mailbox \in [Actors -> Seq(DvMessages)] BY <2>1
  <2>3. \A a \in Actors : Len(mailbox[a]) <= RingCapacity BY <2>1, DvSizes
  <2> QED BY <2>2, <2>3 DEF Init, DvStatTypes
<1>3. DvPubTypes BY DvSizes DEF Init, DvPubTypes, DvCodes, NoPub
<1>4. DvGraph
  <2>1. DOMAIN table = {} BY DEF Init
  <2> QED BY <2>1 DEF Init, DvGraph, DvTable
<1>5. DvFresh BY DEF Init, DvFresh
<1>6. CountersReconcile
  <2>1. PICK f : f = [a \in Actors |-> runtimes[a].enqueued] OBVIOUS
  <2>2. PICK k : k = [a \in Actors |-> Merged(a)] OBVIOUS
  <2>3. \A a \in Actors : runtimes[a] = [enqueued |-> 0, handled |-> 0] /\ mailbox[a] = << >>
    BY DEF Init
  <2>4. f \in [Actors -> Int] /\ \A a \in Actors : f[a] = 0 BY <2>1, <2>3
  <2>5. \A a \in Actors : Merged(a) = 0 BY <2>3 DEF Merged
  <2>6. k \in [Actors -> Int] /\ \A a \in Actors : k[a] = 0 BY <2>2, <2>5
  <2>7. Total(f) = 0 /\ Total(k) = 0 BY <2>4, <2>6, SameTotal
  <2>8. registry.attempted = 0 /\ registry.succeeded = 0 /\ registry.failed = 0
        /\ metrics.merged = 0
    BY DEF Init
  <2> QED BY <2>1, <2>2, <2>7, <2>8 DEF CountersReconcile
<1>7. DvFanout BY DEF Init, DvFanout
<1> QED BY <1>1, <1>2, <1>3, <1>4, <1>5, <1>6, <1>7 DEF DvInv


-----------------------------------------------------------------------------
(* The steps keep the invariant. *)

\* Nothing is sent, handled or registered.
LEMMA StatsSame ==
  ASSUME DvInv, UNCHANGED <<mailbox, runtimes, registry, metrics, registered, rebuilt>>
  PROVE  DvStatTypes' /\ DvFresh' /\ CountersReconcile'
<1>0. DvStatTypes /\ DvFresh /\ CountersReconcile BY DEF DvInv
<1>1. DvStatTypes' BY <1>0 DEF DvStatTypes
<1>2. DvFresh' BY <1>0 DEF DvFresh
<1>3. CountersReconcile' BY <1>0 DEF CountersReconcile, Merged
<1> QED BY <1>1, <1>2, <1>3

\* Nothing is published.
LEMMA IdleSame ==
  ASSUME DvInv, pc = "idle", UNCHANGED <<pc, pub, posts>>
  PROVE  DvPubTypes' /\ DvFanout'
  BY DEF DvInv, DvPubTypes, DvFanout

\* The graph stays as it is.
LEMMA GraphSame ==
  ASSUME DvInv, UNCHANGED <<requested, strict, table, routesBound, registered, built, lateAdd>>
  PROVE  DvGraphTypes' /\ DvGraph'
  BY DEF DvInv, DvGraphTypes, DvGraph, DvTable

\* ev_runtime_builder_add_module
LEMMA AddModuleKeeps ==
  ASSUME DvInv, NEW a \in Actors, AddModule(a)
  PROVE  DvInv'
<1>0. /\ pc = "idle" /\ UNCHANGED <<strict, table, routesBound, registered, built>>
      /\ UNCHANGED <<mailbox, runtimes, registry, metrics, faults>>
      /\ UNCHANGED <<pc, pub, posts, reached, rebuilt>>
      /\ requested' = requested \cup {a}
      /\ lateAdd' = (lateAdd \/ (a \notin requested /\ (routesBound \/ built = "OK")))
  BY DEF AddModule, statVars, pubVars
<1>1. DvGraphTypes' BY <1>0 DEF DvInv, DvGraphTypes
<1>2. DvGraph /\ DvTable BY DEF DvInv, DvGraph
<1>3. ~lateAdd' /\ (routesBound \/ built = "OK") => ~lateAdd /\ requested' = requested
  BY <1>0
<1>4. DvTable'
  <2>1. routesBound' => Len(table') = Len(Routes) BY <1>0, <1>2 DEF DvTable
  <2>2. \A i \in DOMAIN table' :
          table'[i].state = "ENABLED" => Routes[i].target \in requested'
    BY <1>0, <1>2 DEF DvTable
  <2>3. routesBound' /\ ~lateAdd' =>
          \A i \in DOMAIN table' : Routes[i].target \in requested' =>
            table'[i].state \in {"ENABLED", "QOS_CONFLICT"}
    BY <1>0, <1>2, <1>3 DEF DvTable
  <2> QED BY <2>1, <2>2, <2>3 DEF DvTable
<1>5. DvGraph' BY <1>0, <1>2, <1>3, <1>4 DEF DvGraph
<1>6. DvStatTypes' /\ DvFresh' /\ CountersReconcile' BY <1>0, StatsSame
<1>7. DvPubTypes' /\ DvFanout' BY <1>0, IdleSame
<1> QED BY <1>1, <1>5, <1>6, <1>7 DEF DvInv

\* Choosing strict validation changes nothing that is bound.
LEMMA SetStrictKeeps == ASSUME DvInv, SetStrict PROVE DvInv'
<1>0. /\ pc = "idle" /\ UNCHANGED <<requested, table, routesBound, registered, built>>
      /\ UNCHANGED <<mailbox, runtimes, registry, metrics, faults>>
      /\ UNCHANGED <<pc, pub, posts, reached, lateAdd, rebuilt>>
      /\ strict' \in BOOLEAN
  BY DEF SetStrict, statVars, pubVars, historyVars
<1>1. DvGraphTypes' BY <1>0 DEF DvInv, DvGraphTypes
<1>2. DvGraph' BY <1>0 DEF DvInv, DvGraph, DvTable
<1>3. DvStatTypes' /\ DvFresh' /\ CountersReconcile' BY <1>0, StatsSame
<1>4. DvPubTypes' /\ DvFanout' BY <1>0, IdleSame
<1> QED BY <1>1, <1>2, <1>3, <1>4 DEF DvInv

\* ev_runtime_builder_bind_routes
LEMMA BindRoutesKeeps == ASSUME DvInv, BindRoutes PROVE DvInv'
<1>0. /\ pc = "idle" /\ BindTable /\ UNCHANGED <<requested, strict, registered, built>>
      /\ UNCHANGED <<mailbox, runtimes, registry, metrics>>
      /\ UNCHANGED <<pc, pub, posts, reached, rebuilt>>
  BY DEF BindRoutes, pubVars
<1>1. /\ table' \in Seq(Entries) /\ Len(table') <= Len(Routes)
      /\ routesBound' \in BOOLEAN /\ DvTable'
      /\ built = "OK" /\ ~lateAdd' => ~lateAdd
  BY <1>0, BindKeeps
<1>2. DvGraphTypes' BY <1>0, <1>1 DEF DvInv, DvGraphTypes
<1>3. DvGraph' BY <1>0, <1>1 DEF DvInv, DvGraph
<1>4. DvStatTypes' /\ DvFresh' /\ CountersReconcile' BY <1>0, StatsSame
<1>5. DvPubTypes' /\ DvFanout' BY <1>0, IdleSame
<1> QED BY <1>2, <1>3, <1>4, <1>5 DEF DvInv

\* ev_runtime_builder_build
LEMMA BuildKeeps == ASSUME DvInv, NEW failing, Build(failing) PROVE DvInv'
<1>0. /\ pc = "idle" /\ UNCHANGED <<requested, strict, registry, metrics>>
      /\ UNCHANGED <<pc, pub, posts, reached>>
      /\ IF routesBound THEN UNCHANGED <<table, routesBound, faults, lateAdd>> ELSE BindTable
      /\ IF routesBound' THEN RegisterActors(failing)
         ELSE built' = "FAILED" /\ UNCHANGED <<registered, mailbox, runtimes, rebuilt>>
  BY DEF Build, pubVars
<1>1. DvGraphTypes /\ DvGraph /\ DvTable BY DEF DvInv, DvGraph
<1>2. /\ table' \in Seq(Entries) /\ Len(table') <= Len(Routes)
      /\ routesBound' \in BOOLEAN /\ DvTable'
  <2>1. CASE routesBound
    <3>1. UNCHANGED <<table, routesBound, lateAdd>> BY <1>0, <2>1
    <3>2. DvTable' BY <1>0, <1>1, <3>1 DEF DvTable
    <3> QED BY <1>1, <3>1, <3>2 DEF DvGraphTypes
  <2>2. CASE ~routesBound
    <3>1. BindTable BY <1>0, <2>2
    <3> QED BY <1>0, <3>1, BindKeeps
  <2> QED BY <2>1, <2>2
<1>3. /\ registered' \subseteq requested /\ built' \in {"NONE", "OK", "FAILED"}
      /\ built' = "OK" => requested \subseteq registered'
      /\ DvStatTypes' /\ DvFresh' /\ CountersReconcile'
  <2>1. CASE routesBound'
    <3>1. RegisterActors(failing) BY <1>0, <2>1
    <3> QED BY <1>0, <3>1, RegisterKeeps
  <2>2. CASE ~routesBound'
    <3>1. built' = "FAILED" /\ UNCHANGED <<registered, mailbox, runtimes, rebuilt>>
      BY <1>0, <2>2
    <3>2. DvStatTypes' /\ DvFresh' /\ CountersReconcile' BY <1>0, <3>1, StatsSame
    <3> QED BY <1>1, <3>1, <3>2 DEF DvGraph
  <2> QED BY <2>1, <2>2
<1>4. DvGraphTypes' BY <1>0, <1>1, <1>2, <1>3 DEF DvGraphTypes
<1>5. DvGraph' BY <1>0, <1>2, <1>3 DEF DvGraph
<1>6. DvPubTypes' /\ DvFanout' BY <1>0, IdleSame
<1> QED BY <1>3, <1>4, <1>5, <1>6 DEF DvInv

\* ev_actor_runtime_process_one: what is handled is no longer pending.
LEMMA HandleKeeps == ASSUME DvInv, NEW a \in Actors, Handle(a) PROVE DvInv'
<1>0. /\ pc = "idle" /\ a \in registered /\ mailbox[a] # << >>
      /\ mailbox' = [mailbox EXCEPT ![a] = Tail(@)]
      /\ runtimes' = [runtimes EXCEPT ![a].handled = @ + 1]
      /\ UNCHANGED <<requested, strict, table, routesBound, registered, built, lateAdd>>
      /\ UNCHANGED <<registry, metrics, pc, pub, posts, rebuilt>>
  BY DEF Handle, graphVars, pubVars, historyVars
<1>1. DvGraphTypes' /\ DvGraph' BY <1>0, GraphSame
<1>2. DvPubTypes' /\ DvFanout' BY <1>0, IdleSame
<1>3. DvStatTypes /\ DvFresh /\ CountersReconcile BY DEF DvInv
<1>4. PICK q, t : q = mailbox[a] /\ t = Tail(q) OBVIOUS
<1>5. q \in Seq(DvMessages) /\ q # << >> /\ Len(q) <= RingCapacity /\ Len(q) \in Nat
  BY <1>0, <1>3, <1>4 DEF DvStatTypes
<1>6. t \in Seq(DvMessages) /\ Len(t) = Len(q) - 1 BY <1>4, <1>5
<1>7. mailbox' = [mailbox EXCEPT ![a] = t] BY <1>0, <1>4
<1>8. /\ mailbox \in [Actors -> Seq(DvMessages)]
      /\ runtimes \in [Actors -> [enqueued : Nat, handled : Nat]]
  BY <1>3 DEF DvStatTypes
<1>9. /\ mailbox' \in [Actors -> Seq(DvMessages)] /\ mailbox'[a] = t
      /\ \A b \in Actors \ {a} : mailbox'[b] = mailbox[b]
  BY <1>6, <1>7, <1>8
<1>10. /\ runtimes' \in [Actors -> [enqueued : Nat, handled : Nat]]
       /\ runtimes'[a].enqueued = runtimes[a].enqueued
       /\ runtimes'[a].handled = runtimes[a].handled + 1
       /\ \A b \in Actors \ {a} : runtimes'[b] = runtimes[b]
  <2>1. PICK r : r = [runtimes[a] EXCEPT !.handled = @ + 1] OBVIOUS
  <2>2. /\ r \in [enqueued : Nat, handled : Nat]
        /\ r.enqueued = runtimes[a].enqueued /\ r.handled = runtimes[a].handled + 1
    BY <1>8, <2>1
  <2>3. runtimes' = [runtimes EXCEPT ![a] = r] BY <1>0, <2>1
  <2> QED BY <1>8, <2>2, <2>3
<1>11. DvStatTypes'
  <2>1. Len(t) <= RingCapacity BY <1>5, <1>6, DvSizes
  <2>2. \A b \in Actors : Len(mailbox'[b]) <= RingCapacity
    BY <1>3, <1>9, <2>1 DEF DvStatTypes
  <2> QED BY <1>0, <1>3, <1>9, <1>10, <2>2 DEF DvStatTypes
<1>12. DvFresh' BY <1>0, <1>3, <1>9, <1>10 DEF DvFresh
<1>13. ASSUME NEW b \in Actors
       PROVE  runtimes'[b].enqueued = runtimes[b].enqueued /\ Merged(b)' = Merged(b)
  <2>1. CASE b = a
    <3>1. PICK v \in Nat, w \in Nat, x \in Nat :
            v = runtimes[a].enqueued /\ w = runtimes[a].handled /\ x = Len(q)
      BY <1>5, <1>8
    <3>2. Merged(a) = v - w - x BY <1>4, <3>1 DEF Merged
    <3>3. Merged(a)' = v - (w + 1) - (x - 1) BY <1>6, <1>9, <1>10, <3>1 DEF Merged
    <3>4. Merged(a)' = Merged(a) BY <3>2, <3>3
    <3> QED BY <1>10, <2>1, <3>4
  <2>2. CASE b # a
    <3>1. mailbox'[b] = mailbox[b] /\ runtimes'[b] = runtimes[b] BY <1>9, <1>10, <2>2
    <3> QED BY <3>1 DEF Merged
  <2> QED BY <2>1, <2>2
<1>14. CountersReconcile' BY <1>0, <1>3, <1>13, CountsStay
<1> QED BY <1>1, <1>2, <1>11, <1>12, <1>14 DEF DvInv


\* The publication of e that ev_delivery_publish starts with.
DvStarted(p, e, d, b) ==
  p = [NoPub(e, d) EXCEPT !.active = b, !.index = Min(Span(e)),
                       !.report.matched = IF b THEN 0 ELSE Cardinality(Span(e))]

\* A publication that starts has passed no route.
LEMMA StartedIs ==
  ASSUME NEW e \in Events, NEW d \in Publishers, Span(e) # {}, NEW b \in BOOLEAN,
         NEW p, DvStarted(p, e, d, b), NEW f
  PROVE  /\ p \in DvPubs /\ p.active = b /\ p.event = e /\ p.rc = "OK"
         /\ p.index \in Span(p.event) /\ DvUpTo(p, p.index, {}, f)
<1>1. PICK n : n = Min(Span(e)) OBVIOUS
<1>2. n \in Span(e) /\ \A i \in Span(e) : n <= i BY <1>1, SpanEnds
<1>3. n \in Nat /\ \A i \in Span(e) : i \in Nat /\ ~(i < n) BY <1>2, SpanNumbers
<1>4. Cardinality(Span(e)) \in Nat
  <2>1. Len(Routes) \in Nat /\ DOMAIN Routes = 1 .. Len(Routes) BY DvSizes
  <2>2. IsFiniteSet(1 .. Len(Routes)) BY <2>1, FS_Interval
  <2>3. Span(e) \subseteq 1 .. Len(Routes) BY <2>1 DEF Span
  <2>4. IsFiniteSet(Span(e)) BY <2>2, <2>3, FS_Subset
  <2> QED BY <2>4, FS_CardinalityType
<1>5. PICK m \in Nat : m = IF b THEN 0 ELSE Cardinality(Span(e)) BY <1>4
<1>6. PICK r : r = [NoReport EXCEPT !.matched = m] OBVIOUS
<1>7. NoReport \in DvReports BY DEF NoReport, DvReports, DvCodes
<1>8. r \in DvReports /\ r.first_error = "OK"
  BY <1>6, <1>7 DEF DvReports, NoReport
<1>9. p = [event |-> e, source |-> d, index |-> n, rc |-> "OK", active |-> b, report |-> r]
  BY <1>1, <1>5, <1>6 DEF NoPub, DvStarted
<1>10. p \in DvPubs BY <1>3, <1>8, <1>9 DEF DvPubs, DvCodes
<1>11. /\ p.active = b /\ p.event = e /\ p.rc = "OK" /\ p.index = n
       /\ p.report.first_error = "OK"
  <2>1. p.active = b BY <1>9
  <2>2. p.event = e /\ p.rc = "OK" /\ p.index = n /\ p.report = r BY <1>9
  <2> QED BY <1>8, <2>1, <2>2
<1>12. DvUpTo(p, p.index, {}, f) BY <1>3, <1>11 DEF DvUpTo
<1> QED BY <1>2, <1>10, <1>11, <1>12

\* ev_delivery_publish begins.
LEMMA StartPublishKeeps ==
  ASSUME DvInv, NEW e \in Events, NEW d \in Publishers, StartPublish(e, d) PROVE DvInv'
<1>0. /\ pc = "idle" /\ posts < MaxPosts /\ posts' = posts + 1 /\ reached' = {}
      /\ UNCHANGED <<requested, strict, table, routesBound, registered, built, lateAdd>>
      /\ UNCHANGED <<mailbox, runtimes, registry, faults, rebuilt>>
  BY DEF StartPublish, graphVars, historyVars
<1>1. DvGraphTypes' /\ DvGraph' BY <1>0, GraphSame
<1>2. DvStatTypes /\ DvFresh /\ CountersReconcile /\ DvPubTypes /\ DvGraphTypes
  BY DEF DvInv
<1>3. posts' \in 0 .. MaxPosts BY <1>0, <1>2, DvSizes DEF DvPubTypes
<1>4. CASE Span(e) = {}
  <2>1. /\ pub' = [NoPub(e, d) EXCEPT !.rc = "NOT_FOUND", !.active = routesBound,
                                   !.report.first_error = "NOT_FOUND"]
        /\ metrics' = [metrics EXCEPT !.failed = @ + 1] /\ pc' = pc
    BY <1>4 DEF StartPublish
  <2>2. pub'.rc = "NOT_FOUND" BY <2>1 DEF NoPub
  <2>3. DvPubTypes' /\ DvFanout'
    BY <1>0, <1>3, <2>1, <2>2 DEF DvPubTypes, DvCodes, DvFanout
  <2>4. metrics \in [attempted : Nat, ok : Nat, failed : Nat, merged : Nat]
    BY <1>2 DEF DvStatTypes
  <2>5. /\ metrics' \in [attempted : Nat, ok : Nat, failed : Nat, merged : Nat]
        /\ metrics'.merged = metrics.merged
    BY <2>1, <2>4
  <2>6. DvStatTypes' BY <1>0, <1>2, <2>5 DEF DvStatTypes
  <2>7. DvFresh' BY <1>0, <1>2 DEF DvFresh
  <2>8. \A a \in Actors : /\ runtimes'[a].enqueued = runtimes[a].enqueued
                          /\ Merged(a)' = Merged(a)
    BY <1>0 DEF Merged
  <2>9. CountersReconcile' BY <1>0, <1>2, <2>5, <2>8, CountsStay
  <2> QED BY <1>1, <2>3, <2>6, <2>7, <2>9 DEF DvInv
<1>5. CASE Span(e) # {}
  <2>1. PICK p, b : p = pub' /\ b = routesBound OBVIOUS
  <2>2. DvStarted(p, e, d, b) BY <1>5, <2>1 DEF StartPublish, DvStarted
  <2>9. pc' = "fanout" /\ metrics' = metrics BY <1>5 DEF StartPublish
  <2>3. b \in BOOLEAN BY <1>2, <2>1 DEF DvGraphTypes
  <2>4. /\ p \in DvPubs /\ p.active = b /\ p.event = e /\ p.rc = "OK"
        /\ p.index \in Span(p.event) /\ DvUpTo(p, p.index, {}, faults)
    BY <1>5, <2>2, <2>3, StartedIs
  <2>5. DvUpTo(pub, pub.index, reached, faults)'
    BY <1>0, <2>1, <2>4 DEF DvUpTo, DvEnabled, DvRefused
  <2>6. DvFanout' BY <1>0, <2>1, <2>4, <2>5 DEF DvFanout, Span
  <2>7. DvPubTypes' BY <1>3, <2>1, <2>9, <2>4 DEF DvPubTypes, DvCodes
  <2>8. DvStatTypes' /\ DvFresh' /\ CountersReconcile' BY <1>0, <2>9, StatsSame
  <2> QED BY <1>1, <2>6, <2>7, <2>8 DEF DvInv
<1> QED BY <1>4, <1>5

\* A route is passed over, refused or served.
LEMMA RouteKeeps ==
  ASSUME DvInv, SkipDisabledRoute \/ SkipRefusedRoute \/ DeliverOne
  PROVE  DvInv' /\ DvStepTold
<1>0. /\ UNCHANGED <<requested, strict, table, routesBound, registered, built, lateAdd>>
      /\ UNCHANGED <<posts, rebuilt>>
  BY DEF SkipDisabledRoute, SkipRefusedRoute, DeliverOne, graphVars, historyVars
<1>1. DvFanout' /\ DvStepTold /\ pub'.rc \in DvCodes /\ pc' \in {"idle", "fanout"}
  BY SkipDisabledTold, SkipRefusedTold, DeliverOneTold
<1>2. DvPubTypes' BY <1>0, <1>1 DEF DvInv, DvPubTypes
<1>3. DvGraphTypes' /\ DvGraph' BY <1>0, GraphSame
<1>4. DvStatTypes' /\ DvFresh' /\ CountersReconcile'
  <2>1. CASE DeliverOne BY <2>1, DeliverOneCounted
  <2>2. CASE SkipDisabledRoute \/ SkipRefusedRoute
    <3>1. UNCHANGED <<mailbox, runtimes, registry, metrics>>
      BY <2>2 DEF SkipDisabledRoute, SkipRefusedRoute, statVars
    <3> QED BY <1>0, <3>1, StatsSame
  <2> QED BY <2>1, <2>2
<1> QED BY <1>1, <1>2, <1>3, <1>4 DEF DvInv

\* ev_actor_send
LEMMA SendKeeps == ASSUME DvInv, NEW e \in Events, NEW a \in Actors, Send(e, a) PROVE DvInv'
<1>0. /\ pc = "idle" /\ posts < MaxPosts /\ posts' = posts + 1
      /\ UNCHANGED <<requested, strict, table, routesBound, registered, built, lateAdd>>
      /\ UNCHANGED <<pc, pub, reached>>
  BY DEF Send, graphVars, historyVars
<1>1. DvGraphTypes' /\ DvGraph' BY <1>0, GraphSame
<1>2. DvStatTypes' /\ DvFresh' /\ CountersReconcile' BY SendCounted
<1>3. DvPubTypes' BY <1>0, DvSizes DEF DvInv, DvPubTypes
<1>4. DvFanout' BY <1>0 DEF DvFanout
<1> QED BY <1>1, <1>2, <1>3, <1>4 DEF DvInv

\* Nothing happens.
LEMMA StutterKeeps == ASSUME DvInv, UNCHANGED vars PROVE DvInv'
<1>0. /\ UNCHANGED <<requested, strict, table, routesBound, registered, built, lateAdd>>
      /\ UNCHANGED <<mailbox, runtimes, registry, metrics, faults, rebuilt>>
      /\ UNCHANGED <<pc, pub, posts, reached>>
  BY DEF vars, graphVars, statVars, pubVars, historyVars
<1>1. DvGraphTypes' /\ DvGraph' BY <1>0, GraphSame
<1>2. DvStatTypes' /\ DvFresh' /\ CountersReconcile' BY <1>0, StatsSame
<1>3. DvPubTypes' BY <1>0 DEF DvInv, DvPubTypes
<1>4. DvFanout'
  <2>1. DvFanout BY DEF DvInv
  <2> QED BY <1>0, <2>1 DEF DvFanout, DvUpTo, DvEnabled, DvRefused
<1> QED BY <1>1, <1>2, <1>3, <1>4 DEF DvInv


-----------------------------------------------------------------------------
(* The theorems. *)

\* Every step keeps the invariant.
LEMMA NextKeeps == ASSUME DvInv, [Next]_vars PROVE DvInv'
  BY AddModuleKeeps, SetStrictKeeps, BindRoutesKeeps, BuildKeeps, HandleKeeps,
     StartPublishKeeps, RouteKeeps, SendKeeps, StutterKeeps DEF Next

\* The invariant holds in every reachable state.
THEOREM DvInvHolds == Spec => []DvInv
<1>1. Init => DvInv BY InitKeeps
<1>2. DvInv /\ [Next]_vars => DvInv' BY NextKeeps
<1> QED BY <1>1, <1>2, PTL DEF Spec

\* Graph, mailboxes and report keep their types, and no mailbox holds more than
\* its capacity, whatever is built, published and handled in which order.
THEOREM DeliveryTypeCorrect == Spec => []TypeOK
<1>1. DvInv => TypeOK
  <2>1. SUFFICES ASSUME DvInv PROVE TypeOK BY Zenon
  <2>2. DvGraphTypes /\ DvStatTypes /\ DvPubTypes /\ DvFanout BY <2>1 DEF DvInv
  <2>3. pc = "fanout" => pub.index \in Span(pub.event) BY <2>2 DEF DvFanout
  <2>4. /\ requested \subseteq Actors /\ registered \subseteq Actors
        /\ strict \in BOOLEAN /\ routesBound \in BOOLEAN
        /\ built \in {"NONE", "OK", "FAILED"}
        /\ table \in Seq(Entries) /\ Len(table) <= Len(Routes)
    BY <2>2 DEF DvGraphTypes
  <2>5. /\ mailbox \in [Actors -> Seq({Message(e) : e \in Events})]
        /\ \A a \in Actors : Len(mailbox[a]) <= RingCapacity
        /\ runtimes \in [Actors -> [enqueued : Nat, handled : Nat]]
        /\ registry \in [attempted : Nat, succeeded : Nat, failed : Nat]
        /\ metrics \in [attempted : Nat, ok : Nat, failed : Nat, merged : Nat]
    BY <2>2 DEF DvStatTypes, DvMessages
  <2>6. /\ pc \in {"idle", "fanout"} /\ pub.rc \in {"OK", "FULL", "NOT_FOUND", "POLICY"}
        /\ posts \in 0 .. MaxPosts
    BY <2>2 DEF DvPubTypes, DvCodes
  <2> QED BY <2>3, <2>4, <2>5, <2>6 DEF TypeOK
<1> QED BY <1>1, DvInvHolds, PTL

\* After a successful build an enabled route has an actor behind it, and a
\* registered actor is cut off by the QoS contract only, however often modules
\* were added, routes bound and builds failed before.
THEOREM TableAgrees == Spec => []TableMatchesActors
<1>1. DvInv => TableMatchesActors
  <2>1. SUFFICES ASSUME DvInv, built = "OK", routesBound, ~lateAdd, NEW i \in DOMAIN table
                 PROVE  /\ table[i].state = "ENABLED" => Routes[i].target \in registered
                        /\ Routes[i].target \in registered =>
                             table[i].state \in {"ENABLED", "QOS_CONFLICT"}
    BY DEF TableMatchesActors
  <2>2. registered \subseteq requested /\ DvTable /\ requested \subseteq registered
    BY <2>1 DEF DvInv, DvGraph
  <2> QED BY <2>1, <2>2 DEF DvTable
<1> QED BY <1>1, DvInvHolds, PTL

\* Metrics, registry and actor runtimes count the same deliveries.
THEOREM CountersAgree == Spec => []CountersReconcile
<1>1. DvInv => CountersReconcile BY DEF DvInv
<1> QED BY <1>1, DvInvHolds, PTL

\* A publication that returns has been told of in the terms of the property.
LEMMA ToldIsTheTruth ==
  ASSUME DvInv, Returns, DvTold(pub, pub', reached', faults')
  PROVE  OkReachesStrict /\ DropsAreIsolated /\ ErrorIsTheFirst
<1>1. PICK q, s, g : q = pub' /\ s = reached' /\ g = faults' OBVIOUS
<1>2. /\ q.rc = "OK" => \A i \in Span(pub.event) : DvStrict(i) /\ DvEnabled(pub, i) => i \in s
      /\ pub.index # Max(Span(pub.event)) => DvStrict(pub.index) /\ pub.index \notin s
      /\ q.rc = "OK" <=> q.report.first_error = "OK"
  BY <1>1 DEF DvTold
<1>3. \A i : i \in Routed <=> i \in Span(pub.event) /\ DvEnabled(pub, i)
  BY DEF Routed, DvEnabled
<1>4. OkReachesStrict BY <1>1, <1>2, <1>3 DEF OkReachesStrict, DvStrict
<1>5. DropsAreIsolated BY <1>1, <1>2 DEF DropsAreIsolated, CurrentRoute, DvStrict
<1>6. PICK failing :
        failing = {i \in Span(pub.event) :
                     \/ pub.active /\ Refused(table[i])
                     \/ Routes[i].qos \in StrictClasses /\ i \in Routed /\ i \notin reached'}
  OBVIOUS
<1>7. failing = DvFailing(pub, s)
  BY <1>1, <1>3, <1>6 DEF DvFailing, DvRefused, DvStrict
<1>8. ASSUME q.rc # "OK"
      PROVE  /\ failing # {} /\ q.report.first_failed = Routes[Min(failing)].target
             /\ (DeliveryFault \in g \/ Cardinality(g) >= FaultCapacity)
  <2>1. PICK j \in DvFailing(pub, s) :
          /\ \A i \in DvFailing(pub, s) : j <= i
          /\ q.report.first_failed = Routes[j].target /\ DvNoted(pub, g)
    BY <1>1, <1>8 DEF DvTold
  <2>2. failing \in SUBSET Nat BY <1>6, SpanNumbers
  <2>3. Min(failing) = j BY <1>7, <2>1, <2>2, MinIs
  <2> QED BY <1>7, <2>1, <2>3 DEF DeliveryFault, DvNoted
<1>9. ErrorIsTheFirst BY <1>1, <1>2, <1>6, <1>8 DEF ErrorIsTheFirst
<1> QED BY <1>4, <1>5, <1>9

\* What a publication returns is what happened: EV_OK means that every strict
\* route was served, a failure on a route that allows drops keeps the message
\* from nobody else, and a reported error is that of the first failing route
\* and is on the fault bus, unless that is full.
THEOREM ResultIsTold == Spec => ResultTellsTruth
<1> DEFINE Truth == Returns => OkReachesStrict /\ DropsAreIsolated /\ ErrorIsTheFirst
<1>1. DvInv /\ [Next]_vars => [Truth]_vars
  <2>1. SUFFICES ASSUME DvInv, Next, Returns
                 PROVE  OkReachesStrict /\ DropsAreIsolated /\ ErrorIsTheFirst
    OBVIOUS
  <2>2. pc = "fanout" /\ pc' = "idle" BY <2>1 DEF Returns
  <2>3. SkipDisabledRoute \/ SkipRefusedRoute \/ DeliverOne
    BY <2>1, <2>2
    DEF Next, AddModule, Handle, SetStrict, BindRoutes, Build, StartPublish, Send
  <2>4. DvTold(pub, pub', reached', faults')
    BY <2>1, <2>2, <2>3, RouteKeeps DEF DvStepTold
  <2> QED BY <2>1, <2>4, ToldIsTheTruth
<1> HIDE DEF Truth
<1>2. Spec => [][Truth]_vars BY <1>1, DvInvHolds, PTL DEF Spec
<1> QED BY <1>2 DEF ResultTellsTruth, Truth

=============================================================================
