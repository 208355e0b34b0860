--------------------------- MODULE MailboxContract ---------------------------
(***************************************************************************)
(* Messages, mailbox kinds and the outcome of a push on the sequence of      *)
(* pending messages: the policies of core/src/ev_mailbox.c without its ring. *)
(***************************************************************************)
EXTENDS Naturals, Sequences

CONSTANTS RingCapacity,  \* slots of the FIFO and LOSSY_RING mailboxes (8, 16)
          Events,        \* event ids
          EventKind,     \* payload kind of each event in the event catalog
          EventQos,      \* QoS of the route that brings each event here
          Payloads       \* lease payloads

ASSUME RingCapacityAssumption == RingCapacity \in Nat \ {0}

Kinds == {"FIFO", "MAILBOX_1", "LOSSY_RING", "COALESCED_FLAG"}
PayloadKinds == {"INLINE", "LEASE", "STREAM_VIEW"}
QosClasses == {"CRITICAL", "COALESCED", "LATEST_ONLY"}

ASSUME CatalogAssumption == /\ EventKind \in [Events -> PayloadKinds]
                            /\ EventQos \in [Events -> QosClasses]

NoPayload == "no payload"
Msg == {m \in [event: Events, storage: {"NONE", "INLINE", "EXTERNAL"},
               payload: Payloads \cup {NoPayload}, disposed: BOOLEAN] :
          m.payload # NoPayload => m.storage = "EXTERNAL"}

Capacity(k) == IF k \in {"MAILBOX_1", "COALESCED_FLAG"} THEN 1 ELSE RingCapacity

\* ev_msg_validate on the envelopes the constructors can produce
Valid(m) == ~m.disposed

\* a queued copy needs a share of its own; a stream view cannot be retained
Retainable(m) ==
  m.storage = "EXTERNAL" => EventKind[m.event] = "LEASE"

Pending(q, e) == {i \in DOMAIN q : q[i].event = e}

Outcome(q, effect) == [queue |-> q, effect |-> effect]

\* ev_mailbox_push: one policy per kind
Enqueue(k, q, m) ==
  LET full == Len(q) >= Capacity(k) IN
  CASE k = "COALESCED_FLAG" ->
         IF m.storage # "NONE" THEN Outcome(q, "REJECTED")
         ELSE IF q = <<>> THEN Outcome(<<m>>, "POSTED")
         ELSE Outcome(q, IF q[1].event = m.event THEN "POSTED" ELSE "REJECTED")
    [] k # "COALESCED_FLAG" /\ ~Retainable(m) -> Outcome(q, "REJECTED")
    [] k = "FIFO" /\ Retainable(m) ->
         IF full THEN Outcome(q, "REJECTED")
         ELSE Outcome(Append(q, m), "POSTED")
    [] k = "MAILBOX_1" /\ Retainable(m) -> Outcome(<<m>>, "POSTED")
    [] k = "LOSSY_RING" /\ Retainable(m) ->
         Outcome(Append(IF full THEN Tail(q) ELSE q, m), "POSTED")

\* ev_mailbox_push_qos: coalesce into, or replace, a pending message first
EnqueueQos(k, q, m, qos) ==
  LET same == Pending(q, m.event)
      last == CHOOSE i \in same : \A j \in same : j <= i
      full == Len(q) >= Capacity(k)
  IN  IF ~Valid(m) THEN Outcome(q, "REJECTED")
      ELSE IF qos = "COALESCED" /\ same # {} THEN Outcome(q, "COALESCED")
      ELSE IF qos = "LATEST_ONLY" /\ same # {}
           THEN IF Retainable(m) THEN Outcome([q EXCEPT ![last] = m], "REPLACED")
                ELSE Outcome(q, "REJECTED")
      ELSE IF qos \in {"COALESCED", "LATEST_ONLY"} /\ full
           THEN Outcome(q, "DROPPED")
      ELSE Enqueue(k, q, m)

=============================================================================
