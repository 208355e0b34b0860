------------------------------- MODULE Mailbox -------------------------------
(***************************************************************************)
(* One actor mailbox (core/src/ev_mailbox.c): a ring of message slots in     *)
(* caller storage, the per-kind push policies, the QoS-aware push, pop and   *)
(* reset, with the lease shares that the producer's envelope, each queued    *)
(* copy and the handler's copy own.  A lease is a payload with a reference   *)
(* count; the pool behind it is module LeasePool.                            *)
(***************************************************************************)
EXTENDS MailboxContract, FiniteSets

CONSTANTS ZeroEvent,    \* the event with id 0, which a zeroed slot shows
          Producers,    \* envelopes that call sites fill and publish
          MaxPushes     \* bound: push calls between two resets

ASSUME ZeroEventAssumption == ZeroEvent \in Events
ASSUME MaxPushesAssumption == MaxPushes \in Nat
ASSUME FiniteAssumption == IsFiniteSet(Producers) /\ NoPayload \notin Payloads

VARIABLES kind, storage, head, tail, count,   \* ev_mailbox_t
          stats,      \* mailbox->stats
          refs,       \* shares of each lease payload
          prod,       \* the producers' envelopes
          cur,        \* the envelope popped by the actor runtime
          handling,   \* the handler runs on cur
          report,     \* report of the last push
          pushes      \* history: push calls since the last reset

ringVars == <<storage, head, tail, count>>
vars == <<kind, storage, head, tail, count, stats, refs, prod, cur, handling,
          report, pushes>>

Cap == Capacity(kind)
Indices == 0..(Cap - 1)
NoSlot == Cap

Blank == [event |-> ZeroEvent, storage |-> "NONE", payload |-> NoPayload,
          disposed |-> FALSE]
NoStats == [posted |-> 0, dropped |-> 0, replaced |-> 0, coalesced |-> 0,
            popped |-> 0, rejected |-> 0, high_watermark |-> 0]

Init ==
  /\ kind \in Kinds
  /\ storage = [i \in Indices |-> Blank]
  /\ head = 0 /\ tail = 0 /\ count = 0
  /\ stats = NoStats
  /\ refs = [x \in Payloads |-> 0]
  /\ prod = [p \in Producers |-> Blank]
  /\ cur = Blank /\ handling = FALSE
  /\ report = [effect |-> "NONE", slot |-> NoSlot, event |-> ZeroEvent]
  /\ pushes = 0

-----------------------------------------------------------------------------
(* Ownership of lease payloads. *)

Leases(m, x) == m.storage = "EXTERNAL" /\ m.payload = x

\* Faulty variant: a queued copy borrows the producer's share.
RetainForQueueNever(r, m) == r

\* ev_mailbox_retain_for_queue, for an envelope that Retainable accepts
RetainForQueue(r, m) ==
  [x \in Payloads |-> IF Leases(m, x) THEN r[x] + 1 ELSE r[x]]

\* ev_msg_dispose of one owner's copy
Disposed(r, m) ==
  [x \in Payloads |-> IF Leases(m, x) THEN r[x] - 1 ELSE r[x]]

-----------------------------------------------------------------------------
(* The ring. *)

\* Faulty variant: full is noticed one too late.
FullLate == count > Cap

Advance(i) == (i + 1) % Cap
PendingIndexAt(k) == (head + k) % Cap
Offsets == 0..(count - 1)
Full == count >= Cap

SameEvent(e) == {k \in Offsets : storage[PendingIndexAt(k)].event = e}

\* Faulty variant: the scan starts at slot 0 instead of the head.
FindEventSlotUnrotated(e, latest) ==
  IF \E i \in Offsets : storage[i].event = e
  THEN CHOOSE i \in Offsets : storage[i].event = e ELSE NoSlot

\* ev_mailbox_find_event_slot: first or latest match among the pending slots
FindEventSlot(e, latest) ==
  LET same == SameEvent(e) IN
  IF same = {} THEN NoSlot
  ELSE PendingIndexAt(CHOOSE k \in same :
         \A j \in same : IF latest THEN j <= k ELSE k <= j)

Counted(field) == [stats EXCEPT ![field] = @ + 1]

WithHighWatermark(st, n) ==
  [st EXCEPT !.high_watermark = IF n > @ THEN n ELSE @]

Reported(effect, m, slot) ==
  report' = [effect |-> effect, slot |-> slot, event |-> m.event]

Refused(m) ==
  /\ stats' = Counted("rejected")
  /\ Reported("REJECTED", m, NoSlot)
  /\ UNCHANGED <<ringVars, refs>>

\* The slot index reported for a plain push: the one before the new tail.
PostedSlot(t) == (t + Cap - 1) % Cap

PushFifo(m) ==
  /\ kind = "FIFO"
  /\ IF Full \/ ~Retainable(m)
     THEN Refused(m)
     ELSE /\ refs' = RetainForQueue(refs, m)
          /\ storage' = [storage EXCEPT ![tail] = m]
          /\ tail' = Advance(tail)
          /\ count' = count + 1
          /\ stats' = WithHighWatermark(Counted("posted"), count + 1)
          /\ Reported("POSTED", m, PostedSlot(tail'))
          /\ UNCHANGED head

\* A new message overwrites the pending one.
PushMailbox1(m) ==
  /\ kind = "MAILBOX_1"
  /\ IF ~Retainable(m)
     THEN Refused(m)
     ELSE /\ refs' = IF count # 0
                     THEN Disposed(RetainForQueue(refs, m), storage[0])
                     ELSE RetainForQueue(refs, m)
          /\ storage' = [storage EXCEPT ![0] = m]
          /\ count' = 1
          /\ stats' = WithHighWatermark(
               Counted(IF count = 0 THEN "posted" ELSE "replaced"), 1)
          /\ Reported("POSTED", m, PostedSlot(tail))
          /\ UNCHANGED <<head, tail>>

\* A full ring first gives up its oldest message.
PushLossy(m) ==
  /\ kind = "LOSSY_RING"
  /\ IF ~Retainable(m)
     THEN Refused(m)
     ELSE LET kept == IF Full THEN count - 1 ELSE count
              freed == IF Full THEN Counted("dropped") ELSE stats
          IN
          /\ refs' = IF Full
                     THEN Disposed(RetainForQueue(refs, m), storage[head])
                     ELSE RetainForQueue(refs, m)
          /\ head' = IF Full THEN Advance(head) ELSE head
          /\ storage' = [storage EXCEPT ![tail] = m]
          /\ tail' = Advance(tail)
          /\ count' = kept + 1
          /\ stats' = WithHighWatermark([freed EXCEPT !.posted = @ + 1], kept + 1)
          /\ Reported("POSTED", m, PostedSlot(tail'))

PushFlag(m) ==
  /\ kind = "COALESCED_FLAG"
  /\ IF m.storage # "NONE" \/ (count # 0 /\ storage[0].event # m.event)
     THEN Refused(m)
     ELSE /\ IF count = 0
             THEN /\ storage' = [storage EXCEPT ![0] = m]
                  /\ count' = 1
                  /\ stats' = WithHighWatermark(Counted("posted"), 1)
             ELSE /\ stats' = Counted("coalesced")
                  /\ UNCHANGED <<storage, count>>
          /\ Reported("POSTED", m, PostedSlot(tail))
          /\ UNCHANGED <<head, tail, refs>>

PlainPush(m) ==
  PushFifo(m) \/ PushMailbox1(m) \/ PushLossy(m) \/ PushFlag(m)

PolicyDrop(m) ==
  /\ stats' = Counted("dropped")
  /\ Reported("DROPPED", m, NoSlot)
  /\ UNCHANGED <<ringVars, refs>>

PushCoalesced(m) ==
  LET slot == FindEventSlot(m.event, FALSE) IN
  IF slot # NoSlot
  THEN /\ stats' = Counted("coalesced")
       /\ Reported("COALESCED", m, slot)
       /\ UNCHANGED <<ringVars, refs>>
  ELSE IF Full THEN PolicyDrop(m) ELSE PlainPush(m)

\* ev_mailbox_replace_slot retains the new message before it disposes the old.
ReplaceSlot(m, slot) ==
  IF Retainable(m)
  THEN /\ refs' = Disposed(RetainForQueue(refs, m), storage[slot])
       /\ storage' = [storage EXCEPT ![slot] = m]
       /\ stats' = Counted("replaced")
       /\ Reported("REPLACED", m, slot)
       /\ UNCHANGED <<head, tail, count>>
  ELSE /\ stats' = Counted("rejected")
       /\ Reported("REJECTED", m, slot)
       /\ UNCHANGED <<ringVars, refs>>

PushLatestOnly(m) ==
  LET slot == FindEventSlot(m.event, TRUE) IN
  IF slot # NoSlot THEN ReplaceSlot(m, slot)
  ELSE IF Full THEN PolicyDrop(m) ELSE PlainPush(m)

Push(p) ==
  LET m == prod[p] IN
  /\ pushes < MaxPushes
  /\ pushes' = pushes + 1
  /\ IF ~Valid(m) THEN Refused(m)
     ELSE CASE EventQos[m.event] = "COALESCED" -> PushCoalesced(m)
            [] EventQos[m.event] = "LATEST_ONLY" -> PushLatestOnly(m)
            [] OTHER -> PlainPush(m)
  /\ UNCHANGED <<kind, prod, cur, handling>>

PoppedStorage(slot) == [storage EXCEPT ![slot] = Blank]

\* The popped envelope takes the queued copy's share; the slot is zeroed.
Pop ==
  /\ ~handling /\ count # 0
  /\ handling' = TRUE
  /\ LET slot == IF kind \in {"FIFO", "LOSSY_RING"} THEN head ELSE 0 IN
     /\ cur' = storage[slot]
     /\ storage' = PoppedStorage(slot)
  /\ head' = IF kind \in {"FIFO", "LOSSY_RING"} THEN Advance(head) ELSE head
  /\ count' = count - 1
  /\ stats' = Counted("popped")
  /\ UNCHANGED <<kind, tail, refs, prod, report, pushes>>

\* The actor runtime disposes the envelope after the handler, whatever the
\* handler returned.
Consumed ==
  /\ handling
  /\ refs' = Disposed(refs, cur)
  /\ cur' = Blank /\ handling' = FALSE
  /\ UNCHANGED <<kind, ringVars, stats, prod, report, pushes>>

\* Every slot is disposed, the ones outside the pending window too.
Reset ==
  /\ refs' = [x \in Payloads |->
                refs[x] - Cardinality({i \in Indices : Leases(storage[i], x)})]
  /\ storage' = [i \in Indices |-> Blank]
  /\ head' = 0 /\ tail' = 0 /\ count' = 0
  /\ stats' = NoStats /\ pushes' = 0
  /\ UNCHANGED <<kind, prod, cur, handling, report>>

-----------------------------------------------------------------------------
(* Call sites: fill an envelope, publish it any number of times, dispose it. *)

AllowedStorage(e) == IF EventKind[e] = "INLINE" THEN {"NONE", "INLINE"}
                     ELSE {"NONE", "EXTERNAL"}

Prepare(p, e) ==
  /\ prod[p].storage # "EXTERNAL"
  /\ \/ \E st \in AllowedStorage(e) :
          /\ st = "EXTERNAL" => EventKind[e] = "STREAM_VIEW"
          /\ prod' = [prod EXCEPT ![p] = [Blank EXCEPT !.event = e, !.storage = st]]
          /\ UNCHANGED refs
     \/ \E x \in Payloads :
          /\ EventKind[e] = "LEASE"
          /\ refs[x] = 0
          /\ refs' = [refs EXCEPT ![x] = 1]
          /\ prod' = [prod EXCEPT ![p] = [event |-> e, storage |-> "EXTERNAL",
                                          payload |-> x, disposed |-> FALSE]]
  /\ UNCHANGED <<kind, ringVars, stats, cur, handling, report, pushes>>

DisposeProducer(p) ==
  /\ refs' = Disposed(refs, prod[p])
  /\ prod' = [prod EXCEPT ![p] =
                [@ EXCEPT !.storage = "NONE", !.payload = NoPayload,
                          !.disposed = TRUE]]
  /\ UNCHANGED <<kind, ringVars, stats, cur, handling, report, pushes>>

Next ==
  \/ \E p \in Producers, e \in Events : Prepare(p, e)
  \/ \E p \in Producers : Push(p) \/ DisposeProducer(p)
  \/ Pop
  \/ Consumed
  \/ Reset

Spec == Init /\ [][Next]_vars

-----------------------------------------------------------------------------
(* Properties. *)

Counters == [posted: Nat, dropped: Nat, replaced: Nat, coalesced: Nat,
             popped: Nat, rejected: Nat, high_watermark: Nat]

\* The mailbox, the envelopes and the reference counts keep their types; in
\* particular no lease is released more often than it was retained.
TypeOK ==
  /\ kind \in Kinds
  /\ storage \in [Indices -> Msg]
  /\ head \in Indices /\ tail \in Indices /\ count \in 0..Cap
  /\ stats \in Counters
  /\ refs \in [Payloads -> Nat]
  /\ prod \in [Producers -> Msg]
  /\ cur \in Msg /\ handling \in BOOLEAN
  /\ report.slot \in 0..Cap
  /\ pushes \in Nat

PendingIndices == {PendingIndexAt(k) : k \in Offsets}

\* A lease has exactly as many shares as there are envelopes carrying it: the
\* producers', the queued copies and the one the handler works on.
RefsConserved ==
  \A x \in Payloads :
    refs[x] = Cardinality({p \in Producers : Leases(prod[p], x)})
              + Cardinality({i \in Indices : Leases(storage[i], x)})
              + (IF Leases(cur, x) THEN 1 ELSE 0)

\* The slot a push reports is pending and holds the event, and on a route with
\* a merging QoS no other pending slot does: the scan for a message to merge
\* with covers the pending window across the wrap, in mailboxes of every kind.
PushTellsTruth ==
  [][pushes' > pushes /\ report'.effect \in {"POSTED", "REPLACED", "COALESCED"}
       => LET places == {i \in PendingIndices' : storage'[i].event = report'.event}
          IN  /\ report'.slot \in places
              /\ EventQos[report'.event] \in {"COALESCED", "LATEST_ONLY"}
                   => places = {report'.slot}]_vars

\* The ring implements the bounded sequence of MailboxQueue.
Contract == INSTANCE MailboxQueue WITH
  queue <- [i \in 1..count |-> storage[PendingIndexAt(i - 1)]],
  effect <- report.effect
ImplementsQueue == Contract!Spec

=============================================================================
