-------------------------------- MODULE Queues --------------------------------
(***************************************************************************)
(* Three bounded stores of the runtime: the ingress ring                   *)
(* (runtime/src/ev_ingress_service.c), the network outbox with its limits  *)
(* per category (ev_network_outbox.c), and the fault registry that counts  *)
(* repeated faults in one record (ev_fault_bus.c).                         *)
(*                                                                         *)
(* The two rings are arrays indexed by the low bits of sequence numbers    *)
(* that wrap.  inOwed and obOwed are history: what was accepted and not    *)
(* yet popped or dropped, oldest first.                                    *)
(***************************************************************************)
EXTENDS Integers, Sequences, FiniteSets, FiniteSetsExt

CONSTANTS
  QuItems,        \* messages and payloads
  QuCapacity,     \* EV_INGRESS_CAPACITY, EV_NETWORK_OUTBOX_CAPACITY
  QuSeqMod,       \* number of sequence numbers (2^32), a multiple of the above
  ObLimit,        \* category_limit: for each category, 0 for none
  ObDropOldest,   \* categories whose policy has drop_oldest set
  FbKeys,         \* fault id, source and triggering event
  FbCapacity,     \* EV_FAULT_STORE_CAPACITY
  FbEmits         \* bound: faults of a run

ASSUME QuAssumption ==
  /\ QuCapacity \in Nat \ {0} /\ QuSeqMod \in Nat /\ QuCapacity < QuSeqMod
  /\ QuSeqMod % QuCapacity = 0
  /\ ObDropOldest \subseteq DOMAIN ObLimit
  /\ FbCapacity \in Nat \ {0} /\ FbEmits \in Nat

VARIABLES ingress, inOwed, outbox, obOwed, faults, fbOut

inVars == <<ingress, inOwed>>
obVars == <<outbox, obOwed>>
fbVars == <<faults, fbOut>>

QuPending(q) == (q.write - q.read) % QuSeqMod
QuIndex(seq) == seq % QuCapacity

\* The ring's contents, oldest first.
QuContents(q) == [i \in 1 .. QuPending(q) |-> q.ring[QuIndex((q.read + i - 1) % QuSeqMod)]]

-----------------------------------------------------------------------------
(* Ingress.                                                                *)

\* The sequence numbers start at zero; a run that starts just before they wrap
\* is the same run later.
InInit ==
  /\ ingress = [ring |-> [i \in 0 .. QuCapacity - 1 |-> << >>], write |-> 0, read |-> 0]
  /\ inOwed = << >>

\* ev_ingress_push
InPush ==
  \E m \in QuItems :
    IF QuPending(ingress) >= QuCapacity THEN UNCHANGED inVars
    ELSE /\ ingress' = [ingress EXCEPT !.ring[QuIndex(ingress.write)] = <<m>>,
                                       !.write = (@ + 1) % QuSeqMod]
         /\ inOwed' = Append(inOwed, <<m>>)

\* ev_ingress_pop
InPop ==
  /\ QuPending(ingress) > 0
  /\ ingress' = [ingress EXCEPT !.read = (@ + 1) % QuSeqMod]
  /\ inOwed' = Tail(inOwed)

InNext == InPush \/ InPop

-----------------------------------------------------------------------------
(* The network outbox.                                                     *)

ObCategories == DOMAIN ObLimit

\* ev_network_outbox_init
ObInit ==
  /\ outbox = [ring |-> [i \in 0 .. QuCapacity - 1 |-> << >>], write |-> 0, read |-> 0,
               queued |-> [c \in ObCategories |-> 0]]
  /\ obOwed = << >>

ObHeadCategory(o) == o.ring[QuIndex(o.read)][1]

\* Faulty variant: the dropped item stays in its category's count.
ObDropHeadUncounted(o) == [o EXCEPT !.read = (@ + 1) % QuSeqMod]

\* ev_network_drop_head, and what ev_network_outbox_pop does to the ring: the
\* oldest item goes, of whatever category.
ObDropHead(o) ==
  [o EXCEPT !.read = (@ + 1) % QuSeqMod,
            !.queued[ObHeadCategory(o)] = IF @ > 0 THEN @ - 1 ELSE @]

\* ev_network_outbox_push.  A category at its limit drops the head of the ring
\* if its policy says so, and is refused otherwise; a full ring refuses.
ObPush ==
  \E c \in ObCategories, payload \in QuItems :
    LET limited == ObLimit[c] # 0 /\ outbox.queued[c] >= ObLimit[c]
        drops == limited /\ c \in ObDropOldest /\ QuPending(outbox) > 0
        room == IF drops THEN ObDropHead(outbox) ELSE outbox
    IN  /\ ~limited \/ drops
        /\ QuPending(room) < QuCapacity
        /\ outbox' = [room EXCEPT !.ring[QuIndex(room.write)] = <<c, payload>>,
                                  !.write = (@ + 1) % QuSeqMod,
                                  !.queued[c] = @ + 1]
        /\ obOwed' = Append(IF drops THEN Tail(obOwed) ELSE obOwed, <<c, payload>>)

\* A push that is refused leaves the outbox alone: dropping makes room.
ObPushRefused ==
  /\ \E c \in ObCategories :
       LET limited == ObLimit[c] # 0 /\ outbox.queued[c] >= ObLimit[c]
       IN  IF limited THEN c \notin ObDropOldest ELSE QuPending(outbox) >= QuCapacity
  /\ UNCHANGED obVars

\* ev_network_outbox_pop
ObPop ==
  /\ QuPending(outbox) > 0
  /\ outbox' = ObDropHead(outbox)
  /\ obOwed' = Tail(obOwed)

ObNext == ObPush \/ ObPushRefused \/ ObPop

-----------------------------------------------------------------------------
(* The fault registry.                                                     *)

\* ev_fault_registry_init; fbOut: occurrences emitted, refused and handed out.
FbInit ==
  /\ faults = << >>
  /\ fbOut = [emitted |-> [k \in FbKeys |-> 0], gone |-> [k \in FbKeys |-> 0]]

FbSum(S, f) == MapThenSumSet(LAMBDA x : f[x], S)
FbTotal(f) == FbSum(FbKeys, f)

\* ev_fault_emit: counted in the record of its key, or in a new one; a full
\* registry drops it.
FbEmit ==
  \E k \in FbKeys :
    LET same == {i \in 1 .. Len(faults) : faults[i].key = k}
    IN  /\ FbTotal(fbOut.emitted) < FbEmits
        /\ faults' = IF same # {}
                       THEN [faults EXCEPT ![Min(same)].counter = @ + 1]
                     ELSE IF Len(faults) >= FbCapacity THEN faults
                     ELSE Append(faults, [key |-> k, counter |-> 1])
        /\ fbOut' = [emitted |-> [fbOut.emitted EXCEPT ![k] = @ + 1],
                     gone |-> IF same = {} /\ Len(faults) >= FbCapacity
                                THEN [fbOut.gone EXCEPT ![k] = @ + 1] ELSE fbOut.gone]

\* The occurrences in the first n records.
FbCounted(k, n) ==
  FbSum({i \in 1 .. n : faults[i].key = k}, [i \in 1 .. n |-> faults[i].counter])

\* ev_fault_drain of at most n records, and ev_fault_ack_all: the first leave,
\* the others move up.
FbDrain ==
  \E n \in 1 .. Len(faults) :
    /\ faults' = SubSeq(faults, n + 1, Len(faults))
    /\ fbOut' = [fbOut EXCEPT !.gone = [k \in FbKeys |-> @[k] + FbCounted(k, n)]]

\* Nothing more to report.
FbQuiet ==
  /\ FbTotal(fbOut.emitted) = FbEmits /\ faults = << >>
  /\ UNCHANGED fbVars

FbNext == FbEmit \/ FbDrain \/ FbQuiet

-----------------------------------------------------------------------------

\* Nothing accepted is lost, repeated or overtaken, across wraps of the
\* sequence numbers, refusals and dropped heads: both rings hold, in order,
\* what they owe; the outbox's counts, which its limits are judged by, are
\* those of its contents (ev_network_outbox.c:39-48, :60-79); and every fault
\* emitted is counted once, in a record of its own key or among those refused
\* or handed out (ev_fault_bus.c:27-46, :78-88).
QueuesConserve ==
  /\ QuContents(ingress) = inOwed
  /\ QuContents(outbox) = obOwed
  /\ \A c \in ObCategories :
       outbox.queued[c] = Cardinality({i \in 1 .. Len(obOwed) : obOwed[i][1] = c})
  /\ \A k \in FbKeys :
       /\ Cardinality({i \in 1 .. Len(faults) : faults[i].key = k}) <= 1
       /\ fbOut.emitted[k] = fbOut.gone[k] + FbCounted(k, Len(faults))
=============================================================================
