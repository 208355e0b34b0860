------------------------------ MODULE LeasePool ------------------------------
(***************************************************************************)
(* The fixed-slot lease pool (core/src/ev_lease_pool.c) with the message    *)
(* envelopes that carry leases (core/src/ev_msg.c, core/src/ev_dispose.c).  *)
(*                                                                          *)
(* A client is one ev_lease_handle_t variable of the program: it names a    *)
(* slot and a generation, and owns one share of the slot or none.  Shares   *)
(* are released once; a handle whose slot has been given back may still be  *)
(* used (retain, release, attach) and must then be refused.                 *)
(*                                                                          *)
(* The variables incarnation, owns, handleInc and msgInc are history: no    *)
(* operation reads them except to say which calls a client makes.           *)
(***************************************************************************)
EXTENDS Naturals, FiniteSets

CONSTANTS SlotCount,    \* pool->slot_count
          Sizes,        \* payload sizes requested; 0 is an empty payload
          GenMod,       \* generations are counted modulo GenMod (2^32)
          Clients,      \* handle variables
          Msgs,         \* message envelopes
          MaxAcquires,  \* bound: acquire calls, successful or not
          MaxRetains,   \* bound: stats.retains
          MaxStale      \* bound: stats.stale_handles

ASSUME SlotCountAssumption == SlotCount \in Nat \ {0}
ASSUME SizesAssumption == Sizes \subseteq Nat
ASSUME GenModAssumption == GenMod \in Nat /\ GenMod > 2
ASSUME HoldersAssumption ==
  /\ IsFiniteSet(Clients)
  /\ IsFiniteSet(Msgs)
  /\ Clients \cap Msgs = {}
ASSUME BoundsAssumption ==
  MaxAcquires \in Nat /\ MaxRetains \in Nat /\ MaxStale \in Nat

VARIABLES slots,        \* pool->slots
          stats,        \* pool->stats
          handle,       \* the clients' handles
          msg,          \* the envelopes
          owns,         \* the client owns a share through its handle
          incarnation,  \* how often each slot has been acquired
          handleInc,    \* the incarnation each handle was issued for
          msgInc        \* the incarnation each envelope was attached to

poolVars == <<slots, stats>>
ghostVars == <<owns, incarnation, handleInc, msgInc>>
vars == <<slots, stats, handle, msg, owns, incarnation, handleInc, msgInc>>

Slots == 1..SlotCount
NoSlot == 0
Generations == 0..(GenMod - 1)
EventKinds == {"LEASE", "INLINE"}

Slot == [in_use: BOOLEAN, refcount: Nat, payload_size: Nat,
         generation: Generations]
Handle == [slot: Slots \cup {NoSlot}, generation: Generations]
Msg == [kind: EventKinds, storage: {"NONE", "EXTERNAL"},
        slot: Slots \cup {NoSlot}, payload_size: Nat, disposed: BOOLEAN]
Stats == [acquires: Nat, retains: Nat, releases: Nat, in_use: Nat,
          high_watermark: Nat, failed_acquires: Nat, stale_handles: Nat]

BlankMsg(k) == [kind |-> k, storage |-> "NONE", slot |-> NoSlot,
                payload_size |-> 0, disposed |-> FALSE]

Init ==
  /\ slots = [s \in Slots |-> [in_use |-> FALSE, refcount |-> 0,
                               payload_size |-> 0, generation |-> 0]]
  /\ stats = [acquires |-> 0, retains |-> 0, releases |-> 0, in_use |-> 0,
              high_watermark |-> 0, failed_acquires |-> 0,
              stale_handles |-> 0]
  /\ handle = [c \in Clients |-> [slot |-> NoSlot, generation |-> 0]]
  /\ msg = [m \in Msgs |-> BlankMsg("LEASE")]
  /\ owns = [c \in Clients |-> FALSE]
  /\ incarnation = [s \in Slots |-> 0]
  /\ handleInc = [c \in Clients |-> 0]
  /\ msgInc = [m \in Msgs |-> 0]

-----------------------------------------------------------------------------
(* What the operations compute. *)

\* Faulty variant: a slot reused keeps its generation.
GenerationReused(g) == IF g = 0 THEN 1 ELSE g

NextGeneration(g) == IF (g + 1) % GenMod = 0 THEN 1 ELSE g + 1

HandleIsLive(h) ==
  /\ h.slot # NoSlot
  /\ slots[h.slot].in_use
  /\ slots[h.slot].generation = h.generation
  /\ slots[h.slot].refcount > 0

\* ev_lease_pool_retain on a live handle
Retained(s) == [s EXCEPT !.refcount = @ + 1]

\* Faulty variant: the first release frees the slot.
ReleasedAtOnce(s) == [in_use |-> FALSE, refcount |-> 0, payload_size |-> 0,
                      generation |-> s.generation]

\* ev_lease_pool_release on a live handle
Released(s) ==
  IF s.refcount = 1
  THEN [in_use |-> FALSE, refcount |-> 0, payload_size |-> 0,
        generation |-> s.generation]
  ELSE [s EXCEPT !.refcount = @ - 1]

ReleaseStats(st, s) ==
  [st EXCEPT !.releases = @ + 1,
             !.in_use = IF s.refcount = 1 THEN @ - 1 ELSE @]

RetainStats(st) == [st EXCEPT !.retains = @ + 1]

RolledBackStats(st) == [RetainStats(st) EXCEPT !.releases = @ + 1]

AcquireStats(st) ==
  [st EXCEPT !.acquires = @ + 1,
             !.in_use = @ + 1,
             !.high_watermark = IF st.in_use + 1 > @ THEN st.in_use + 1 ELSE @]

FailedStats(st) == [st EXCEPT !.failed_acquires = @ + 1]
StaleStats(st) == [st EXCEPT !.stale_handles = @ + 1]
Stale == stats' = StaleStats(stats)

-----------------------------------------------------------------------------
(* Which calls a client makes.  A share is released at most once, so a      *)
(* client that owns nothing only calls with a handle whose incarnation is   *)
(* over: and it does not keep one across GenMod - 1 reuses of the slot.     *)

Outlived(c) ==
  /\ ~owns[c]
  /\ handle[c].slot # NoSlot
  /\ handleInc[c] < incarnation[handle[c].slot] \/ ~slots[handle[c].slot].in_use

WithinWindow(c) ==
  incarnation[handle[c].slot] - handleInc[c] < GenMod - 1

Calls(c) == owns[c] \/ (Outlived(c) /\ WithinWindow(c))

FirstFree(s) ==
  ~slots[s].in_use /\ \A t \in 1..(s - 1) : slots[t].in_use

Acquire(c, size) ==
  /\ ~owns[c]
  /\ stats.acquires + stats.failed_acquires < MaxAcquires
  /\ \/ \E s \in Slots :
          /\ FirstFree(s)
          /\ LET g == NextGeneration(slots[s].generation) IN
             /\ slots' = [slots EXCEPT ![s] =
                  [in_use |-> TRUE, refcount |-> 1, payload_size |-> size,
                   generation |-> g]]
             /\ handle' = [handle EXCEPT ![c] = [slot |-> s, generation |-> g]]
          /\ stats' = AcquireStats(stats)
          /\ owns' = [owns EXCEPT ![c] = TRUE]
          /\ incarnation' = [incarnation EXCEPT ![s] = @ + 1]
          /\ handleInc' = [handleInc EXCEPT ![c] = incarnation[s] + 1]
          /\ UNCHANGED <<msg, msgInc>>
     \/ /\ \A s \in Slots : slots[s].in_use
        /\ stats' = FailedStats(stats)
        /\ UNCHANGED <<slots, handle, msg, ghostVars>>

\* Client d takes a copy of c's handle and a share of its own.
Retain(c, d) ==
  /\ Calls(c)
  /\ ~owns[d]
  /\ \/ /\ HandleIsLive(handle[c])
        /\ stats.retains < MaxRetains
        /\ slots' = [slots EXCEPT ![handle[c].slot] = Retained(@)]
        /\ stats' = RetainStats(stats)
        /\ handle' = [handle EXCEPT ![d] = handle[c]]
        /\ owns' = [owns EXCEPT ![d] = TRUE]
        /\ handleInc' = [handleInc EXCEPT ![d] = handleInc[c]]
        /\ UNCHANGED <<msg, incarnation, msgInc>>
     \/ /\ ~HandleIsLive(handle[c])
        /\ stats.stale_handles < MaxStale
        /\ Stale
        /\ UNCHANGED <<slots, handle, msg, ghostVars>>

\* The share is given up whether or not the handle is forgotten.
ReleaseWith(c) ==
  \/ /\ HandleIsLive(handle[c])
     /\ slots' = [slots EXCEPT ![handle[c].slot] = Released(@)]
     /\ stats' = ReleaseStats(stats, slots[handle[c].slot])
     /\ owns' = [owns EXCEPT ![c] = FALSE]
     /\ UNCHANGED <<handle, msg, incarnation, handleInc, msgInc>>
  \/ /\ ~HandleIsLive(handle[c])
     /\ stats.stale_handles < MaxStale
     /\ Stale
     /\ UNCHANGED <<slots, handle, msg, ghostVars>>

Release(c) == Calls(c) /\ ReleaseWith(c)

-----------------------------------------------------------------------------
(* Envelopes. *)

\* ev_msg_init_publish overwrites blindly: a caller reuses an envelope only
\* once it carries no payload.
InitMsg(m, k) ==
  /\ msg[m].storage = "NONE"
  /\ msg' = [msg EXCEPT ![m] = BlankMsg(k)]
  /\ UNCHANGED <<poolVars, handle, ghostVars>>

\* retain_fn and release_fn of an attached payload find the slot by address
\* and use whatever generation it has now, if the size still agrees.
SlotAccepts(sl, s, size) ==
  sl[s].in_use /\ sl[s].payload_size = size /\ sl[s].refcount > 0

PoolRetain(p, s) == [slots |-> [p.slots EXCEPT ![s] = Retained(@)],
                     stats |-> RetainStats(p.stats)]

ReleaseFromSlot(p, s, size) ==
  IF SlotAccepts(p.slots, s, size)
  THEN [slots |-> [p.slots EXCEPT ![s] = Released(@)],
        stats |-> ReleaseStats(p.stats, p.slots[s])]
  ELSE [slots |-> p.slots, stats |-> StaleStats(p.stats)]

Pool == [slots |-> slots, stats |-> stats]

\* Faulty variants: the payload attached so far is not released; the
\* envelope borrows the caller's share.
AttachedOver(p, c, m) ==
  IF slots[handle[c].slot].payload_size > 0
  THEN PoolRetain(p, handle[c].slot) ELSE p
AttachedBorrowed(p, c, m) ==
  IF msg[m].storage = "EXTERNAL"
  THEN ReleaseFromSlot(p, msg[m].slot, msg[m].payload_size) ELSE p

\* The new share is taken before the payload attached so far is released, so
\* re-attaching the same slot cannot free it in between.
Attached(p, c, m) ==
  LET s == handle[c].slot
      kept == IF slots[s].payload_size > 0 THEN PoolRetain(p, s) ELSE p
  IN  IF msg[m].storage = "EXTERNAL"
      THEN ReleaseFromSlot(kept, msg[m].slot, msg[m].payload_size)
      ELSE kept

AttachMsg(c, m) ==
  LET s == handle[c].slot IN
  /\ Calls(c)
  /\ \/ /\ ~HandleIsLive(handle[c])
        /\ stats.stale_handles < MaxStale
        /\ Stale
        /\ UNCHANGED <<slots, handle, msg, ghostVars>>
     \/ \* refused after the retain, which is rolled back
        /\ HandleIsLive(handle[c])
        /\ msg[m].disposed \/ msg[m].kind # "LEASE"
        /\ stats.retains < MaxRetains
        /\ stats' = IF slots[s].payload_size > 0
                    THEN RolledBackStats(stats)
                    ELSE stats
        /\ UNCHANGED <<slots, handle, msg, ghostVars>>
     \/ /\ HandleIsLive(handle[c])
        /\ ~msg[m].disposed /\ msg[m].kind = "LEASE"
        /\ stats.retains < MaxRetains
        /\ slots' = Attached(Pool, c, m).slots
        /\ stats' = Attached(Pool, c, m).stats
        /\ msg' = [msg EXCEPT ![m] =
             IF slots[s].payload_size > 0
             THEN [kind |-> "LEASE", storage |-> "EXTERNAL", slot |-> s,
                   payload_size |-> slots[s].payload_size, disposed |-> FALSE]
             ELSE BlankMsg("LEASE")]
        /\ msgInc' = [msgInc EXCEPT ![m] = incarnation[s]]
        /\ UNCHANGED <<handle, owns, incarnation, handleInc>>

\* The queue's copy of an envelope: retain through the slot, then copy.
CopyMsg(m, n) ==
  /\ m # n
  /\ msg[m].storage = "EXTERNAL"
  /\ msg[n].storage = "NONE"
  /\ stats.retains < MaxRetains
  /\ IF SlotAccepts(slots, msg[m].slot, msg[m].payload_size)
     THEN /\ slots' = PoolRetain(Pool, msg[m].slot).slots
          /\ stats' = PoolRetain(Pool, msg[m].slot).stats
          /\ msg' = [msg EXCEPT ![n] = msg[m]]
          /\ msgInc' = [msgInc EXCEPT ![n] = msgInc[m]]
     ELSE Stale /\ UNCHANGED <<slots, msg, msgInc>>
  /\ UNCHANGED <<handle, owns, incarnation, handleInc>>

\* ev_msg_dispose: a second call does nothing.
DisposeMsg(m) ==
  LET p == ReleaseFromSlot(Pool, msg[m].slot, msg[m].payload_size) IN
  /\ IF ~msg[m].disposed /\ msg[m].storage = "EXTERNAL"
     THEN slots' = p.slots /\ stats' = p.stats
     ELSE UNCHANGED poolVars
  /\ msg' = [msg EXCEPT ![m] = [BlankMsg(@.kind) EXCEPT !.disposed = TRUE]]
  /\ UNCHANGED <<handle, ghostVars>>

Next ==
  \/ \E c \in Clients, size \in Sizes : Acquire(c, size)
  \/ \E c, d \in Clients : Retain(c, d)
  \/ \E c \in Clients : Release(c)
  \/ \E m \in Msgs, k \in EventKinds : InitMsg(m, k)
  \/ \E c \in Clients, m \in Msgs : AttachMsg(c, m)
  \/ \E m, n \in Msgs : CopyMsg(m, n)
  \/ \E m \in Msgs : DisposeMsg(m)

Spec == Init /\ [][Next]_vars

-----------------------------------------------------------------------------
(* Properties. *)

\* The fields of the pool, the handles and the envelopes keep their types.
TypeOK ==
  /\ slots \in [Slots -> Slot]
  /\ stats \in Stats
  /\ handle \in [Clients -> Handle]
  /\ msg \in [Msgs -> Msg]
  /\ owns \in [Clients -> BOOLEAN]
  /\ incarnation \in [Slots -> Nat]
  /\ handleInc \in [Clients -> Nat]
  /\ msgInc \in [Msgs -> Nat]

Sharers(s) ==
  {c \in Clients : owns[c] /\ handle[c].slot = s}
    \cup {m \in Msgs : msg[m].storage = "EXTERNAL" /\ msg[m].slot = s}

\* A slot's reference count is exactly the number of handles and envelopes
\* that still owe a release, and the slot is in use exactly while there is
\* one: nothing leaks and nothing is freed under a holder.
RefcountIsShares ==
  \A s \in Slots : /\ slots[s].refcount = Cardinality(Sharers(s))
                    /\ slots[s].in_use <=> slots[s].refcount > 0

\* The buffer an envelope points to is the one it was attached to: the slot
\* has not been recycled under it and still has the size the envelope tells
\* its reader, although the release callback never looks at the generation.
PayloadNotRecycled ==
  \A m \in Msgs : msg[m].storage = "EXTERNAL" =>
    /\ slots[msg[m].slot].in_use
    /\ slots[msg[m].slot].payload_size = msg[m].payload_size
    /\ msgInc[m] = incarnation[msg[m].slot]

\* A handle that the pool accepts belongs to the present incarnation of its
\* slot, unless it was kept across a whole turn of the generation counter
\* (ev_lease_handle_is_live compares generations that wrap around past 0).
LiveMeansCurrent ==
  \A c \in Clients :
    handle[c].slot # NoSlot /\ HandleIsLive(handle[c]) /\ WithinWindow(c)
      => handleInc[c] = incarnation[handle[c].slot]

\* A client that still owns a share is never refused.
OwnersAreLive ==
  \A c \in Clients : owns[c] =>
    HandleIsLive(handle[c]) /\ handleInc[c] = incarnation[handle[c].slot]

\* stats.in_use counts the slots in use, and never passes its high watermark.
InUseIsExact ==
  /\ stats.in_use = Cardinality({s \in Slots : slots[s].in_use})
  /\ stats.in_use <= stats.high_watermark

=============================================================================
