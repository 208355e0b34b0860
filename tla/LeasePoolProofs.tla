--------------------------- MODULE LeasePoolProofs ---------------------------
(* Proofs about the lease pool, for every number of slots, handles and       *)
(* envelopes and every width of the generation counter.                      *)
EXTENDS LeasePool, FiniteSetTheorems, TLAPS

-----------------------------------------------------------------------------
(* The operators on slots. *)

\* Generations stay in range and skip 0 when they wrap.
LEMMA GenerationType ==
  ASSUME NEW g \in Generations
  PROVE  /\ NextGeneration(g) \in Generations
         /\ NextGeneration(g) = IF g = GenMod - 1 THEN 1 ELSE g + 1
  BY GenModAssumption DEF Generations, NextGeneration

\* A retain changes the reference count only.
LEMMA RetainedType ==
  ASSUME NEW r \in Slot
  PROVE  /\ Retained(r) \in Slot
         /\ Retained(r).refcount = r.refcount + 1
         /\ Retained(r).in_use = r.in_use
         /\ Retained(r).payload_size = r.payload_size
         /\ Retained(r).generation = r.generation
  BY DEF Retained, Slot

\* The release of the last share frees the slot; another one only counts.
LEMMA ReleasedType ==
  ASSUME NEW r \in Slot, r.refcount > 0
  PROVE  /\ Released(r) \in Slot
         /\ Released(r).refcount = r.refcount - 1
         /\ r.refcount = 1 => Released(r).in_use = FALSE
         /\ r.refcount # 1 => /\ Released(r).in_use = r.in_use
                              /\ Released(r).payload_size = r.payload_size
         /\ Released(r).generation = r.generation
<1>1. CASE r.refcount = 1
  <2>1. Released(r) = [in_use |-> FALSE, refcount |-> 0, payload_size |-> 0,
                       generation |-> r.generation]
    BY <1>1 DEF Released
  <2>2. Released(r) \in Slot
    BY <2>1 DEF Slot
  <2>3. Released(r).in_use = FALSE
    BY <2>1
  <2> QED BY <1>1, <2>1, <2>2, <2>3
<1>2. CASE r.refcount # 1
  <2>1. Released(r) = [r EXCEPT !.refcount = @ - 1]
    BY <1>2 DEF Released
  <2>2. Released(r).in_use = r.in_use
    BY <2>1 DEF Slot
  <2>3. Released(r) \in Slot
    BY <1>2, <2>1 DEF Slot
  <2> QED BY <1>2, <2>1, <2>2, <2>3 DEF Slot
<1> QED BY <1>1, <1>2

\* Giving a new share back at once changes nothing.
LEMMA ReleasedRetained ==
  ASSUME NEW r \in Slot, r.refcount > 0
  PROVE  Released(Retained(r)) = r
<1> DEFINE q == Retained(r)
           u == Released(q)
<1>1. r.refcount \in Nat
  BY DEF Slot
<1>2. /\ q \in Slot /\ q.refcount = r.refcount + 1 /\ q.in_use = r.in_use
      /\ q.payload_size = r.payload_size /\ q.generation = r.generation
  BY RetainedType
<1> HIDE DEF q
<1>3. q.refcount > 0 /\ q.refcount # 1 /\ q.refcount - 1 = r.refcount
  BY <1>1, <1>2
<1>4. /\ u \in Slot /\ u.refcount = r.refcount /\ u.in_use = r.in_use
      /\ u.payload_size = r.payload_size /\ u.generation = r.generation
  BY <1>2, <1>3, ReleasedType
<1> HIDE DEF u
<1>5. u = r
  BY <1>4 DEF Slot
<1> QED BY <1>5 DEF u, q

\* A slot is in use exactly while it has shares.
UsedIffShared(r) == r.in_use <=> r.refcount > 0

\* Retaining or releasing a slot with shares keeps the flag in step.
LEMMA FlagInStep ==
  ASSUME NEW r \in Slot, r.refcount > 0, UsedIffShared(r)
  PROVE  UsedIffShared(Retained(r)) /\ UsedIffShared(Released(r))
<1>1. r.refcount \in Nat
  BY DEF Slot
<1>2. r.in_use
  BY Zenon DEF UsedIffShared
<1>3. Retained(r).refcount > 0
  BY <1>1, RetainedType
<1>4. Retained(r).in_use
  BY <1>2, RetainedType, Zenon
<1>0. Released(r).refcount = r.refcount - 1
  BY ReleasedType
<1>5. CASE r.refcount = 1
  <2>1. ~(Released(r).refcount > 0)
    BY <1>0, <1>5
  <2>2. ~Released(r).in_use
    BY <1>5, ReleasedType, Zenon
  <2> QED BY <1>3, <1>4, <2>1, <2>2, Zenon DEF UsedIffShared
<1>6. CASE r.refcount # 1
  <2>1. Released(r).refcount > 0
    BY <1>0, <1>1, <1>6
  <2>2. Released(r).in_use
    BY <1>2, <1>6, ReleasedType, Zenon
  <2> QED BY <1>3, <1>4, <2>1, <2>2, Zenon DEF UsedIffShared
<1> QED BY <1>5, <1>6

-----------------------------------------------------------------------------
(* Reference counts against sets of holders.  S[s] is the set of holders of  *)
(* slot s; the state's own is Shares.                                        *)

Holders == Clients \cup Msgs

Exact(sl, S) ==
  \A s \in Slots : /\ sl[s].refcount = Cardinality(S[s])
                    /\ UsedIffShared(sl[s])

RetainAt(sl, s) == [sl EXCEPT ![s] = Retained(@)]
ReleaseAt(sl, s) == [sl EXCEPT ![s] = Released(@)]

\* T is S with, or without, x among the holders of s.
With(T, S, s, x) ==
  \A t \in Slots : T[t] = IF t = s THEN S[t] \cup {x} ELSE S[t]
Without(T, S, s, x) ==
  \A t \in Slots : T[t] = IF t = s THEN S[t] \ {x} ELSE S[t]

\* Every set of holders is finite, so it has a cardinality.
LEMMA HoldersFinite ==
  ASSUME NEW T \in SUBSET Holders
  PROVE  IsFiniteSet(T) /\ Cardinality(T) \in Nat
<1>1. IsFiniteSet(Holders)
  BY HoldersAssumption, FS_Union DEF Holders
<1>2. IsFiniteSet(T)
  BY <1>1, FS_Subset
<1> QED BY <1>2, FS_CardinalityType

\* A slot that has a holder is in use and has a positive count.
LEMMA HeldIsLive ==
  ASSUME NEW sl \in [Slots -> Slot], NEW S \in [Slots -> SUBSET Holders],
         Exact(sl, S), NEW s \in Slots, NEW x, x \in S[s]
  PROVE  sl[s].in_use /\ sl[s].refcount > 0
<1>1. IsFiniteSet(S[s]) /\ Cardinality(S[s]) \in Nat
  BY HoldersFinite
<1>2. Cardinality(S[s]) # 0
  BY <1>1, FS_EmptySet
<1>3. sl[s].refcount > 0
  BY <1>1, <1>2 DEF Exact
<1> QED BY <1>3, Zenon DEF Exact, UsedIffShared

\* A retain for a new holder keeps the count exact.
LEMMA ShareAdded ==
  ASSUME NEW sl \in [Slots -> Slot], NEW S \in [Slots -> SUBSET Holders],
         Exact(sl, S), NEW s \in Slots, sl[s].refcount > 0,
         NEW x \in Holders, x \notin S[s],
         NEW sm, sm = RetainAt(sl, s), NEW T, With(T, S, s, x)
  PROVE  Exact(sm, T)
<1>1. IsFiniteSet(S[s]) /\ Cardinality(S[s]) \in Nat
  BY HoldersFinite
<1>2. Cardinality(S[s] \cup {x}) = Cardinality(S[s]) + 1
  BY <1>1, FS_AddElement
<1>3. Retained(sl[s]).refcount = sl[s].refcount + 1
  BY RetainedType
<1>4. UsedIffShared(Retained(sl[s]))
  BY FlagInStep DEF Exact
<1> QED BY <1>1, <1>2, <1>3, <1>4 DEF Exact, With, RetainAt

\* A release by a holder keeps the count exact, and frees the slot only when
\* it was the last holder.
LEMMA ShareRemoved ==
  ASSUME NEW sl \in [Slots -> Slot], NEW S \in [Slots -> SUBSET Holders],
         Exact(sl, S), NEW s \in Slots, NEW x, x \in S[s],
         NEW sm, sm = ReleaseAt(sl, s), NEW T, Without(T, S, s, x)
  PROVE  Exact(sm, T)
<1>1. IsFiniteSet(S[s]) /\ Cardinality(S[s]) \in Nat
  BY HoldersFinite
<1>2. Cardinality(S[s] \ {x}) = Cardinality(S[s]) - 1
  BY <1>1, FS_RemoveElement
<1>3. sl[s] \in Slot /\ sl[s].refcount > 0
  BY HeldIsLive
<1>4. Released(sl[s]).refcount = sl[s].refcount - 1
  BY <1>3, ReleasedType
<1>5. UsedIffShared(Released(sl[s]))
  BY <1>3, FlagInStep DEF Exact
<1>6. Exact(sm, T)
  BY <1>1, <1>2, <1>4, <1>5 DEF Exact, Without, ReleaseAt
<1> QED BY <1>6

\* A slot with one share has one holder.
LEMMA LastHolder ==
  ASSUME NEW sl \in [Slots -> Slot], NEW S \in [Slots -> SUBSET Holders],
         Exact(sl, S), NEW s \in Slots, NEW x, x \in S[s], sl[s].refcount = 1
  PROVE  S[s] = {x}
<1>1. IsFiniteSet(S[s]) /\ Cardinality(S[s]) \in Nat
  BY HoldersFinite
<1>2. Cardinality(S[s] \ {x}) = Cardinality(S[s]) - 1
  BY <1>1, FS_RemoveElement
<1>3. Cardinality(S[s] \ {x}) = 0
  BY <1>1, <1>2 DEF Exact
<1>4. IsFiniteSet(S[s] \ {x})
  BY <1>1, FS_Subset
<1>5. S[s] \ {x} = {}
  BY <1>3, <1>4, FS_EmptySet
<1> QED BY <1>5

-----------------------------------------------------------------------------
(* The slots and the diagnostics. *)

InUse(sl) == {s \in Slots : sl[s].in_use}

PoolOK(sl, st) ==
  /\ sl \in [Slots -> Slot]
  /\ st \in Stats
  /\ st.in_use = Cardinality(InUse(sl))
  /\ st.in_use <= st.high_watermark

\* The slots in use are finitely many.
LEMMA InUseFinite ==
  ASSUME NEW sl
  PROVE  IsFiniteSet(InUse(sl)) /\ Cardinality(InUse(sl)) \in Nat
<1>1. IsFiniteSet(Slots)
  BY SlotCountAssumption, FS_Interval DEF Slots
<1>2. InUse(sl) \subseteq Slots
  BY DEF InUse
<1>3. IsFiniteSet(InUse(sl))
  BY <1>1, <1>2, FS_Subset
<1> QED BY <1>3, FS_CardinalityType

\* What each operation does to the diagnostics.
LEMMA StatsType ==
  ASSUME NEW st \in Stats
  PROVE  /\ RetainStats(st) \in Stats
         /\ RetainStats(st).in_use = st.in_use
         /\ RetainStats(st).high_watermark = st.high_watermark
         /\ StaleStats(st) \in Stats
         /\ StaleStats(st).in_use = st.in_use
         /\ StaleStats(st).high_watermark = st.high_watermark
         /\ FailedStats(st) \in Stats
         /\ FailedStats(st).in_use = st.in_use
         /\ FailedStats(st).high_watermark = st.high_watermark
  BY DEF RetainStats, StaleStats, FailedStats, Stats

Counted(st) == [st EXCEPT !.releases = @ + 1]

\* One more release counted.
LEMMA CountedType ==
  ASSUME NEW st \in Stats
  PROVE  /\ Counted(st) \in Stats
         /\ Counted(st).in_use = st.in_use
         /\ Counted(st).high_watermark = st.high_watermark
  BY DEF Counted, Stats

\* A refused attachment leaves one retain and one release in the counters.
LEMMA RolledBackStatsType ==
  ASSUME NEW st \in Stats
  PROVE  /\ RolledBackStats(st) \in Stats
         /\ RolledBackStats(st).in_use = st.in_use
         /\ RolledBackStats(st).high_watermark = st.high_watermark
<1>1. /\ RetainStats(st) \in Stats
      /\ RetainStats(st).in_use = st.in_use
      /\ RetainStats(st).high_watermark = st.high_watermark
  BY StatsType
<1>2. RolledBackStats(st) = Counted(RetainStats(st))
  BY DEF RolledBackStats, Counted
<1> QED BY <1>1, <1>2, CountedType

\* A release counts itself, and the slot when it was the last share.
LEMMA ReleaseStatsType ==
  ASSUME NEW st \in Stats, NEW r \in Slot, r.refcount = 1 => st.in_use > 0
  PROVE  /\ ReleaseStats(st, r) \in Stats
         /\ ReleaseStats(st, r).in_use
              = IF r.refcount = 1 THEN st.in_use - 1 ELSE st.in_use
         /\ ReleaseStats(st, r).high_watermark = st.high_watermark
<1> DEFINE a == Counted(st)
           n == IF r.refcount = 1 THEN a.in_use - 1 ELSE a.in_use
<1>1. a \in Stats /\ a.in_use = st.in_use /\ a.high_watermark = st.high_watermark
  BY CountedType
<1>2. n \in Nat /\ n = IF r.refcount = 1 THEN st.in_use - 1 ELSE st.in_use
  BY <1>1 DEF Stats
<1>3. ReleaseStats(st, r) = [a EXCEPT !.in_use = n]
  BY DEF ReleaseStats, Counted
<1> HIDE DEF a, n
<1> QED BY <1>1, <1>2, <1>3 DEF Stats

\* An acquire counts itself and the slot, and raises the high watermark.
LEMMA AcquireStatsType ==
  ASSUME NEW st \in Stats
  PROVE  /\ AcquireStats(st) \in Stats
         /\ AcquireStats(st).in_use = st.in_use + 1
         /\ AcquireStats(st).in_use <= AcquireStats(st).high_watermark
<1> DEFINE a == [st EXCEPT !.acquires = @ + 1]
           b == [a EXCEPT !.in_use = @ + 1]
           h == IF st.in_use + 1 > b.high_watermark
                THEN st.in_use + 1 ELSE b.high_watermark
<1>1. a \in Stats /\ a.in_use = st.in_use
  BY DEF Stats
<1> HIDE DEF a
<1>2. b \in Stats /\ b.in_use = st.in_use + 1
  BY <1>1 DEF Stats
<1>3. h \in Nat /\ st.in_use + 1 <= h
  BY <1>2 DEF Stats
<1>4. AcquireStats(st) = [b EXCEPT !.high_watermark = h]
  BY DEF AcquireStats, a
<1> HIDE DEF b, h
<1> QED BY <1>2, <1>3, <1>4 DEF Stats

\* The diagnostics follow every change of a slot.
LEMMA PoolRetained ==
  ASSUME NEW sl, NEW st, PoolOK(sl, st), NEW s \in Slots
  PROVE  PoolOK(RetainAt(sl, s), RetainStats(st))
<1> DEFINE sm == [sl EXCEPT ![s] = Retained(@)]
<1> SUFFICES PoolOK(sm, RetainStats(st))
  BY DEF RetainAt
<1>1. sl[s] \in Slot
  BY DEF PoolOK
<1>2. Retained(sl[s]) \in Slot /\ Retained(sl[s]).in_use = sl[s].in_use
  BY <1>1, RetainedType
<1>3. sm \in [Slots -> Slot]
  BY <1>2 DEF PoolOK
<1>4. InUse(sm) = InUse(sl)
  BY <1>2, <1>3 DEF InUse, PoolOK
<1> HIDE DEF sm
<1> QED BY <1>3, <1>4, StatsType DEF PoolOK

\* Releasing a share of a slot in use.
LEMMA PoolReleased ==
  ASSUME NEW sl, NEW st, PoolOK(sl, st), NEW s \in Slots,
         sl[s].in_use, sl[s].refcount > 0
  PROVE  PoolOK(ReleaseAt(sl, s), ReleaseStats(st, sl[s]))
<1> DEFINE sm == [sl EXCEPT ![s] = Released(@)]
<1> SUFFICES PoolOK(sm, ReleaseStats(st, sl[s]))
  BY DEF ReleaseAt
<1>1. sl[s] \in Slot
  BY DEF PoolOK
<1>2. /\ Released(sl[s]) \in Slot
      /\ sl[s].refcount = 1 => Released(sl[s]).in_use = FALSE
      /\ sl[s].refcount # 1 => Released(sl[s]).in_use = sl[s].in_use
  BY <1>1, ReleasedType
<1>3. sm \in [Slots -> Slot]
  BY <1>2 DEF PoolOK
<1>4. IsFiniteSet(InUse(sl)) /\ Cardinality(InUse(sl)) \in Nat /\ s \in InUse(sl)
  BY InUseFinite DEF InUse
<1>5. Cardinality(InUse(sl)) > 0
  BY <1>4, FS_EmptySet
<1>6. st \in Stats /\ st.in_use = Cardinality(InUse(sl))
  BY DEF PoolOK
<1>7. /\ ReleaseStats(st, sl[s]) \in Stats
      /\ ReleaseStats(st, sl[s]).in_use
           = IF sl[s].refcount = 1 THEN st.in_use - 1 ELSE st.in_use
      /\ ReleaseStats(st, sl[s]).high_watermark = st.high_watermark
  BY <1>1, <1>5, <1>6, ReleaseStatsType
<1>8. CASE sl[s].refcount = 1
  <2>1. InUse(sm) = InUse(sl) \ {s}
    BY <1>2, <1>3, <1>8 DEF InUse, PoolOK
  <2>2. Cardinality(InUse(sm)) = Cardinality(InUse(sl)) - 1
    BY <2>1, <1>4, FS_RemoveElement
  <2> HIDE DEF sm
  <2> QED BY <1>3, <1>4, <1>5, <1>7, <1>8, <2>2 DEF PoolOK, Stats
<1>9. CASE sl[s].refcount # 1
  <2>1. InUse(sm) = InUse(sl)
    BY <1>2, <1>3, <1>9 DEF InUse, PoolOK
  <2> HIDE DEF sm
  <2> QED BY <1>3, <1>7, <1>9, <2>1 DEF PoolOK
<1> QED BY <1>8, <1>9

\* Taking a free slot.
LEMMA PoolAcquired ==
  ASSUME NEW sl, NEW st, PoolOK(sl, st), NEW s \in Slots, ~sl[s].in_use,
         NEW r \in Slot, r.in_use
  PROVE  PoolOK([sl EXCEPT ![s] = r], AcquireStats(st))
<1> DEFINE sm == [sl EXCEPT ![s] = r]
<1> SUFFICES PoolOK(sm, AcquireStats(st))
  OBVIOUS
<1>1. sm \in [Slots -> Slot]
  BY DEF PoolOK
<1>2. InUse(sm) = InUse(sl) \cup {s}
  BY <1>1 DEF InUse, PoolOK
<1>3. IsFiniteSet(InUse(sl)) /\ s \notin InUse(sl)
  BY InUseFinite DEF InUse
<1>4. Cardinality(InUse(sm)) = Cardinality(InUse(sl)) + 1
  BY <1>2, <1>3, FS_AddElement
<1> HIDE DEF sm
<1> QED BY <1>1, <1>4, AcquireStatsType DEF PoolOK

-----------------------------------------------------------------------------
(* The inductive invariant. *)

Shares == [s \in Slots |-> Sharers(s)]

\* The generation n acquisitions after generation g.
Later(g, n) == IF g + n < GenMod THEN g + n ELSE g + n - (GenMod - 1)

HoldersOK ==
  /\ handle \in [Clients -> Handle]
  /\ msg \in [Msgs -> Msg]
  /\ owns \in [Clients -> BOOLEAN]
  /\ incarnation \in [Slots -> Nat]
  /\ handleInc \in [Clients -> Nat]
  /\ msgInc \in [Msgs -> Nat]

EnvelopesCurrent ==
  \A m \in Msgs : msg[m].storage = "EXTERNAL" =>
    /\ msg[m].slot \in Slots
    /\ msg[m].kind = "LEASE" /\ msg[m].disposed = FALSE
    /\ slots[msg[m].slot].payload_size = msg[m].payload_size
    /\ msgInc[m] = incarnation[msg[m].slot]

OwnersCurrent ==
  \A c \in Clients : owns[c] =>
    handle[c].slot \in Slots /\ handleInc[c] = incarnation[handle[c].slot]

\* A handle's generation and its slot's are as far apart as its incarnation
\* and the slot's, up to one turn of the counter.
Tracks(c) ==
  LET s == handle[c].slot
      age == incarnation[s] - handleInc[c]
  IN  /\ handle[c].generation \in 1..(GenMod - 1)
      /\ handleInc[c] <= incarnation[s]
      /\ age < GenMod - 1 =>
           slots[s].generation = Later(handle[c].generation, age)

GenerationsTrack == \A c \in Clients : handle[c].slot \in Slots => Tracks(c)

IInv ==
  /\ PoolOK(slots, stats)
  /\ Exact(slots, Shares)
  /\ HoldersOK
  /\ EnvelopesCurrent
  /\ OwnersCurrent
  /\ GenerationsTrack

\* Generations n acquisitions apart, n less than a turn, agree only for n = 0.
LEMMA LaterGeneration ==
  ASSUME NEW g \in 1..(GenMod - 1), NEW n \in Nat, n < GenMod - 1
  PROVE  /\ Later(g, 0) = g
         /\ Later(g, n) \in 1..(GenMod - 1)
         /\ Later(g, n) = g => n = 0
         /\ n + 1 < GenMod - 1 => NextGeneration(Later(g, n)) = Later(g, n + 1)
<1>1. /\ Later(g, 0) = g
      /\ Later(g, n) \in 1..(GenMod - 1)
      /\ Later(g, n) = g => n = 0
  BY GenModAssumption DEF Later
<1>2. Later(g, n) \in Generations
  BY <1>1, GenModAssumption DEF Generations
<1>3. NextGeneration(Later(g, n))
        = IF Later(g, n) = GenMod - 1 THEN 1 ELSE Later(g, n) + 1
  BY <1>2, GenerationType
<1>4. n + 1 < GenMod - 1 => NextGeneration(Later(g, n)) = Later(g, n + 1)
  BY <1>3, GenModAssumption DEF Later
<1> QED BY <1>1, <1>4

\* The holders of a slot are handles and envelopes.
LEMMA SharesType ==
  /\ Shares \in [Slots -> SUBSET Holders]
  /\ \A s \in Slots : Shares[s] = Sharers(s)
  BY DEF Shares, Sharers, Holders

\* A handle that is accepted within the window belongs to the present
\* incarnation.
LEMMA AcceptedIsCurrent ==
  ASSUME IInv, NEW c \in Clients, HandleIsLive(handle[c]), WithinWindow(c)
  PROVE  handle[c].slot \in Slots /\ handleInc[c] = incarnation[handle[c].slot]
<1>1. handle[c].slot \in Slots
  BY DEF IInv, HoldersOK, Handle, HandleIsLive
<1>2. Tracks(c)
  BY <1>1 DEF IInv, GenerationsTrack
<1>3. incarnation[handle[c].slot] \in Nat /\ handleInc[c] \in Nat
  BY <1>1 DEF IInv, HoldersOK
<1> DEFINE n == incarnation[handle[c].slot] - handleInc[c]
<1>4. n \in Nat /\ n < GenMod - 1 /\ handle[c].generation \in 1..(GenMod - 1)
  BY <1>2, <1>3 DEF Tracks, WithinWindow
<1>5. Later(handle[c].generation, n) = handle[c].generation
  BY <1>2, <1>4 DEF Tracks, HandleIsLive
<1>6. n = 0
  BY <1>4, <1>5, LaterGeneration
<1> QED BY <1>1, <1>3, <1>6

\* Only an owner's call is accepted.
LEMMA AcceptedCaller ==
  ASSUME IInv, NEW c \in Clients, Calls(c), HandleIsLive(handle[c])
  PROVE  /\ owns[c]
         /\ handle[c].slot \in Slots
         /\ handleInc[c] = incarnation[handle[c].slot]
<1>1. CASE owns[c]
  BY <1>1 DEF IInv, OwnersCurrent
<1>2. CASE Outlived(c) /\ WithinWindow(c)
  <2>1. handle[c].slot \in Slots /\ handleInc[c] = incarnation[handle[c].slot]
    BY <1>2, AcceptedIsCurrent
  <2>2. incarnation[handle[c].slot] \in Nat
    BY <2>1 DEF IInv, HoldersOK
  <2>3. ~(handleInc[c] < incarnation[handle[c].slot])
    BY <2>1, <2>2
  <2> QED BY <1>2, <2>3, Zenon DEF Outlived, HandleIsLive
<1> QED BY <1>1, <1>2 DEF Calls

\* The invariant gives every property.
LEMMA IInvImplies ==
  ASSUME IInv
  PROVE  /\ TypeOK /\ RefcountIsShares /\ InUseIsExact
         /\ PayloadNotRecycled /\ OwnersAreLive /\ LiveMeansCurrent
<1>1. TypeOK
  BY DEF IInv, PoolOK, HoldersOK, TypeOK
<1>2. RefcountIsShares
  BY SharesType, Zenon DEF IInv, Exact, UsedIffShared, RefcountIsShares
<1>3. InUseIsExact
  BY DEF IInv, PoolOK, InUse, InUseIsExact
<1>4. PayloadNotRecycled
  <2> SUFFICES ASSUME NEW m \in Msgs, msg[m].storage = "EXTERNAL"
               PROVE  slots[msg[m].slot].in_use
    BY Zenon DEF IInv, EnvelopesCurrent, PayloadNotRecycled
  <2>1. msg[m].slot \in Slots
    BY DEF IInv, EnvelopesCurrent
  <2>2. m \in Shares[msg[m].slot]
    BY <2>1, SharesType DEF Sharers
  <2> QED BY <2>1, <2>2, HeldIsLive, SharesType DEF IInv, PoolOK
<1>5. OwnersAreLive
  <2> SUFFICES ASSUME NEW c \in Clients, owns[c]
               PROVE  HandleIsLive(handle[c])
    BY Zenon DEF IInv, OwnersCurrent, OwnersAreLive
  <2> DEFINE s == handle[c].slot
  <2>1. s \in Slots /\ handleInc[c] = incarnation[s] /\ incarnation[s] \in Nat
    BY DEF IInv, OwnersCurrent, HoldersOK
  <2>2. c \in Shares[s]
    BY <2>1, SharesType DEF Sharers
  <2>3. slots[s].in_use /\ slots[s].refcount > 0
    BY <2>1, <2>2, HeldIsLive, SharesType DEF IInv, PoolOK
  <2>4. Tracks(c)
    BY <2>1 DEF IInv, GenerationsTrack
  <2>5. incarnation[s] - handleInc[c] = 0 /\ 0 < GenMod - 1
    BY <2>1, GenModAssumption
  <2>6. slots[s].generation = handle[c].generation
    BY <2>4, <2>5, LaterGeneration DEF Tracks
  <2>7. s # NoSlot
    BY <2>1 DEF Slots, NoSlot
  <2> QED BY <2>3, <2>6, <2>7, Zenon DEF HandleIsLive
<1>6. LiveMeansCurrent
  BY AcceptedIsCurrent DEF LiveMeansCurrent
<1> QED BY <1>1, <1>2, <1>3, <1>4, <1>5, <1>6

-----------------------------------------------------------------------------
(* Every step preserves it. *)

\* A free slot has no holders.
LEMMA FreeHasNoHolder ==
  ASSUME NEW sl \in [Slots -> Slot], NEW S \in [Slots -> SUBSET Holders],
         Exact(sl, S), NEW s \in Slots, ~sl[s].in_use
  PROVE  S[s] = {}
  BY HeldIsLive

\* The generations keep track as long as neither the handles nor the slots'
\* generations and incarnations change.
LEMMA TrackFrame ==
  ASSUME GenerationsTrack, HoldersOK,
         \A t \in Slots : slots'[t].generation = slots[t].generation,
         UNCHANGED <<handle, incarnation, handleInc>>
  PROVE  GenerationsTrack'
  BY DEF GenerationsTrack, Tracks

\* A step that only counts something keeps the invariant.
LEMMA StatsOnlyStep ==
  ASSUME IInv, UNCHANGED <<slots, handle, msg, ghostVars>>,
         stats' \in Stats, stats'.in_use = stats.in_use,
         stats'.high_watermark = stats.high_watermark
  PROVE  IInv'
<1>1. PoolOK(slots, stats)'
  BY DEF IInv, PoolOK
<1>2. UNCHANGED <<slots, handle, msg, owns, incarnation, handleInc, msgInc>>
  BY DEF ghostVars
<1>3. Shares' = Shares
  BY <1>2 DEF Shares, Sharers
<1>4. Exact(slots, Shares)'
  BY <1>2, <1>3 DEF IInv
<1>5. HoldersOK' /\ EnvelopesCurrent' /\ OwnersCurrent' /\ GenerationsTrack'
  BY <1>2 DEF IInv, HoldersOK, EnvelopesCurrent, OwnersCurrent,
              GenerationsTrack, Tracks
<1> QED BY <1>1, <1>4, <1>5 DEF IInv

\* A refused call only counts a stale handle.
LEMMA StaleStep ==
  ASSUME IInv, Stale, UNCHANGED <<slots, handle, msg, ghostVars>>
  PROVE  IInv'
<1>1. /\ stats' \in Stats /\ stats'.in_use = stats.in_use
      /\ stats'.high_watermark = stats.high_watermark
  BY StatsType DEF Stale, IInv, PoolOK
<1> QED BY <1>1, StatsOnlyStep

\* ev_lease_pool_acquire keeps the invariant: nobody holds the slot it takes,
\* and older handles on the slot fall one generation further behind.
LEMMA AcquireStep ==
  ASSUME IInv, NEW c \in Clients, NEW size \in Sizes, Acquire(c, size)
  PROVE  IInv'
<1>1. CASE /\ stats' = FailedStats(stats)
           /\ UNCHANGED <<slots, handle, msg, ghostVars>>
  <2>1. /\ stats' \in Stats /\ stats'.in_use = stats.in_use
        /\ stats'.high_watermark = stats.high_watermark
    BY <1>1, StatsType DEF IInv, PoolOK
  <2> QED BY <1>1, <2>1, StatsOnlyStep
<1>2. ASSUME NEW s \in Slots,
             FirstFree(s),
             slots' = [slots EXCEPT ![s] =
                [in_use |-> TRUE, refcount |-> 1, payload_size |-> size,
                 generation |-> NextGeneration(slots[s].generation)]],
             handle' = [handle EXCEPT ![c] =
                [slot |-> s, generation |-> NextGeneration(slots[s].generation)]],
             stats' = AcquireStats(stats),
             owns' = [owns EXCEPT ![c] = TRUE],
             incarnation' = [incarnation EXCEPT ![s] = @ + 1],
             handleInc' = [handleInc EXCEPT ![c] = incarnation[s] + 1],
             UNCHANGED <<msg, msgInc>>, ~owns[c]
      PROVE  IInv'
  <2> DEFINE g == NextGeneration(slots[s].generation)
             r == [in_use |-> TRUE, refcount |-> 1, payload_size |-> size,
                   generation |-> g]
  <2>1. slots \in [Slots -> Slot] /\ slots[s].generation \in Generations
    BY DEF IInv, PoolOK, Slot
  <2>2. g \in Generations /\ g \in 1..(GenMod - 1)
    BY <2>1, GenerationType, GenModAssumption DEF Generations
  <2>3. r \in Slot /\ r.in_use /\ r.refcount = 1
    BY <2>2, SizesAssumption DEF Slot
  <2>4. slots' = [slots EXCEPT ![s] = r]
    BY <1>2
  <2> HIDE DEF r
  <2>5. PoolOK(slots, stats)'
    <3>1. ~slots[s].in_use /\ PoolOK(slots, stats)
      BY <1>2 DEF IInv, FirstFree
    <3>2. PoolOK([slots EXCEPT ![s] = r], AcquireStats(stats))
      BY <2>3, <3>1, PoolAcquired
    <3> QED BY <1>2, <2>4, <3>2
  <2>6. Shares[s] = {}
    BY <1>2, <2>1, SharesType, FreeHasNoHolder DEF IInv, FirstFree
  <2>7. HoldersOK'
    <3>1. [slot |-> s, generation |-> g] \in Handle
      BY <2>2 DEF Handle
    <3> QED BY <1>2, <3>1 DEF IInv, HoldersOK
  <2>8. Shares' = [Shares EXCEPT ![s] = {c}]
    <3>1. ASSUME NEW t \in Slots
          PROVE  Sharers(t)' = IF t = s THEN {c} ELSE Sharers(t)
      <4>1. Sharers(s) = {}
        BY <2>6, SharesType
      <4>2. c \notin Msgs
        BY HoldersAssumption
      <4> QED BY <1>2, <2>7, <4>1, <4>2 DEF Sharers, IInv, HoldersOK
    <3> QED BY <3>1 DEF Shares
  <2>9. Exact(slots, Shares)'
    <3>1. Cardinality({c}) = 1
      BY FS_Singleton
    <3>2. UsedIffShared(r)
      BY <2>3 DEF UsedIffShared
    <3> QED BY <2>1, <2>3, <2>4, <2>8, <3>1, <3>2, SharesType DEF IInv, Exact
  <2>10. EnvelopesCurrent'
    <3> SUFFICES ASSUME NEW m \in Msgs, msg[m].storage = "EXTERNAL"
                 PROVE  /\ slots'[msg[m].slot] = slots[msg[m].slot]
                        /\ incarnation'[msg[m].slot] = incarnation[msg[m].slot]
      BY <1>2 DEF IInv, EnvelopesCurrent
    <3>1. msg[m].slot \in Slots
      BY DEF IInv, EnvelopesCurrent
    <3>2. msg[m].slot # s
      BY <2>6, <3>1, SharesType DEF Sharers
    <3> QED BY <1>2, <2>1, <3>1, <3>2 DEF IInv, HoldersOK
  <2>11. OwnersCurrent'
    <3> SUFFICES ASSUME NEW d \in Clients, owns'[d]
                 PROVE  /\ handle'[d].slot \in Slots
                        /\ handleInc'[d] = incarnation'[handle'[d].slot]
      BY DEF OwnersCurrent
    <3>1. CASE d = c
      BY <1>2, <3>1 DEF IInv, HoldersOK
    <3>2. CASE d # c
      <4>1. /\ owns[d] /\ handle'[d] = handle[d] /\ handleInc'[d] = handleInc[d]
        BY <1>2, <3>2 DEF IInv, HoldersOK
      <4>2. handle[d].slot \in Slots /\ handleInc[d] = incarnation[handle[d].slot]
        BY <4>1 DEF IInv, OwnersCurrent
      <4>3. handle[d].slot # s
        BY <2>6, <4>1, <4>2, SharesType DEF Sharers
      <4> QED BY <1>2, <4>1, <4>2, <4>3 DEF IInv, HoldersOK
    <3> QED BY <3>1, <3>2
  <2>12. GenerationsTrack'
    <3> SUFFICES ASSUME NEW d \in Clients, handle'[d].slot \in Slots
                 PROVE  Tracks(d)'
      BY DEF GenerationsTrack
    <3>1. slots'[s].generation = g
      BY <1>2, <2>1
    <3>2. incarnation[s] \in Nat /\ incarnation'[s] = incarnation[s] + 1
      BY <1>2 DEF IInv, HoldersOK
    <3>3. CASE d = c
      <4>1. /\ handle'[c] = [slot |-> s, generation |-> g]
            /\ handleInc'[c] = incarnation[s] + 1
        BY <1>2 DEF IInv, HoldersOK
      <4>2. Later(g, 0) = g
        BY <2>2, GenModAssumption, LaterGeneration
      <4>3. incarnation'[s] - handleInc'[c] = 0
        BY <3>2, <4>1
      <4> QED BY <2>2, <3>1, <3>2, <3>3, <4>1, <4>2, <4>3 DEF Tracks
    <3>4. CASE d # c
      <4>1. handle'[d] = handle[d] /\ handleInc'[d] = handleInc[d]
        BY <1>2, <3>4 DEF IInv, HoldersOK
      <4>2. Tracks(d) /\ handleInc[d] \in Nat
        BY <4>1 DEF IInv, GenerationsTrack, HoldersOK
      <4>3. CASE handle[d].slot = s
        <5> DEFINE n == incarnation[s] - handleInc[d]
        <5>1. n \in Nat /\ incarnation'[s] - handleInc'[d] = n + 1
          BY <3>2, <4>1, <4>2, <4>3 DEF Tracks
        <5>2. handle[d].generation \in 1..(GenMod - 1)
          BY <4>2 DEF Tracks
        <5>3. n + 1 < GenMod - 1 =>
                g = Later(handle[d].generation, n + 1)
          <6> SUFFICES ASSUME n + 1 < GenMod - 1
                       PROVE  g = Later(handle[d].generation, n + 1)
            OBVIOUS
          <6>1. n < GenMod - 1
            BY <5>1, GenModAssumption
          <6>2. slots[s].generation = Later(handle[d].generation, n)
            BY <4>2, <4>3, <6>1 DEF Tracks
          <6> QED BY <5>1, <5>2, <6>1, <6>2, LaterGeneration
        <5>4. handleInc'[d] <= incarnation'[s]
          BY <3>2, <4>1, <4>2, <4>3 DEF Tracks
        <5> HIDE DEF n, g
        <5> QED BY <3>1, <4>1, <4>3, <5>1, <5>2, <5>3, <5>4 DEF Tracks
      <4>4. CASE handle[d].slot # s
        <5>1. /\ slots'[handle[d].slot] = slots[handle[d].slot]
              /\ incarnation'[handle[d].slot] = incarnation[handle[d].slot]
          BY <1>2, <2>1, <4>1, <4>4 DEF IInv, HoldersOK
        <5> QED BY <4>1, <4>2, <5>1 DEF Tracks
      <4> QED BY <4>3, <4>4
    <3> QED BY <3>3, <3>4
  <2> QED BY <2>5, <2>7, <2>9, <2>10, <2>11, <2>12 DEF IInv
<1> QED BY <1>1, <1>2 DEF Acquire

\* What a retain on behalf of a new holder x does to the pool.
LEMMA RetainFor ==
  ASSUME NEW sl, NEW st, PoolOK(sl, st), NEW S \in [Slots -> SUBSET Holders],
         Exact(sl, S), NEW s \in Slots, sl[s].refcount > 0,
         NEW x \in Holders, x \notin S[s],
         NEW sm, sm = RetainAt(sl, s), NEW T, With(T, S, s, x)
  PROVE  /\ PoolOK(sm, RetainStats(st))
         /\ Exact(sm, T)
         /\ \A t \in Slots : /\ sm[t].generation = sl[t].generation
                             /\ sm[t].payload_size = sl[t].payload_size
<1>1. sl \in [Slots -> Slot] /\ sl[s] \in Slot
  BY DEF PoolOK
<1>2. PoolOK(sm, RetainStats(st))
  BY PoolRetained
<1>3. Exact(sm, T)
  BY <1>1, ShareAdded
<1>4. \A t \in Slots : /\ sm[t].generation = sl[t].generation
                       /\ sm[t].payload_size = sl[t].payload_size
  BY <1>1, RetainedType DEF RetainAt
<1> QED BY <1>2, <1>3, <1>4

\* What a release by the holder x does to the pool: a slot that still has a
\* holder keeps its payload.
LEMMA ReleaseBy ==
  ASSUME NEW sl, NEW st, PoolOK(sl, st), NEW S \in [Slots -> SUBSET Holders],
         Exact(sl, S), NEW s \in Slots, NEW x, x \in S[s],
         NEW sm, sm = ReleaseAt(sl, s), NEW T, Without(T, S, s, x)
  PROVE  /\ PoolOK(sm, ReleaseStats(st, sl[s]))
         /\ Exact(sm, T)
         /\ \A t \in Slots : /\ sm[t].generation = sl[t].generation
                             /\ t # s => sm[t] = sl[t]
         /\ S[s] # {x} => sm[s].payload_size = sl[s].payload_size
<1>1. sl \in [Slots -> Slot] /\ sl[s] \in Slot
  BY DEF PoolOK
<1>2. sl[s].in_use /\ sl[s].refcount > 0
  BY <1>1, HeldIsLive
<1>3. PoolOK(sm, ReleaseStats(st, sl[s]))
  BY <1>2, PoolReleased
<1>4. Exact(sm, T)
  BY <1>1, ShareRemoved
<1>6. sl[s].refcount = 1 => S[s] = {x}
  BY <1>1, LastHolder
<1>5. /\ Released(sl[s]).generation = sl[s].generation
      /\ sl[s].refcount # 1 => Released(sl[s]).payload_size = sl[s].payload_size
  BY <1>1, <1>2, ReleasedType
<1>7. \A t \in Slots : /\ sm[t].generation = sl[t].generation
                       /\ t # s => sm[t] = sl[t]
  BY <1>1, <1>5 DEF ReleaseAt
<1>8. S[s] # {x} => sm[s].payload_size = sl[s].payload_size
  BY <1>1, <1>5, <1>6 DEF ReleaseAt
<1> QED BY <1>3, <1>4, <1>7, <1>8

\* ev_lease_pool_retain keeps the invariant.
LEMMA RetainStep ==
  ASSUME IInv, NEW c \in Clients, NEW d \in Clients, Retain(c, d)
  PROVE  IInv'
<1>1. CASE ~HandleIsLive(handle[c])
  BY <1>1, StaleStep DEF Retain
<1>2. CASE HandleIsLive(handle[c])
  <2> DEFINE s == handle[c].slot
  <2>1. /\ ~owns[d]
        /\ slots' = RetainAt(slots, s)
        /\ stats' = RetainStats(stats)
        /\ handle' = [handle EXCEPT ![d] = handle[c]]
        /\ owns' = [owns EXCEPT ![d] = TRUE]
        /\ handleInc' = [handleInc EXCEPT ![d] = handleInc[c]]
        /\ UNCHANGED <<msg, incarnation, msgInc>>
    BY <1>2 DEF Retain, RetainAt
  <2>2. s \in Slots /\ handleInc[c] = incarnation[s]
    BY <1>2, AcceptedCaller DEF Retain
  <2>3. slots[s].refcount > 0
    BY <1>2 DEF HandleIsLive
  <2>4. d \in Holders /\ d \notin Msgs
    BY HoldersAssumption DEF Holders
  <2>5. d \notin Shares[s]
    BY <2>1, <2>2, <2>4, SharesType DEF Sharers
  <2>7. HoldersOK'
    BY <2>1 DEF IInv, HoldersOK
  <2>8. With(Shares', Shares, s, d)
    <3>1. ASSUME NEW t \in Slots
          PROVE  Sharers(t)' = IF t = s THEN Sharers(t) \cup {d} ELSE Sharers(t)
      BY <2>1, <2>4, <2>7 DEF Sharers, IInv, HoldersOK
    <3> QED BY <3>1 DEF Shares, With
  <2>6. /\ PoolOK(slots, stats)'
        /\ Exact(slots, Shares)'
        /\ \A t \in Slots : /\ slots'[t].generation = slots[t].generation
                            /\ slots'[t].payload_size = slots[t].payload_size
    <3>1. /\ PoolOK(slots, stats) /\ Exact(slots, Shares)
          /\ Shares \in [Slots -> SUBSET Holders]
      BY SharesType DEF IInv
    <3> HIDE DEF s
    <3> QED BY <2>1, <2>2, <2>3, <2>4, <2>5, <2>8, <3>1, RetainFor
  <2>9. EnvelopesCurrent'
    BY <2>1, <2>6 DEF IInv, EnvelopesCurrent
  <2>10. OwnersCurrent'
    BY <2>1, <2>2 DEF IInv, OwnersCurrent, HoldersOK
  <2>11. GenerationsTrack'
    <3> SUFFICES ASSUME NEW e \in Clients, handle'[e].slot \in Slots
                 PROVE  Tracks(e)'
      BY DEF GenerationsTrack
    <3> DEFINE o == IF e = d THEN c ELSE e
    <3>1. handle'[e] = handle[o] /\ handleInc'[e] = handleInc[o] /\ o \in Clients
      BY <2>1 DEF IInv, HoldersOK
    <3>2. Tracks(o)
      BY <3>1 DEF IInv, GenerationsTrack
    <3> HIDE DEF o
    <3> QED BY <2>1, <2>6, <3>1, <3>2 DEF Tracks
  <2> QED BY <2>6, <2>7, <2>9, <2>10, <2>11 DEF IInv
<1> QED BY <1>1, <1>2

\* ev_lease_pool_release keeps the invariant: only an owner is accepted.
LEMMA ReleaseStep ==
  ASSUME IInv, NEW c \in Clients, Release(c)
  PROVE  IInv'
<1>1. CASE ~HandleIsLive(handle[c])
  BY <1>1, StaleStep DEF Release, ReleaseWith
<1>2. CASE HandleIsLive(handle[c])
  <2> DEFINE s == handle[c].slot
  <2>1. /\ slots' = ReleaseAt(slots, s)
        /\ stats' = ReleaseStats(stats, slots[s])
        /\ owns' = [owns EXCEPT ![c] = FALSE]
        /\ UNCHANGED <<handle, msg, incarnation, handleInc, msgInc>>
    BY <1>2 DEF Release, ReleaseWith, ReleaseAt
  <2>2. owns[c] /\ s \in Slots
    BY <1>2, AcceptedCaller DEF Release
  <2>3. c \in Shares[s] /\ c \notin Msgs
    BY <2>2, SharesType, HoldersAssumption DEF Sharers
  <2>5. HoldersOK'
    BY <2>1 DEF IInv, HoldersOK
  <2>6. Without(Shares', Shares, s, c)
    <3>1. ASSUME NEW t \in Slots
          PROVE  Sharers(t)' = IF t = s THEN Sharers(t) \ {c} ELSE Sharers(t)
      BY <2>1, <2>3, <2>5 DEF Sharers, IInv, HoldersOK
    <3> QED BY <3>1 DEF Shares, Without
  <2>4. /\ PoolOK(slots, stats)'
        /\ Exact(slots, Shares)'
        /\ \A t \in Slots : /\ slots'[t].generation = slots[t].generation
                            /\ t # s => slots'[t] = slots[t]
        /\ Shares[s] # {c} => slots'[s].payload_size = slots[s].payload_size
    <3>1. /\ PoolOK(slots, stats) /\ Exact(slots, Shares)
          /\ Shares \in [Slots -> SUBSET Holders]
      BY SharesType DEF IInv
    <3> HIDE DEF s
    <3> QED BY <2>1, <2>2, <2>3, <2>6, <3>1, ReleaseBy
  <2>7. EnvelopesCurrent'
    <3> SUFFICES ASSUME NEW m \in Msgs, msg[m].storage = "EXTERNAL"
                 PROVE  slots'[msg[m].slot].payload_size
                          = slots[msg[m].slot].payload_size
      BY <2>1 DEF IInv, EnvelopesCurrent
    <3>1. msg[m].slot \in Slots
      BY DEF IInv, EnvelopesCurrent
    <3>2. m \in Shares[msg[m].slot] /\ m # c
      BY <2>3, <3>1, SharesType DEF Sharers
    <3> QED BY <2>4, <3>1, <3>2
  <2>8. OwnersCurrent'
    BY <2>1 DEF IInv, OwnersCurrent, HoldersOK
  <2>9. GenerationsTrack'
    BY <2>1, <2>4, TrackFrame DEF IInv
  <2> QED BY <2>4, <2>5, <2>7, <2>8, <2>9 DEF IInv
<1> QED BY <1>1, <1>2

\* ev_msg_init_publish keeps the invariant.
LEMMA InitMsgStep ==
  ASSUME IInv, NEW m \in Msgs, NEW k \in EventKinds, InitMsg(m, k)
  PROVE  IInv'
<1>1. /\ msg[m].storage = "NONE"
      /\ msg' = [msg EXCEPT ![m] = BlankMsg(k)]
      /\ UNCHANGED <<slots, stats, handle, owns, incarnation, handleInc, msgInc>>
  BY DEF InitMsg, poolVars, ghostVars
<1>2. BlankMsg(k) \in Msg /\ BlankMsg(k).storage = "NONE"
  BY DEF BlankMsg, Msg
<1>3. HoldersOK'
  BY <1>1, <1>2 DEF IInv, HoldersOK
<1>4. Shares' = Shares
  BY <1>1, <1>2 DEF Shares, Sharers, IInv, HoldersOK
<1>5. PoolOK(slots, stats)' /\ Exact(slots, Shares)'
  BY <1>1, <1>4 DEF IInv
<1>6. EnvelopesCurrent'
  BY <1>1, <1>2 DEF IInv, EnvelopesCurrent, HoldersOK
<1>7. OwnersCurrent' /\ GenerationsTrack'
  BY <1>1 DEF IInv, OwnersCurrent, GenerationsTrack, Tracks
<1> QED BY <1>3, <1>5, <1>6, <1>7 DEF IInv

\* The slot of an envelope with a payload is held by the envelope, so the
\* callbacks accept it.
LEMMA EnvelopeHolds ==
  ASSUME IInv, NEW m \in Msgs, msg[m].storage = "EXTERNAL"
  PROVE  /\ msg[m].slot \in Slots
         /\ m \in Shares[msg[m].slot]
         /\ slots[msg[m].slot].refcount > 0
         /\ slots[msg[m].slot].in_use
         /\ slots[msg[m].slot].payload_size = msg[m].payload_size
<1>1. /\ msg[m].slot \in Slots
      /\ slots[msg[m].slot].payload_size = msg[m].payload_size
  BY DEF IInv, EnvelopesCurrent
<1>2. m \in Shares[msg[m].slot]
  BY <1>1, SharesType DEF Sharers
<1>3. slots[msg[m].slot].in_use /\ slots[msg[m].slot].refcount > 0
  BY <1>1, <1>2, HeldIsLive, SharesType DEF IInv, PoolOK
<1> QED BY <1>1, <1>2, <1>3

\* ev_msg_retain and the copy into a queue keep the invariant.
LEMMA CopyMsgStep ==
  ASSUME IInv, NEW m \in Msgs, NEW n \in Msgs, CopyMsg(m, n)
  PROVE  IInv'
<1> DEFINE s == msg[m].slot
<1>1. /\ m # n
      /\ msg[m].storage = "EXTERNAL"
      /\ msg[n].storage = "NONE"
      /\ UNCHANGED <<handle, owns, incarnation, handleInc>>
  BY DEF CopyMsg
<1>2. s \in Slots /\ slots[s].refcount > 0 /\ SlotAccepts(slots, s, msg[m].payload_size)
  BY <1>1, EnvelopeHolds DEF SlotAccepts
<1>3. /\ slots' = RetainAt(slots, s)
      /\ stats' = RetainStats(stats)
      /\ msg' = [msg EXCEPT ![n] = msg[m]]
      /\ msgInc' = [msgInc EXCEPT ![n] = msgInc[m]]
  BY <1>2 DEF CopyMsg, PoolRetain, Pool, RetainAt
<1>4. n \in Holders /\ n \notin Clients
  BY HoldersAssumption DEF Holders
<1>5. n \notin Shares[s]
  BY <1>1, <1>2, <1>4, SharesType DEF Sharers
<1>6. HoldersOK'
  BY <1>1, <1>3 DEF IInv, HoldersOK
<1>7. With(Shares', Shares, s, n)
  <2>1. ASSUME NEW t \in Slots
        PROVE  Sharers(t)' = IF t = s THEN Sharers(t) \cup {n} ELSE Sharers(t)
    BY <1>1, <1>3, <1>4, <1>6 DEF Sharers, IInv, HoldersOK
  <2> QED BY <2>1 DEF Shares, With
<1>8. /\ PoolOK(slots, stats)'
      /\ Exact(slots, Shares)'
      /\ \A t \in Slots : /\ slots'[t].generation = slots[t].generation
                          /\ slots'[t].payload_size = slots[t].payload_size
  <2>1. /\ PoolOK(slots, stats) /\ Exact(slots, Shares)
        /\ Shares \in [Slots -> SUBSET Holders]
    BY SharesType DEF IInv
  <2> HIDE DEF s
  <2> QED BY <1>2, <1>3, <1>4, <1>5, <1>7, <2>1, RetainFor
<1>9. EnvelopesCurrent'
  BY <1>1, <1>3, <1>8 DEF IInv, EnvelopesCurrent, HoldersOK
<1>10. OwnersCurrent'
  BY <1>1 DEF IInv, OwnersCurrent
<1>11. GenerationsTrack'
  BY <1>1, <1>8, TrackFrame DEF IInv
<1> QED BY <1>6, <1>8, <1>9, <1>10, <1>11 DEF IInv

\* ev_msg_dispose keeps the invariant, although it ignores the generation.
LEMMA DisposeMsgStep ==
  ASSUME IInv, NEW m \in Msgs, DisposeMsg(m)
  PROVE  IInv'
<1> DEFINE b == [BlankMsg(msg[m].kind) EXCEPT !.disposed = TRUE]
           s == msg[m].slot
<1>1. /\ msg' = [msg EXCEPT ![m] = b]
      /\ UNCHANGED <<handle, owns, incarnation, handleInc, msgInc>>
  BY DEF DisposeMsg, ghostVars, IInv, HoldersOK
<1>2. b \in Msg /\ b.storage = "NONE"
  BY DEF BlankMsg, Msg, IInv, HoldersOK
<1> HIDE DEF b
<1>3. HoldersOK'
  BY <1>1, <1>2 DEF IInv, HoldersOK
<1>4. OwnersCurrent'
  BY <1>1 DEF IInv, OwnersCurrent
<1>5. CASE msg[m].storage # "EXTERNAL"
  <2>1. UNCHANGED <<slots, stats>>
    BY <1>5 DEF DisposeMsg, poolVars
  <2>2. Shares' = Shares
    BY <1>1, <1>2, <1>5 DEF Shares, Sharers, IInv, HoldersOK
  <2>3. PoolOK(slots, stats)' /\ Exact(slots, Shares)'
    BY <2>1, <2>2 DEF IInv
  <2>4. EnvelopesCurrent'
    BY <1>1, <1>2, <2>1 DEF IInv, EnvelopesCurrent, HoldersOK
  <2>5. GenerationsTrack'
    BY <1>1, <2>1, TrackFrame DEF IInv
  <2> QED BY <1>3, <1>4, <2>3, <2>4, <2>5 DEF IInv
<1>6. CASE msg[m].storage = "EXTERNAL"
  <2>1. /\ s \in Slots /\ m \in Shares[s]
        /\ SlotAccepts(slots, s, msg[m].payload_size)
    BY <1>6, EnvelopeHolds DEF SlotAccepts
  <2>2. ~msg[m].disposed
    BY <1>6 DEF IInv, EnvelopesCurrent
  <2>3. slots' = ReleaseAt(slots, s) /\ stats' = ReleaseStats(stats, slots[s])
    BY <1>6, <2>1, <2>2 DEF DisposeMsg, ReleaseFromSlot, Pool, ReleaseAt
  <2>4. m \notin Clients
    BY HoldersAssumption
  <2>5. Without(Shares', Shares, s, m)
    <3>1. ASSUME NEW t \in Slots
          PROVE  Sharers(t)' = IF t = s THEN Sharers(t) \ {m} ELSE Sharers(t)
      BY <1>1, <1>2, <2>4 DEF Sharers, IInv, HoldersOK
    <3> QED BY <3>1 DEF Shares, Without
  <2>6. /\ PoolOK(slots, stats)'
        /\ Exact(slots, Shares)'
        /\ \A t \in Slots : /\ slots'[t].generation = slots[t].generation
                            /\ t # s => slots'[t] = slots[t]
        /\ Shares[s] # {m} => slots'[s].payload_size = slots[s].payload_size
    <3>1. /\ PoolOK(slots, stats) /\ Exact(slots, Shares)
          /\ Shares \in [Slots -> SUBSET Holders]
      BY SharesType DEF IInv
    <3> HIDE DEF s
    <3> QED BY <2>1, <2>3, <2>5, <3>1, ReleaseBy
  <2>7. EnvelopesCurrent'
    <3> SUFFICES ASSUME NEW n \in Msgs, msg'[n].storage = "EXTERNAL"
                 PROVE  /\ msg'[n] = msg[n]
                        /\ msg[n].storage = "EXTERNAL"
                        /\ slots'[msg[n].slot].payload_size
                             = slots[msg[n].slot].payload_size
      BY <1>1 DEF IInv, EnvelopesCurrent
    <3>1. n # m /\ msg'[n] = msg[n] /\ msg[n].storage = "EXTERNAL"
      BY <1>1, <1>2 DEF IInv, HoldersOK
    <3>2. msg[n].slot \in Slots /\ n \in Shares[msg[n].slot]
      BY <3>1, EnvelopeHolds
    <3> QED BY <2>6, <3>1, <3>2
  <2>8. GenerationsTrack'
    BY <1>1, <2>6, TrackFrame DEF IInv
  <2> QED BY <1>3, <1>4, <2>6, <2>7, <2>8 DEF IInv
<1> QED BY <1>5, <1>6

\* A release through an envelope that the slot accepts.
LEMMA ReleaseAccepted ==
  ASSUME NEW sl, NEW st, NEW t, NEW size, SlotAccepts(sl, t, size)
  PROVE  LET p == ReleaseFromSlot([slots |-> sl, stats |-> st], t, size)
         IN  p.slots = ReleaseAt(sl, t) /\ p.stats = ReleaseStats(st, sl[t])
  BY DEF ReleaseFromSlot, SlotAccepts, ReleaseAt

\* What attaching a live handle's slot does to the pool, to the holders and
\* to the payloads of slots that somebody else holds.
LEMMA AttachedPool ==
  ASSUME IInv, NEW c \in Clients, NEW m \in Msgs,
         handle[c].slot \in Slots, slots[handle[c].slot].refcount > 0,
         slots' = Attached(Pool, c, m).slots,
         stats' = Attached(Pool, c, m).stats,
         \A t \in Slots : Shares'[t] =
           IF t = handle[c].slot /\ slots[t].payload_size > 0
           THEN Shares[t] \cup {m} ELSE Shares[t] \ {m}
  PROVE  /\ PoolOK(slots, stats)'
         /\ Exact(slots, Shares)'
         /\ \A t \in Slots :
              /\ slots'[t].generation = slots[t].generation
              /\ \A y \in Shares[t] \ {m} :
                   slots'[t].payload_size = slots[t].payload_size
<1> DEFINE s == handle[c].slot
           e == msg[m].slot
           size == msg[m].payload_size
           held == msg[m].storage = "EXTERNAL"
           kept == RetainAt(slots, s)
<1>1. /\ PoolOK(slots, stats) /\ Exact(slots, Shares)
      /\ Shares \in [Slots -> SUBSET Holders]
      /\ slots \in [Slots -> Slot] /\ slots[s] \in Slot
  BY SharesType DEF IInv, PoolOK
<1>2. m \in Holders /\ m \notin Clients
  BY HoldersAssumption DEF Holders
<1>3. held => e \in Slots /\ m \in Shares[e] /\ SlotAccepts(slots, e, size)
  BY EnvelopeHolds DEF SlotAccepts
<1>4. \A t \in Slots : m \in Shares[t] => held /\ t = e
  BY <1>2, SharesType DEF Sharers
<1>5. \A t \in Slots :
        /\ m \notin Shares[t] => Shares[t] \ {m} = Shares[t]
        /\ m \in Shares[t] => Shares[t] \cup {m} = Shares[t]
  OBVIOUS
<1>6. CASE slots[s].payload_size > 0
  <2>1. PoolRetain(Pool, s) = [slots |-> kept, stats |-> RetainStats(stats)]
    BY DEF PoolRetain, Pool, RetainAt
  <2>2. CASE ~held
    <3>1. slots' = kept /\ stats' = RetainStats(stats)
      BY <1>6, <2>1, <2>2 DEF Attached
    <3>2. m \notin Shares[s] /\ With(Shares', Shares, s, m)
      BY <1>4, <1>5, <1>6, <2>2 DEF With
    <3> HIDE DEF s, held
    <3> QED BY <1>1, <1>2, <3>1, <3>2, RetainFor DEF s
  <2>3. CASE held
    <3>1. /\ PoolOK(kept, RetainStats(stats))
          /\ kept \in [Slots -> Slot]
          /\ kept[s] = Retained(slots[s])
      <4>1. PoolOK(kept, RetainStats(stats))
        BY <1>1, PoolRetained
      <4>2. kept[s] = Retained(slots[s])
        BY <1>1 DEF RetainAt
      <4> HIDE DEF kept
      <4> QED BY <4>1, <4>2 DEF PoolOK
    <3>2. /\ Retained(slots[s]).refcount = slots[s].refcount + 1
          /\ Retained(slots[s]).in_use = slots[s].in_use
          /\ Retained(slots[s]).payload_size = slots[s].payload_size
      BY <1>1, RetainedType
    <3>3. slots[s].refcount \in Nat
      BY <1>1 DEF Slot
    <3>4. SlotAccepts(kept, e, size)
      <4>1. CASE e = s
        <5>1. kept[e].in_use
          BY <1>3, <2>3, <3>1, <3>2, <4>1 DEF SlotAccepts
        <5>2. kept[e].payload_size = size /\ kept[e].refcount > 0
          BY <1>3, <2>3, <3>1, <3>2, <3>3, <4>1 DEF SlotAccepts
        <5> QED BY <5>1, <5>2 DEF SlotAccepts
      <4>2. CASE e # s
        <5>1. kept[e] = slots[e]
          BY <1>1, <1>3, <2>3, <4>2 DEF RetainAt
        <5> QED BY <1>3, <2>3, <5>1 DEF SlotAccepts
      <4> QED BY <4>1, <4>2
    <3>5. /\ slots' = ReleaseAt(kept, e)
          /\ stats' = ReleaseStats(RetainStats(stats), kept[e])
      <4>1. Attached(Pool, c, m)
              = ReleaseFromSlot([slots |-> kept, stats |-> RetainStats(stats)],
                                e, size)
        BY <1>6, <2>1, <2>3 DEF Attached
      <4> HIDE DEF kept, e, size
      <4> QED BY <3>4, <4>1, ReleaseAccepted
    <3>6. CASE e = s
      <4>1. Released(kept[s]) = slots[s]
        BY <1>1, <3>1, ReleasedRetained
      <4>2. slots' = slots
        BY <1>1, <3>1, <3>5, <3>6, <4>1 DEF ReleaseAt, RetainAt
      <4>3. kept[s].in_use /\ kept[s].refcount > 0
        BY <3>4, <3>6 DEF SlotAccepts
      <4>4. PoolOK(ReleaseAt(kept, s), ReleaseStats(RetainStats(stats), kept[s]))
        <5> HIDE DEF kept, s
        <5> QED BY <3>1, <4>3, PoolReleased DEF s
      <4>5. PoolOK(slots, stats)'
        BY <3>5, <3>6, <4>4
      <4>6. \A t \in Slots : Shares'[t] = Shares[t]
        BY <1>3, <1>4, <1>5, <1>6, <2>3, <3>6
      <4>7. Exact(slots, Shares)'
        BY <1>1, <4>2, <4>6 DEF Exact
      <4> QED BY <4>2, <4>5, <4>7
    <3>7. CASE e # s
      <4> DEFINE T == [t \in Slots |-> IF t = s THEN Shares[t] \cup {m}
                                       ELSE Shares[t]]
      <4>1. T \in [Slots -> SUBSET Holders] /\ With(T, Shares, s, m)
        BY <1>1, <1>2 DEF With
      <4>2. m \notin Shares[s]
        BY <1>4, <3>7
      <4>3. m \in T[e] /\ Without(Shares', T, e, m)
        <5>1. m \in T[e]
          BY <1>3, <2>3, <3>7
        <5>2. ASSUME NEW t \in Slots
              PROVE  Shares'[t] = IF t = e THEN T[t] \ {m} ELSE T[t]
          <6>1. CASE t = s
            BY <1>6, <3>7, <6>1
          <6>2. CASE t = e
            BY <3>7, <6>2
          <6>3. CASE t # s /\ t # e
            BY <1>4, <1>5, <6>3
          <6> QED BY <6>1, <6>2, <6>3
        <5> QED BY <5>1, <5>2 DEF Without
      <4>4. T[e] = Shares[e] /\ e \in Slots
        BY <1>3, <2>3, <3>7
      <4>5. \A t \in Slots : t # s => T[t] = Shares[t]
        OBVIOUS
      <4> HIDE DEF T, kept, s, e, held
      <4>6. /\ Exact(kept, T)
            /\ \A t \in Slots :
                 /\ kept[t].generation = slots[t].generation
                 /\ kept[t].payload_size = slots[t].payload_size
        BY <1>1, <1>2, <4>1, <4>2, RetainFor DEF kept, s
      <4>7. /\ PoolOK(slots, stats)' /\ Exact(slots, Shares)'
            /\ \A t \in Slots : /\ slots'[t].generation = kept[t].generation
                                /\ t # e => slots'[t] = kept[t]
            /\ T[e] # {m} => slots'[e].payload_size = kept[e].payload_size
        BY <3>1, <3>5, <4>1, <4>3, <4>4, <4>6, ReleaseBy
      <4> QED BY <4>4, <4>6, <4>7
    <3> QED BY <3>6, <3>7
  <2> QED BY <2>2, <2>3
<1>7. CASE ~(slots[s].payload_size > 0)
  <2>1. CASE ~held
    <3>1. slots' = slots /\ stats' = stats
      BY <1>7, <2>1 DEF Attached, Pool
    <3>2. \A t \in Slots : Shares'[t] = Shares[t]
      BY <1>4, <1>5, <1>7, <2>1
    <3>3. Exact(slots, Shares)'
      BY <1>1, <3>1, <3>2 DEF Exact
    <3> QED BY <1>1, <3>1, <3>3
  <2>2. CASE held
    <3>1. slots' = ReleaseAt(slots, e) /\ stats' = ReleaseStats(stats, slots[e])
      <4>1. Attached(Pool, c, m)
              = ReleaseFromSlot([slots |-> slots, stats |-> stats], e, size)
        BY <1>7, <2>2 DEF Attached, Pool
      <4> HIDE DEF e, size
      <4> QED BY <1>3, <2>2, <4>1, ReleaseAccepted
    <3>2. Without(Shares', Shares, e, m)
      BY <1>4, <1>5, <1>7, <2>2 DEF Without
    <3> HIDE DEF e, held
    <3> QED BY <1>1, <1>3, <2>2, <3>1, <3>2, ReleaseBy
  <2> QED BY <2>1, <2>2
<1> QED BY <1>6, <1>7

\* ev_lease_pool_attach_msg keeps the invariant.
LEMMA AttachMsgStep ==
  ASSUME IInv, NEW c \in Clients, NEW m \in Msgs, AttachMsg(c, m)
  PROVE  IInv'
<1> DEFINE s == handle[c].slot
           z == slots[s].payload_size
<1>1. CASE ~HandleIsLive(handle[c])
  BY <1>1, StaleStep DEF AttachMsg
<1>2. CASE /\ HandleIsLive(handle[c])
           /\ stats' = IF z > 0 THEN RolledBackStats(stats) ELSE stats
           /\ UNCHANGED <<slots, handle, msg, ghostVars>>
  <2>1. /\ stats' \in Stats /\ stats'.in_use = stats.in_use
        /\ stats'.high_watermark = stats.high_watermark
    BY <1>2, RolledBackStatsType DEF IInv, PoolOK
  <2> QED BY <1>2, <2>1, StatsOnlyStep
<1>3. CASE /\ HandleIsLive(handle[c])
           /\ slots' = Attached(Pool, c, m).slots
           /\ stats' = Attached(Pool, c, m).stats
           /\ msg' = [msg EXCEPT ![m] =
                IF z > 0
                THEN [kind |-> "LEASE", storage |-> "EXTERNAL", slot |-> s,
                      payload_size |-> z, disposed |-> FALSE]
                ELSE BlankMsg("LEASE")]
           /\ msgInc' = [msgInc EXCEPT ![m] = incarnation[s]]
           /\ UNCHANGED <<handle, owns, incarnation, handleInc>>
  <2> DEFINE w == IF z > 0
                  THEN [kind |-> "LEASE", storage |-> "EXTERNAL", slot |-> s,
                        payload_size |-> z, disposed |-> FALSE]
                  ELSE BlankMsg("LEASE")
  <2>1. /\ owns[c] /\ s \in Slots
        /\ slots[s].refcount > 0
    BY <1>3, AcceptedCaller DEF AttachMsg, HandleIsLive
  <2>2. z \in Nat
    BY <2>1 DEF IInv, PoolOK, Slot
  <2>3. /\ w \in Msg
        /\ z > 0 => /\ w.storage = "EXTERNAL" /\ w.slot = s
                    /\ w.payload_size = z
                    /\ w.kind = "LEASE" /\ w.disposed = FALSE
        /\ ~(z > 0) => w.storage = "NONE"
    BY <2>1, <2>2 DEF Msg, EventKinds, BlankMsg
  <2>4. msg' = [msg EXCEPT ![m] = w]
    BY <1>3
  <2> HIDE DEF w
  <2>5. HoldersOK'
    BY <1>3, <2>1, <2>3, <2>4 DEF IInv, HoldersOK
  <2>6. m \notin Clients /\ c # m
    BY HoldersAssumption
  <2>7. \A t \in Slots : Shares'[t] =
          IF t = s /\ slots[t].payload_size > 0
          THEN Shares[t] \cup {m} ELSE Shares[t] \ {m}
    <3>1. ASSUME NEW t \in Slots
          PROVE  Sharers(t)' = IF t = s /\ z > 0
                               THEN Sharers(t) \cup {m} ELSE Sharers(t) \ {m}
      BY <1>3, <2>3, <2>4, <2>6 DEF Sharers, IInv, HoldersOK
    <3> QED BY <3>1 DEF Shares
  <2>8. /\ PoolOK(slots, stats)'
        /\ Exact(slots, Shares)'
        /\ \A t \in Slots :
             /\ slots'[t].generation = slots[t].generation
             /\ \A y \in Shares[t] \ {m} :
                  slots'[t].payload_size = slots[t].payload_size
    BY <1>3, <2>1, <2>7, AttachedPool
  <2>9. EnvelopesCurrent'
    <3> SUFFICES ASSUME NEW n \in Msgs, msg'[n].storage = "EXTERNAL"
                 PROVE  /\ msg'[n].slot \in Slots
                        /\ msg'[n].kind = "LEASE" /\ msg'[n].disposed = FALSE
                        /\ slots'[msg'[n].slot].payload_size
                             = msg'[n].payload_size
                        /\ msgInc'[n] = incarnation[msg'[n].slot]
      BY <1>3 DEF EnvelopesCurrent
    <3>1. CASE n = m
      <4>1. msg'[n] = w /\ msgInc'[n] = incarnation[s] /\ z > 0
        BY <1>3, <2>3, <2>4, <3>1 DEF IInv, HoldersOK
      <4>2. c \in Shares[s] \ {m}
        BY <2>1, <2>6, SharesType DEF Sharers
      <4>3. slots'[s].payload_size = z
        BY <2>1, <2>8, <4>2
      <4> QED BY <2>1, <2>3, <4>1, <4>3
    <3>2. CASE n # m
      <4>1. /\ msg'[n] = msg[n] /\ msgInc'[n] = msgInc[n]
            /\ msg[n].storage = "EXTERNAL"
        BY <1>3, <2>4, <3>2 DEF IInv, HoldersOK
      <4>2. msg[n].slot \in Slots /\ n \in Shares[msg[n].slot] \ {m}
        BY <3>2, <4>1, EnvelopeHolds
      <4>3. slots'[msg[n].slot].payload_size = slots[msg[n].slot].payload_size
        BY <2>8, <4>2
      <4> QED BY <4>1, <4>2, <4>3 DEF IInv, EnvelopesCurrent
    <3> QED BY <3>1, <3>2
  <2>10. OwnersCurrent'
    BY <1>3 DEF IInv, OwnersCurrent
  <2>11. GenerationsTrack'
    BY <1>3, <2>8, TrackFrame DEF IInv
  <2> QED BY <2>5, <2>8, <2>9, <2>10, <2>11 DEF IInv
<1> QED BY <1>1, <1>2, <1>3 DEF AttachMsg

-----------------------------------------------------------------------------
(* The theorems. *)

\* ev_lease_pool_init establishes the invariant.
LEMMA IInvInit == Init => IInv
<1> SUFFICES ASSUME Init PROVE IInv
  OBVIOUS
<1>1. HoldersOK
  BY GenModAssumption DEF Init, HoldersOK, Handle, Msg, BlankMsg, EventKinds,
     Generations
<1>2. \A s \in Slots : /\ slots[s] \in Slot
                       /\ slots[s].in_use = FALSE /\ slots[s].refcount = 0
  BY GenModAssumption DEF Init, Slot, Generations
<1>3. InUse(slots) = {}
  BY <1>2 DEF InUse
<1>4. PoolOK(slots, stats)
  <2>1. slots \in [Slots -> Slot]
    BY <1>2 DEF Init
  <2>2. stats \in Stats /\ stats.in_use = 0 /\ stats.high_watermark = 0
    BY DEF Init, Stats
  <2> QED BY <1>3, <2>1, <2>2, FS_EmptySet DEF PoolOK
<1>5. Exact(slots, Shares)
  <2>1. \A s \in Slots : Shares[s] = {}
    BY SharesType DEF Sharers, Init, BlankMsg
  <2>2. \A s \in Slots : UsedIffShared(slots[s])
    BY <1>2 DEF UsedIffShared
  <2> QED BY <1>2, <2>1, <2>2, FS_EmptySet DEF Exact
<1>6. EnvelopesCurrent
  BY DEF Init, BlankMsg, EnvelopesCurrent
<1>7. OwnersCurrent
  BY DEF Init, OwnersCurrent
<1>8. GenerationsTrack
  BY DEF Init, GenerationsTrack, Slots, NoSlot
<1> QED BY <1>1, <1>4, <1>5, <1>6, <1>7, <1>8 DEF IInv

\* Every step keeps it.
LEMMA IInvNext == IInv /\ [Next]_vars => IInv'
<1> SUFFICES ASSUME IInv, [Next]_vars PROVE IInv'
  OBVIOUS
<1>1. ASSUME NEW c \in Clients, NEW size \in Sizes, Acquire(c, size)
      PROVE  IInv'
  BY <1>1, AcquireStep
<1>2. ASSUME NEW c \in Clients, NEW d \in Clients, Retain(c, d)
      PROVE  IInv'
  BY <1>2, RetainStep
<1>3. ASSUME NEW c \in Clients, Release(c)
      PROVE  IInv'
  BY <1>3, ReleaseStep
<1>4. ASSUME NEW m \in Msgs, NEW k \in EventKinds, InitMsg(m, k)
      PROVE  IInv'
  BY <1>4, InitMsgStep
<1>5. ASSUME NEW c \in Clients, NEW m \in Msgs, AttachMsg(c, m)
      PROVE  IInv'
  BY <1>5, AttachMsgStep
<1>6. ASSUME NEW m \in Msgs, NEW n \in Msgs, CopyMsg(m, n)
      PROVE  IInv'
  BY <1>6, CopyMsgStep
<1>7. ASSUME NEW m \in Msgs, DisposeMsg(m)
      PROVE  IInv'
  BY <1>7, DisposeMsgStep
<1>8. CASE UNCHANGED vars
  <2>1. /\ UNCHANGED <<slots, handle, msg, ghostVars>>
        /\ stats' = stats
    BY <1>8 DEF vars, ghostVars
  <2> QED BY <2>1, StatsOnlyStep DEF IInv, PoolOK
<1> QED BY <1>1, <1>2, <1>3, <1>4, <1>5, <1>6, <1>7, <1>8 DEF Next

\* The invariant holds in every reachable state, for every pool size, number
\* of handles and envelopes and width of the generation counter.
THEOREM Inductive == Spec => []IInv
  BY IInvInit, IInvNext, PTL DEF Spec

\* The pool, the handles and the envelopes keep their types; in particular
\* no count is ever decremented below zero.
THEOREM TypeCorrect == Spec => []TypeOK
<1>1. IInv => TypeOK
  BY IInvImplies
<1> QED BY <1>1, Inductive, PTL

\* ev_lease_pool and ev_msg together neither leak a slot nor free one under a
\* holder: the reference count is the number of holders.
THEOREM SharesCounted == Spec => []RefcountIsShares
<1>1. IInv => RefcountIsShares
  BY IInvImplies
<1> QED BY <1>1, Inductive, PTL

\* stats.in_use is the number of slots in use.
THEOREM InUseCounted == Spec => []InUseIsExact
<1>1. IInv => InUseIsExact
  BY IInvImplies
<1> QED BY <1>1, Inductive, PTL

\* An envelope's buffer is never recycled under it.
THEOREM EnvelopesSafe == Spec => []PayloadNotRecycled
<1>1. IInv => PayloadNotRecycled
  BY IInvImplies
<1> QED BY <1>1, Inductive, PTL

\* An owner's handle is always accepted.
THEOREM OwnersAccepted == Spec => []OwnersAreLive
<1>1. IInv => OwnersAreLive
  BY IInvImplies
<1> QED BY <1>1, Inductive, PTL

\* A stale handle is refused as long as it is not kept across a whole turn of
\* the generation counter.
THEOREM StaleRefused == Spec => []LiveMeansCurrent
<1>1. IInv => LiveMeansCurrent
  BY IInvImplies
<1> QED BY <1>1, Inductive, PTL
=============================================================================
