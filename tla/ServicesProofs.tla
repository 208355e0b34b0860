--------------------------- MODULE ServicesProofs ---------------------------
(* Proofs about the services below the actors, for every value of their      *)
(* capacities, widths of counters, limits and intervals.                     *)
EXTENDS Services, CommonLemmas, SequenceTheorems

\* Min picks the least element of a set of naturals.
LEMMA MinIsLeast ==
  ASSUME NEW T \in SUBSET Nat, T # {}
  PROVE  Min(T) \in T /\ \A y \in T : Min(T) <= y
  BY LeastElement DEF Min

-----------------------------------------------------------------------------
(* Counting in queues. *)

\* The positions that hold a member of C.
CountIn(s, C) == Cardinality({i \in 1 .. Len(s) : s[i] \in C})

\* Some of the positions of a sequence.
LEMMA PlacesCounted ==
  ASSUME NEW n \in Nat, NEW P \in SUBSET (1 .. n)
  PROVE  IsFiniteSet(P) /\ Cardinality(P) \in Nat
<1>1. IsFiniteSet(1 .. n) BY FS_Interval
<1>2. IsFiniteSet(P) BY <1>1, FS_Subset
<1> QED BY <1>2, FS_CardinalityType

\* One more item.
LEMMA CountAppended ==
  ASSUME NEW Items, NEW s \in Seq(Items), NEW x \in Items, NEW C
  PROVE  /\ CountIn(s, C) \in Nat
         /\ CountIn(Append(s, x), C) = IF x \in C THEN CountIn(s, C) + 1 ELSE CountIn(s, C)
<1>1. PICK n, o : n = Len(s) /\ o = Append(s, x) OBVIOUS
<1>2. n \in Nat /\ Len(o) = n + 1 /\ o[n + 1] = x /\ \A i \in 1 .. n : o[i] = s[i]
  BY <1>1
<1>3. PICK P, Q : P = {i \in 1 .. n : s[i] \in C} /\ Q = {i \in 1 .. n + 1 : o[i] \in C}
  OBVIOUS
<1>4. P \in SUBSET (1 .. n) BY <1>3
<1>5. IsFiniteSet(P) /\ Cardinality(P) \in Nat BY <1>2, <1>4, PlacesCounted
<1>6. ~ n + 1 \in 1 .. n BY <1>2
<1>7. Q = IF x \in C THEN P \cup {n + 1} ELSE P
  <2>1. \A i : i \in 1 .. n + 1 <=> i \in 1 .. n \/ i = n + 1 BY <1>2
  <2>2. \A i \in 1 .. n : i \in Q <=> i \in P BY <1>2, <1>3, <2>1
  <2>3. n + 1 \in Q <=> x \in C BY <1>2, <1>3, <2>1
  <2>4. \A i : i \in Q <=> i \in P \/ (i = n + 1 /\ x \in C)
    <3>1. SUFFICES ASSUME NEW i PROVE i \in Q <=> i \in P \/ (i = n + 1 /\ x \in C)
      OBVIOUS
    <3>2. i \in Q => i \in 1 .. n \/ i = n + 1 BY <1>3, <2>1
    <3>3. i \in P => i \in 1 .. n BY <1>3
    <3> QED BY <2>2, <2>3, <3>2, <3>3, Zenon
  <2> QED BY <2>4, Zenon
<1>8. Cardinality(P \cup {n + 1}) = Cardinality(P) + 1
  BY <1>4, <1>5, <1>6, FS_AddElement
<1>9. CountIn(s, C) = Cardinality(P) /\ CountIn(o, C) = Cardinality(Q)
  BY <1>1, <1>2, <1>3 DEF CountIn
<1> QED BY <1>1, <1>5, <1>7, <1>8, <1>9

\* The oldest item leaves.
LEMMA CountTaken ==
  ASSUME NEW Items, NEW s \in Seq(Items), s # << >>, NEW C
  PROVE  /\ CountIn(s, C) \in Nat /\ s[1] \in Items
         /\ s[1] \in C => CountIn(s, C) > 0
         /\ CountIn(Tail(s), C) =
              IF s[1] \in C THEN CountIn(s, C) - 1 ELSE CountIn(s, C)
<1>1. PICK n, o : n = Len(s) /\ o = Tail(s) OBVIOUS
<1>2. n \in Nat /\ n > 0 /\ s[1] \in Items BY <1>1
<1>3. Len(o) = n - 1 /\ \A i \in 1 .. n - 1 : o[i] = s[i + 1]
  BY <1>1, HeadTailProperties
<1>4. PICK P, Q, R : /\ P = {i \in 1 .. n : s[i] \in C}
                     /\ Q = {i \in 1 .. n - 1 : o[i] \in C}
                     /\ R = P \ {1}
  OBVIOUS
<1>5. P \in SUBSET (1 .. n) /\ Q \in SUBSET (1 .. n - 1) BY <1>4
<1>6. IsFiniteSet(P) /\ Cardinality(P) \in Nat BY <1>2, <1>5, PlacesCounted
<1>7. IsFiniteSet(Q) /\ Cardinality(Q) \in Nat
  <2>1. n - 1 \in Nat BY <1>2
  <2> QED BY <1>5, <2>1, PlacesCounted
<1>8. 1 \in P <=> s[1] \in C BY <1>2, <1>4
<1>9. Cardinality(R) = IF s[1] \in C THEN Cardinality(P) - 1 ELSE Cardinality(P)
  BY <1>4, <1>6, <1>8, FS_RemoveElement
<1>10. Cardinality(R) = Cardinality(Q)
  <2>1. \A i \in Q : i \in 1 .. n - 1 /\ i + 1 \in R
    <3>1. SUFFICES ASSUME NEW i \in Q PROVE i \in 1 .. n - 1 /\ i + 1 \in R OBVIOUS
    <3>2. i \in 1 .. n - 1 /\ o[i] \in C BY <1>4
    <3>3. i + 1 \in 1 .. n /\ i + 1 # 1 BY <1>2, <3>2
    <3>4. s[i + 1] \in C BY <1>3, <3>2
    <3> QED BY <1>4, <3>2, <3>3, <3>4
  <2>2. \A j \in R : j - 1 \in Q /\ (j - 1) + 1 = j
    <3>1. SUFFICES ASSUME NEW j \in R PROVE j - 1 \in Q /\ (j - 1) + 1 = j OBVIOUS
    <3>2. j \in 1 .. n /\ j # 1 /\ s[j] \in C BY <1>4
    <3>3. j - 1 \in 1 .. n - 1 /\ (j - 1) + 1 = j BY <1>2, <3>2
    <3>4. o[j - 1] = s[j] BY <1>3, <3>3
    <3> QED BY <1>4, <3>2, <3>3, <3>4
  <2>3. PICK g : g = [i \in Q |-> i + 1] OBVIOUS
  <2>4. g \in [Q -> R] BY <2>1, <2>3
  <2>5. \A a, b \in Q : g[a] = g[b] => a = b BY <2>1, <2>3
  <2>6. \A t \in R : \E q \in Q : g[q] = t BY <2>2, <2>3
  <2>7. g \in Injection(Q, R) BY <2>4, <2>5 DEF Injection, IsInjective
  <2>8. g \in Surjection(Q, R) BY <2>4, <2>6 DEF Surjection
  <2>9. ExistsBijection(Q, R) BY <2>7, <2>8 DEF ExistsBijection, Bijection
  <2> QED BY <1>7, <2>9, FS_Bijection
<1>11. 1 \in P => Cardinality(P) > 0 BY <1>6, FS_EmptySet
<1>12. CountIn(s, C) = Cardinality(P) /\ CountIn(o, C) = Cardinality(Q)
  BY <1>1, <1>3, <1>4 DEF CountIn
<1> QED BY <1>1, <1>2, <1>6, <1>8, <1>9, <1>10, <1>11, <1>12

\* Who is in the queue is counted; an empty queue counts nobody.
LEMMA CountSees ==
  ASSUME NEW Items, NEW s \in Seq(Items), NEW C
  PROVE  /\ CountIn(s, C) \in Nat /\ CountIn(<< >>, C) = 0
         /\ \A j \in 1 .. Len(s) : s[j] \in C => CountIn(s, C) > 0
<1>1. PICK n, P : n = Len(s) /\ P = {i \in 1 .. n : s[i] \in C} OBVIOUS
<1>2. n \in Nat /\ P \in SUBSET (1 .. n) BY <1>1
<1>3. IsFiniteSet(P) /\ Cardinality(P) \in Nat BY <1>2, PlacesCounted
<1>4. P # {} => Cardinality(P) > 0 BY <1>3, FS_EmptySet
<1>5. CountIn(s, C) = Cardinality(P) BY <1>1 DEF CountIn
<1>6. CountIn(<< >>, C) = 0
  <2>1. {i \in 1 .. Len(<< >>) : << >>[i] \in C} = {} OBVIOUS
  <2> QED BY <2>1, FS_EmptySet DEF CountIn
<1> QED BY <1>1, <1>3, <1>4, <1>5, <1>6

-----------------------------------------------------------------------------
(* The watchdog. *)

WdCallCounts == [WdDomains -> 0 .. WdCallMod - 1]

WdTypes ==
  /\ wd \in [enabled : BOOLEAN, refused : BOOLEAN, has_last : BOOLEAN,
             turns : 0 .. WdMod - 1, calls : WdCallCounts]
  /\ wdSys \in [turns : 0 .. WdMod - 1, healthy : BOOLEAN, arming : BOOLEAN,
                calls : WdCallCounts, pending : SUBSET WdDomains,
                failing : SUBSET WdDomains]
  /\ wdOpen \in 0 .. WdBurst
  /\ wdSince \in [turns : 0 .. WdBurst, ended : BOOLEAN, pumped : SUBSET WdDomains]
  /\ wdTick \in [alive : BOOLEAN, fed : BOOLEAN, missed : BOOLEAN]

\* The sum of two readings of a counter of n values.
WdWrap(n, a, b) == IF a + b < n THEN a + b ELSE a + b - n

\* p turns were counted since the last tick.  A turn counted or open happened
\* since then or belonged to the call under way.  When the board was alive and
\* not fed, the counter has just wrapped and is too small to wrap again before
\* the next tick is over.
WdTurns(p) ==
  /\ p + wdOpen <= WdBurst + wdSince.turns
  /\ wdSince.ended <=> p > 0
  /\ wdSys.turns = WdWrap(WdMod, wd.turns, p)
  /\ ~wd.has_last => wd.turns = 0 /\ p + wdOpen <= wdSince.turns
  /\ wdTick.alive /\ ~wdTick.fed =>
       wd.has_last /\ wd.turns + p + wdOpen <= 2 * WdBurst - 1 + wdSince.turns

\* c[d] calls of domain d were counted since the last tick.
WdCalls(c) ==
  \A d \in WdDomains :
    /\ c[d] <= wdSince.turns
    /\ d \in wdSince.pumped <=> c[d] > 0
    /\ wdSys.calls[d] = WdWrap(WdCallMod, wd.calls[d], c[d])

WdInv ==
  /\ WdTypes /\ FedMeansAlive
  /\ \E p \in Nat : WdTurns(p)
  /\ \E c \in [WdDomains -> Nat] : WdCalls(c)

\* The counters are wider than what passes between two ticks.
LEMMA WdSizes ==
  /\ WdMod \in Nat /\ WdMod > 0 /\ WdCallMod \in Nat /\ WdCallMod > 0
  /\ WdBurst \in Nat /\ WdBurst > 0 /\ 3 * WdBurst < WdMod /\ WdBurst < WdCallMod
  BY WdAssumption

\* One more on either side of a reading.
LEMMA WdWrapStep ==
  ASSUME NEW n \in Nat, n > 0, NEW a \in 0 .. n - 1, NEW b \in Nat, NEW k \in Nat,
         b + k < n
  PROVE  /\ WdWrap(n, a, b) \in 0 .. n - 1
         /\ (WdWrap(n, a, b) + k) % n = WdWrap(n, a, b + k)
         /\ WdWrap(n, a, 0) = a
<1>1. WdWrap(n, a, b) \in 0 .. n - 1 BY DEF WdWrap
<1>2. k \in 0 .. n - 1 OBVIOUS
<1>3. (WdWrap(n, a, b) + k) % n =
        IF WdWrap(n, a, b) + k < n THEN WdWrap(n, a, b) + k ELSE WdWrap(n, a, b) + k - n
  BY <1>1, <1>2, ModSum
<1> QED BY <1>1, <1>3 DEF WdWrap

\* The counters of the turns and of a domain's calls count up.
LEMMA WdCounted ==
  /\ \A a \in 0 .. WdMod - 1, b, k \in Nat : b + k < WdMod =>
       (WdWrap(WdMod, a, b) + k) % WdMod = WdWrap(WdMod, a, b + k)
  /\ \A a \in 0 .. WdCallMod - 1, b, k \in Nat : b + k < WdCallMod =>
       (WdWrap(WdCallMod, a, b) + k) % WdCallMod = WdWrap(WdCallMod, a, b + k)
<1>1. WdMod \in Nat /\ WdMod > 0 BY WdSizes
<1>2. WdCallMod \in Nat /\ WdCallMod > 0 BY WdSizes
<1> QED BY <1>1, <1>2, WdWrapStep

\* The board is not started, and nothing has been counted.
LEMMA WdInitInv == WdInit => WdInv
<1> SUFFICES ASSUME WdInit PROVE WdInv
  OBVIOUS
<1>1. WdTypes BY WdSizes DEF WdInit, WdTypes, WdNone, WdCallCounts
<1>2. FedMeansAlive BY DEF WdInit, FedMeansAlive
<1>3. WdTurns(0) BY WdSizes DEF WdInit, WdTurns, WdNone, WdWrap
<1>4. WdCalls([d \in WdDomains |-> 0]) BY WdSizes DEF WdInit, WdCalls, WdNone, WdWrap
<1> QED BY <1>1, <1>2, <1>3, <1>4 DEF WdInv

\* ev_watchdog_snapshot_is_healthy finds no board healthy that is not alive,
\* and after missing one it does not miss the next.
LEMMA WdHealthyMeansAlive ==
  ASSUME WdInv
  PROVE  /\ WdHealthy => WdAlive
         /\ WdAlive /\ wdTick.alive /\ ~wdTick.fed => WdHealthy
<1>1. PICK p \in Nat : WdTurns(p) BY DEF WdInv
<1>2. PICK c \in [WdDomains -> Nat] : WdCalls(c) BY DEF WdInv
<1> USE DEF WdInv, WdTypes, WdCallCounts
<1>3. p > 0 <=> wdSince.ended BY <1>1 DEF WdTurns
<1>4. p = 0 => wdSys.turns = wd.turns /\ (~wd.has_last => wdSys.turns = 0)
  BY <1>1, WdSizes DEF WdTurns, WdWrap
<1>5. \A d \in WdDomains : d \in wdSince.pumped <=> wdSys.calls[d] # wd.calls[d]
  <2> SUFFICES ASSUME NEW d \in WdDomains
               PROVE  d \in wdSince.pumped <=> wdSys.calls[d] # wd.calls[d]
    OBVIOUS
  <2>1. /\ c[d] \in Nat /\ c[d] < WdCallMod
        /\ d \in wdSince.pumped <=> c[d] > 0
        /\ wdSys.calls[d] = WdWrap(WdCallMod, wd.calls[d], c[d])
    BY <1>2, WdSizes DEF WdCalls
  <2>2. wd.calls[d] \in 0 .. WdCallMod - 1 OBVIOUS
  <2> QED BY <2>1, <2>2, WdSizes DEF WdWrap
<1>6. WdHealthy => WdAlive
  <2> SUFFICES ASSUME WdHealthy PROVE WdAlive
    OBVIOUS
  <2>1. wdSince.ended BY <1>3, <1>4, WdSizes DEF WdHealthy
  <2>2. wdSys.failing = {} BY DEF WdHealthy
  <2>3. wd.has_last => wdSys.pending \subseteq wdSince.pumped BY <1>5 DEF WdHealthy
  <2> QED BY <2>1, <2>2, <2>3 DEF WdHealthy, WdAlive
<1>7. ASSUME WdAlive, wdTick.alive, ~wdTick.fed PROVE WdHealthy
  <2>1. p > 0 /\ wd.has_last BY <1>1, <1>3, <1>7 DEF WdAlive, WdTurns
  <2>2. wd.turns + p < WdMod BY <1>1, <1>7, WdSizes DEF WdTurns
  <2>3. wdSys.turns = wd.turns + p BY <1>1, <2>2 DEF WdTurns, WdWrap
  <2>4. wdSys.turns # 0 /\ wdSys.turns > wd.turns BY <2>1, <2>3
  <2>5. \A d \in WdDomains :
          /\ d \notin wdSys.failing
          /\ wd.has_last /\ d \in wdSys.pending => wdSys.calls[d] # wd.calls[d]
    BY <1>5, <1>7 DEF WdAlive
  <2> QED BY <1>7, <2>4, <2>5 DEF WdAlive, WdHealthy
<1> QED BY <1>6, <1>7

\* A tick: what was counted until now is the past.
LEMMA WdTickInv == WdInv /\ WdHandleTick => WdInv'
<1> SUFFICES ASSUME WdInv, WdHandleTick PROVE WdInv'
  OBVIOUS
<1>1. PICK p \in Nat : WdTurns(p) BY DEF WdInv
<1> USE DEF WdInv, WdHandleTick
<1>2. /\ wd' \in [enabled : BOOLEAN, refused : BOOLEAN, has_last : BOOLEAN,
                  turns : 0 .. WdMod - 1, calls : WdCallCounts]
      /\ wd'.turns = wdSys.turns /\ wd'.calls = wdSys.calls /\ wd'.has_last = TRUE
  BY DEF WdTypes
<1>3. wdTick' \in [alive : BOOLEAN, fed : BOOLEAN, missed : BOOLEAN]
  BY DEF WdTypes, WdNextTick, WdAlive, WdHealthy
<1>4. /\ wdTick'.alive = WdAlive /\ wdTick'.fed = WdHealthy
      /\ wdTick'.missed = (wdTick.alive /\ ~wdTick.fed)
  BY DEF WdNextTick
<1>5. wdSince' = WdNone /\ UNCHANGED <<wdSys, wdOpen>> OBVIOUS
<1>6. WdTypes' BY <1>2, <1>3, <1>5, WdSizes DEF WdTypes, WdNone
<1>7. FedMeansAlive'
  BY <1>4, WdHealthyMeansAlive DEF FedMeansAlive
<1>8. WdTurns(0)'
  <2>1. 0 + wdOpen' <= WdBurst + wdSince'.turns BY <1>5, WdSizes DEF WdTypes, WdNone
  <2>2. wdSince'.ended = FALSE BY <1>5 DEF WdNone
  <2>3. wdSys'.turns = WdWrap(WdMod, wd'.turns, 0)
    BY <1>2, <1>5, WdSizes DEF WdTypes, WdWrap
  <2>4. ASSUME WdAlive, ~WdHealthy
        PROVE  wdSys.turns + wdOpen <= 2 * WdBurst - 1
    <3>1. p > 0 BY <1>1, <2>4 DEF WdTurns, WdAlive
    <3>2. wd.has_last
      <4> SUFFICES ASSUME ~wd.has_last PROVE FALSE
        BY DEF WdTypes
      <4>1. wdSys.turns = p BY <1>1, WdSizes DEF WdTurns, WdWrap, WdTypes
      <4> QED BY <2>4, <3>1, <4>1 DEF WdAlive, WdHealthy
    <3>3. wdSys.turns = 0 \/ wdSys.turns <= wd.turns
      <4>1. \A d \in WdDomains : d \in wdSince.pumped => wdSys.calls[d] # wd.calls[d]
        <5> SUFFICES ASSUME NEW d \in WdDomains, d \in wdSince.pumped
                     PROVE  wdSys.calls[d] # wd.calls[d]
          OBVIOUS
        <5>1. PICK c \in [WdDomains -> Nat] : WdCalls(c) OBVIOUS
        <5>2. /\ c[d] \in Nat /\ c[d] > 0 /\ c[d] < WdCallMod
              /\ wdSys.calls[d] = WdWrap(WdCallMod, wd.calls[d], c[d])
          BY <5>1, WdSizes DEF WdCalls, WdTypes
        <5>3. wd.calls[d] \in 0 .. WdCallMod - 1 BY DEF WdTypes, WdCallCounts
        <5> QED BY <5>2, <5>3, WdSizes DEF WdWrap
      <4> QED BY <2>4, <4>1, WdSizes DEF WdAlive, WdHealthy, WdTypes
    <3>4. wdSys.turns < p
      BY <1>1, <3>1, <3>3, WdSizes DEF WdTurns, WdWrap, WdTypes
    <3> QED BY <1>1, <3>4, WdSizes DEF WdTurns, WdTypes
  <2>5. wdSince'.turns = 0 BY <1>5 DEF WdNone
  <2>6. wdTick'.alive /\ ~wdTick'.fed =>
          wd'.turns + 0 + wdOpen' <= 2 * WdBurst - 1 + wdSince'.turns
    BY <1>2, <1>4, <1>5, <2>4, <2>5, WdSizes DEF WdTypes
  <2> QED BY <1>2, <2>1, <2>2, <2>3, <2>6 DEF WdTurns
<1>9. WdCalls([d \in WdDomains |-> 0])'
  BY <1>2, <1>5, WdSizes DEF WdCalls, WdNone, WdWrap, WdTypes, WdCallCounts
<1> QED BY <1>6, <1>7, <1>8, <1>9

\* A turn of a domain's pump.
LEMMA WdPumpInv == WdInv /\ WdPump => WdInv'
<1> SUFFICES ASSUME WdInv, WdPump PROVE WdInv'
  OBVIOUS
<1>0. WdTypes /\ FedMeansAlive BY DEF WdInv
<1>1. PICK p \in Nat : WdTurns(p) BY DEF WdInv
<1>2. PICK c \in [WdDomains -> Nat] : WdCalls(c) BY DEF WdInv
<1>3. PICK d \in WdDomains, failing \in BOOLEAN, left \in BOOLEAN :
        /\ wdSys' = [wdSys EXCEPT
                       !.calls[d] = (@ + 1) % WdCallMod,
                       !.failing = IF failing THEN @ \cup {d} ELSE @ \ {d},
                       !.pending = IF left THEN @ \cup {d} ELSE @ \ {d}]
        /\ wdSince' = [wdSince EXCEPT !.turns = @ + 1, !.pumped = @ \cup {d}]
  BY DEF WdPump
<1>4. /\ wdSince.turns < WdBurst /\ wdOpen < WdBurst /\ wdOpen' = wdOpen + 1
      /\ UNCHANGED <<wd, wdTick>>
  BY DEF WdPump
<1>5. (wdSys.calls[d] + 1) % WdCallMod \in 0 .. WdCallMod - 1
  BY <1>0, WdSizes DEF WdTypes, WdCallCounts
<1>6. wdSys' \in [turns : 0 .. WdMod - 1, healthy : BOOLEAN, arming : BOOLEAN,
                  calls : WdCallCounts, pending : SUBSET WdDomains,
                  failing : SUBSET WdDomains]
  BY <1>0, <1>3, <1>5 DEF WdTypes, WdCallCounts
<1>7. wdSys'.turns = wdSys.turns
      /\ wdSys'.calls = [wdSys.calls EXCEPT ![d] = (@ + 1) % WdCallMod]
  BY <1>0, <1>3 DEF WdTypes
<1>8. /\ wdSince' \in [turns : 0 .. WdBurst, ended : BOOLEAN, pumped : SUBSET WdDomains]
      /\ wdSince'.turns = wdSince.turns + 1 /\ wdSince'.ended = wdSince.ended
      /\ wdSince'.pumped = wdSince.pumped \cup {d}
  <2>1. wdSince.turns + 1 \in 0 .. WdBurst BY <1>0, <1>4, WdSizes DEF WdTypes
  <2> QED BY <1>0, <1>3, <2>1 DEF WdTypes
<1>9. WdTypes' BY <1>0, <1>4, <1>6, <1>8, WdSizes DEF WdTypes
<1>10. FedMeansAlive' BY <1>0, <1>4 DEF FedMeansAlive
<1>11. WdTurns(p)' BY <1>0, <1>1, <1>4, <1>7, <1>8, WdSizes DEF WdTurns, WdTypes
<1> DEFINE b == [c EXCEPT ![d] = @ + 1]
<1>12. b \in [WdDomains -> Nat] OBVIOUS
<1>13. WdCalls(b)'
  <2> SUFFICES ASSUME NEW e \in WdDomains
               PROVE  /\ b[e] <= wdSince'.turns
                      /\ e \in wdSince'.pumped <=> b[e] > 0
                      /\ wdSys'.calls[e] = WdWrap(WdCallMod, wd'.calls[e], b[e])
    BY DEF WdCalls
  <2>1. /\ c[e] \in Nat /\ c[e] <= wdSince.turns /\ wdSince.turns \in Nat
        /\ e \in wdSince.pumped <=> c[e] > 0
        /\ wdSys.calls[e] = WdWrap(WdCallMod, wd.calls[e], c[e])
    BY <1>0, <1>2 DEF WdCalls, WdTypes
  <2>2. CASE e # d
    <3>1. b[e] = c[e] /\ wdSys'.calls[e] = wdSys.calls[e]
      BY <1>0, <1>7, <2>2 DEF WdTypes, WdCallCounts
    <3>2. e \in wdSince'.pumped <=> e \in wdSince.pumped BY <1>8, <2>2
    <3> QED BY <1>4, <1>8, <2>1, <3>1, <3>2
  <2>3. CASE e = d
    <3>1. b[e] = c[e] + 1 /\ wdSys'.calls[e] = (wdSys.calls[e] + 1) % WdCallMod
      BY <1>0, <1>7, <2>3 DEF WdTypes, WdCallCounts
    <3>2. wd.calls[e] \in 0 .. WdCallMod - 1 BY <1>0 DEF WdTypes, WdCallCounts
    <3>7. c[e] \in Nat BY <2>1
    <3>3. c[e] + 1 < WdCallMod BY <1>4, <2>1, WdSizes
    <3>4. (WdWrap(WdCallMod, wd.calls[e], c[e]) + 1) % WdCallMod
            = WdWrap(WdCallMod, wd.calls[e], c[e] + 1)
      BY <3>2, <3>3, <3>7, WdCounted
    <3>5. e \in wdSince'.pumped BY <1>8, <2>3
    <3>6. b[e] > 0 /\ b[e] <= wdSince'.turns BY <1>8, <2>1, <3>1
    <3> QED BY <1>4, <2>1, <3>1, <3>4, <3>5, <3>6
  <2> QED BY <2>2, <2>3
<1> QED BY <1>9, <1>10, <1>11, <1>12, <1>13 DEF WdInv

\* The system pump's call ends and its turns are counted.
LEMMA WdCallEndsInv == WdInv /\ WdCallEnds => WdInv'
<1> SUFFICES ASSUME WdInv, WdCallEnds PROVE WdInv'
  OBVIOUS
<1>0. WdTypes /\ FedMeansAlive BY DEF WdInv
<1>1. PICK p \in Nat : WdTurns(p) BY DEF WdInv
<1>2. PICK c \in [WdDomains -> Nat] : WdCalls(c) BY DEF WdInv
<1>3. PICK ok \in BOOLEAN :
        wdSys' = [wdSys EXCEPT !.turns = (@ + wdOpen) % WdMod, !.healthy = ok]
  BY DEF WdCallEnds
<1>4. /\ wdOpen > 0 /\ wdOpen' = 0 /\ UNCHANGED <<wd, wdTick>>
      /\ wdSince' = [wdSince EXCEPT !.ended = TRUE]
  BY DEF WdCallEnds
<1>5. (wdSys.turns + wdOpen) % WdMod \in 0 .. WdMod - 1 BY <1>0, WdSizes DEF WdTypes
<1>6. /\ wdSys' \in [turns : 0 .. WdMod - 1, healthy : BOOLEAN, arming : BOOLEAN,
                     calls : WdCallCounts, pending : SUBSET WdDomains,
                     failing : SUBSET WdDomains]
      /\ wdSys'.turns = (wdSys.turns + wdOpen) % WdMod /\ wdSys'.calls = wdSys.calls
  BY <1>0, <1>3, <1>5 DEF WdTypes
<1>7. /\ wdSince' \in [turns : 0 .. WdBurst, ended : BOOLEAN, pumped : SUBSET WdDomains]
      /\ wdSince'.turns = wdSince.turns /\ wdSince'.pumped = wdSince.pumped
      /\ wdSince'.ended = TRUE
  BY <1>0, <1>4 DEF WdTypes
<1>8. WdTypes' BY <1>0, <1>4, <1>6, <1>7, WdSizes DEF WdTypes
<1>9. FedMeansAlive' BY <1>0, <1>4 DEF FedMeansAlive
<1>12. p + wdOpen \in Nat BY <1>0, WdSizes DEF WdTypes
<1>13. PICK r \in Nat : r = p + wdOpen BY <1>12
<1>10. WdTurns(r)'
  <2>0. p + wdOpen < WdMod BY <1>0, <1>1, WdSizes DEF WdTurns, WdTypes
  <2>2. wd.turns \in 0 .. WdMod - 1 /\ wdOpen \in Nat BY <1>0, WdSizes DEF WdTypes
  <2>3. (WdWrap(WdMod, wd.turns, p) + wdOpen) % WdMod = WdWrap(WdMod, wd.turns, p + wdOpen)
    BY <2>0, <2>2, WdCounted
  <2>4. wdSys'.turns = WdWrap(WdMod, wd'.turns, r)
    BY <1>1, <1>4, <1>6, <1>13, <2>3 DEF WdTurns
  <2>5. /\ r + wdOpen' <= WdBurst + wdSince'.turns
        /\ r > 0
        /\ ~wd'.has_last => wd'.turns = 0 /\ r + wdOpen' <= wdSince'.turns
    BY <1>1, <1>4, <1>7, <1>13, <2>2 DEF WdTurns
  <2>6. wdTick'.alive /\ ~wdTick'.fed =>
          /\ wd'.has_last
          /\ wd'.turns + r + wdOpen' <= 2 * WdBurst - 1 + wdSince'.turns
    BY <1>0, <1>1, <1>4, <1>7, <1>13, <2>2, WdSizes DEF WdTurns, WdTypes
  <2> QED BY <1>7, <2>4, <2>5, <2>6 DEF WdTurns
<1>11. WdCalls(c)' BY <1>2, <1>4, <1>6, <1>7 DEF WdCalls
<1> QED BY <1>8, <1>9, <1>10, <1>11 DEF WdInv

\* The board starts, a message arrives, sleep is armed or called off.
LEMMA WdOthersInv ==
  WdInv /\ (WdEnable \/ WdPost \/ WdArm \/ UNCHANGED wdVars) => WdInv'
<1> SUFFICES ASSUME WdInv, WdEnable \/ WdPost \/ WdArm \/ UNCHANGED wdVars
             PROVE  WdInv'
  OBVIOUS
<1>0. WdTypes /\ FedMeansAlive BY DEF WdInv
<1>1. PICK p \in Nat : WdTurns(p) BY DEF WdInv
<1>2. PICK c \in [WdDomains -> Nat] : WdCalls(c) BY DEF WdInv
<1>3. CASE WdEnable
  <2>1. /\ wd' \in [enabled : BOOLEAN, refused : BOOLEAN, has_last : BOOLEAN,
                    turns : 0 .. WdMod - 1, calls : WdCallCounts]
        /\ wd'.has_last = wd.has_last /\ wd'.turns = wd.turns /\ wd'.calls = wd.calls
    BY <1>0, <1>3 DEF WdEnable, WdTypes
  <2>2. UNCHANGED <<wdSys, wdOpen, wdSince, wdTick>> BY <1>3 DEF WdEnable
  <2>3. WdTypes' /\ FedMeansAlive' BY <1>0, <2>1, <2>2 DEF WdTypes, FedMeansAlive
  <2>4. WdTurns(p)' BY <1>1, <2>1, <2>2 DEF WdTurns
  <2>5. WdCalls(c)' BY <1>2, <2>1, <2>2 DEF WdCalls
  <2> QED BY <2>3, <2>4, <2>5 DEF WdInv
<1>4. CASE WdPost \/ WdArm
  <2>1. /\ wdSys' \in [turns : 0 .. WdMod - 1, healthy : BOOLEAN, arming : BOOLEAN,
                       calls : WdCallCounts, pending : SUBSET WdDomains,
                       failing : SUBSET WdDomains]
        /\ wdSys'.turns = wdSys.turns /\ wdSys'.calls = wdSys.calls
    <3>1. CASE WdPost BY <1>0, <3>1 DEF WdPost, WdTypes
    <3>2. CASE WdArm
      <4>1. (~wdSys.arming) \in BOOLEAN OBVIOUS
      <4> QED BY <1>0, <3>2, <4>1 DEF WdArm, WdTypes
    <3> QED BY <1>4, <3>1, <3>2
  <2>2. UNCHANGED <<wd, wdOpen, wdSince, wdTick>> BY <1>4 DEF WdPost, WdArm
  <2>3. WdTypes' /\ FedMeansAlive' BY <1>0, <2>1, <2>2 DEF WdTypes, FedMeansAlive
  <2>4. WdTurns(p)' BY <1>1, <2>1, <2>2 DEF WdTurns
  <2>5. WdCalls(c)' BY <1>2, <2>1, <2>2 DEF WdCalls
  <2> QED BY <2>3, <2>4, <2>5 DEF WdInv
<1>5. CASE UNCHANGED wdVars
  <2>1. WdTypes' /\ FedMeansAlive' BY <1>0, <1>5 DEF WdTypes, FedMeansAlive, wdVars
  <2>2. WdTurns(p)' BY <1>1, <1>5 DEF WdTurns, wdVars
  <2>3. WdCalls(c)' BY <1>2, <1>5 DEF WdCalls, wdVars
  <2> QED BY <2>1, <2>2, <2>3 DEF WdInv
<1> QED BY <1>3, <1>4, <1>5

\* The watchdog's invariant, in every state.
THEOREM WdInvHolds == WdInit /\ [][WdNext]_wdVars => []WdInv
<1>1. WdInv /\ [WdNext]_wdVars => WdInv'
  BY WdTickInv, WdPumpInv, WdCallEndsInv, WdOthersInv DEF WdNext, WdStopped
<1> QED BY <1>1, WdInitInv, PTL

\* ev_watchdog_actor_handle feeds only a board that is alive, and one that is
\* alive at two ticks in a row at one of them, for every width of the counters
\* that is larger than what passes between two ticks.
THEOREM WatchdogFedMeansAlive == Spec => []FedMeansAlive
<1>1. Init => WdInit BY DEF Init
<1>2. [Next]_servicesVars => [WdNext]_wdVars BY DEF Next, servicesVars
<1>3. WdInv => FedMeansAlive BY DEF WdInv
<1> QED BY <1>1, <1>2, <1>3, WdInvHolds, PTL DEF Spec

-----------------------------------------------------------------------------
(* The timer service: deadlines. *)

TimerSlots == [active : BOOLEAN, periodic : BOOLEAN, generation : 0 .. GenMod - 1,
               deadline : 0 .. TimeMod - 1, period : Nat]

TimerTokens == [slot : Slots, generation : 1 .. GenMod - 1]

TimerTypes ==
  /\ slots \in [Slots -> TimerSlots]
  /\ counters \in [scheduled : Nat, cancelled : Nat, published : Nat]
  /\ tokens \in Seq(TimerTokens)
  /\ clock \in Nat
  /\ begun \in [Slots -> Nat] /\ fired \in [Slots -> Nat]

\* An occupied slot: its deadline is the true one, seen modulo the width of
\* the clock, and the present lies between the period before it and the
\* longest delay of the poll after it.
Occupied(i) ==
  /\ slots[i].generation # 0
  /\ slots[i].period \in Delays /\ slots[i].period # 0
  /\ slots[i].deadline = Deadline(i) % TimeMod
  /\ Deadline(i) <= clock + slots[i].period
  /\ clock <= Deadline(i) + MaxLate

DeadlinesKept == \A i \in Slots : slots[i].active => Occupied(i)

TimerInv == TimerTypes /\ DeadlinesKept

\* The widths and bounds, one by one.
LEMMA TimerSizes ==
  /\ SlotCount \in Nat /\ SlotCount > 0 /\ GenMod \in Nat /\ GenMod > 2
  /\ TimeMod \in Nat /\ TimeMod > 0 /\ MaxLate \in Nat /\ StartClock \in Nat
  /\ Delays \subseteq Nat
  /\ \A delay \in Delays : delay \in Nat /\ 2 * (delay + MaxLate) < TimeMod
<1>1. {MaxLate, StartClock, MaxClock, MaxTimers} \subseteq Nat BY TimerAssumption
<1>2. MaxLate \in Nat /\ StartClock \in Nat BY <1>1
<1> QED BY <1>2, TimerAssumption

\* A time after a wrapped one.
LEMMA LaterWrapped ==
  \A a, b \in Nat : ((a % TimeMod) + b) % TimeMod = (a + b) % TimeMod
<1>1. TimeMod \in Nat /\ TimeMod > 0 BY TimerSizes
<1> SUFFICES ASSUME NEW a \in Nat, NEW b \in Nat
             PROVE  ((a % TimeMod) + b) % TimeMod = (a + b) % TimeMod
  OBVIOUS
<1>2. a \in Int /\ b \in Int OBVIOUS
<1> QED BY ONLY <1>1, <1>2, ModReduced, Zenon

\* (int32_t)(a - b) >= 0 on wrapped times says which of the true times is the
\* later one, if they are less than half a turn of the clock apart.
LEMMA NotBeforeExact ==
  ASSUME NEW m \in Nat, m > 0, NEW a \in Int, NEW b \in Int,
         2 * (a - b) < m, 2 * (b - a) <= m
  PROVE  2 * (((a % m) - (b % m)) % m) < m <=> b <= a
<1>1. ((a % m) - (b % m)) % m = (a - b) % m
  <2> DEFINE r == a % m
             s == b % m
             d == a \div m
             e == b \div m
  <2>1. r \in Int /\ d \in Int /\ a = d * m + r BY ModTurns
  <2>2. s \in Int /\ e \in Int /\ b = e * m + s BY ModTurns
  <2> HIDE DEF r, s, d, e
  <2>3. (d - e) * m = d * m - e * m BY <2>1, <2>2
  <2>4. a - b = (r - s) + (d - e) * m BY <2>1, <2>2, <2>3
  <2>5. r - s \in Int /\ d - e \in Int BY <2>1, <2>2
  <2>6. ((r - s) + (d - e) * m) % m = (r - s) % m BY <2>5, ModShift
  <2> QED BY <2>4, <2>6 DEF r, s
<1>2. CASE b <= a
  <2>1. a - b \in 0 .. m - 1 BY <1>2
  <2>2. (a - b) % m = a - b BY <2>1
  <2> QED BY <1>1, <1>2, <2>2
<1>3. CASE a < b
  <2>1. a - b + m \in 0 .. m - 1 /\ a - b \in Int BY <1>3
  <2>2. a - b = (-1) * m + (a - b + m) BY <2>1
  <2>3. (a - b) % m = a - b + m BY <2>1, <2>2, ModUnique
  <2> QED BY <1>1, <1>3, <2>3
<1> QED BY <1>2, <1>3

\* Whole periods that have passed.
LEMMA PeriodsPassed ==
  ASSUME NEW x \in Int, NEW p \in Nat, p > 0, NEW f \in Nat
  PROVE  (f + 1) * p <= x <=> f < x \div p
<1> DEFINE q == x \div p
           r == x % p
<1>1. r \in 0 .. p - 1 /\ q \in Int /\ x = q * p + r BY ModTurns
<1> HIDE DEF q, r
<1>2. CASE f < q
  <2>1. q - (f + 1) \in Nat BY <1>1, <1>2
  <2>2. (q - (f + 1)) * p >= 0 BY <2>1
  <2>3. (q - (f + 1)) * p = q * p - (f + 1) * p BY <1>1
  <2>4. (f + 1) * p <= x BY <1>1, <2>2, <2>3
  <2> QED BY <1>2, <2>4 DEF q
<1>3. CASE ~(f < q)
  <2>1. f - q \in Nat BY <1>1, <1>3
  <2>2. (f - q) * p >= 0 BY <2>1
  <2>3. (f - q) * p = f * p - q * p /\ (f + 1) * p = f * p + p BY <1>1
  <2>4. ~((f + 1) * p <= x) BY <1>1, <2>2, <2>3
  <2> QED BY <1>3, <2>4 DEF q
<1> QED BY <1>2, <1>3

\* The same for the width of the clock.
LEMMA NotBeforeWrapped ==
  ASSUME NEW a \in Nat, NEW b \in Nat, 2 * (a - b) < TimeMod, 2 * (b - a) < TimeMod
  PROVE  NotBefore(a % TimeMod, b % TimeMod) <=> b <= a
<1>1. a \in Int /\ b \in Int /\ TimeMod \in Nat /\ TimeMod > 0 /\ 2 * (b - a) <= TimeMod
  BY TimerSizes
<1>2. 2 * (((a % TimeMod) - (b % TimeMod)) % TimeMod) < TimeMod <=> b <= a
  BY <1>1, NotBeforeExact
<1> QED BY <1>2 DEF NotBefore

\* What ev_timer_is_due says of an occupied slot.
LEMMA DueIsPast ==
  ASSUME TimerInv, NEW i \in Slots, slots[i].active
  PROVE  /\ Deadline(i) \in Nat
         /\ i \in Due <=> Deadline(i) <= clock
<1>1. Occupied(i) BY DEF TimerInv, DeadlinesKept
<1>2. /\ begun[i] \in Nat /\ fired[i] \in Nat /\ clock \in Nat
      /\ slots[i].period \in Nat
  BY DEF TimerInv, TimerTypes, TimerSlots
<1>3. Deadline(i) \in Nat BY <1>2 DEF Deadline
<1>4. MaxLate \in Nat BY TimerSizes
<1>5. clock - Deadline(i) <= MaxLate /\ Deadline(i) - clock <= slots[i].period
      /\ slots[i].period \in Delays
  BY <1>1, <1>2, <1>3, <1>4 DEF Occupied
<1>6. PICK b \in Nat : b = Deadline(i) BY <1>3
<1>7. ev_timer_is_due(clock % TimeMod, b % TimeMod) <=> b <= clock
  <2>1. 2 * (slots[i].period + MaxLate) < TimeMod /\ TimeMod \in Nat
    BY <1>5, TimerSizes
  <2>2. 2 * (clock - b) < TimeMod /\ 2 * (b - clock) < TimeMod
    BY <1>2, <1>4, <1>5, <1>6, <2>1
  <2> QED BY <1>2, <2>2, NotBeforeWrapped DEF ev_timer_is_due
<1>8. NowMs = clock % TimeMod /\ slots[i].deadline = b % TimeMod
  BY <1>1, <1>6 DEF NowMs, Occupied
<1>9. i \in Due <=> ev_timer_is_due(NowMs, slots[i].deadline)
  BY DEF Due, Active
<1> QED BY <1>3, <1>6, <1>7, <1>8, <1>9

\* The slot a schedule takes, and the generation it gives it.
LEMMA ScheduleTakes ==
  ASSUME TimerTypes, Active # Slots
  PROVE  /\ Min(Slots \ Active) \in Slots /\ ~slots[Min(Slots \ Active)].active
         /\ \A g \in 0 .. GenMod - 1 : NextGeneration(g) \in 1 .. GenMod - 1
<1>1. Active \subseteq Slots BY DEF Active
<1>2. Slots \subseteq Nat BY TimerSizes DEF Slots
<1>3. Slots \ Active \in SUBSET Nat /\ Slots \ Active # {} BY <1>1, <1>2
<1>4. Min(Slots \ Active) \in Slots \ Active BY <1>3, MinIsLeast
<1>5. \A g \in 0 .. GenMod - 1 : NextGeneration(g) \in 1 .. GenMod - 1
  <2> SUFFICES ASSUME NEW g \in 0 .. GenMod - 1
               PROVE  NextGeneration(g) \in 1 .. GenMod - 1
    OBVIOUS
  <2>1. (g + 1) % GenMod \in 0 .. GenMod - 1 BY TimerSizes
  <2> QED BY <2>1, TimerSizes DEF NextGeneration
<1> QED BY <1>4, <1>5 DEF Active

\* No slot is occupied.
LEMMA TimerInitInv == TimerInit => TimerInv
<1> SUFFICES ASSUME TimerInit PROVE TimerInv
  OBVIOUS
<1>1. slots \in [Slots -> TimerSlots]
  <2>1. 0 \in 0 .. GenMod - 1 /\ 0 \in 0 .. TimeMod - 1 BY TimerSizes
  <2> QED BY <2>1 DEF TimerInit, TimerSlots
<1>2. tokens \in Seq(TimerTokens) BY EmptySeq DEF TimerInit
<1>3. TimerTypes BY <1>1, <1>2, TimerSizes DEF TimerInit, TimerTypes
<1>4. DeadlinesKept BY DEF TimerInit, DeadlinesKept
<1> QED BY <1>3, <1>4 DEF TimerInv

\* ev_timer_schedule.
LEMMA TimerScheduleInv ==
  ASSUME TimerInv, NEW delay \in Delays, NEW periodic \in BOOLEAN,
         Schedule(delay, periodic)
  PROVE  TimerInv'
<1> DEFINE i == Min(Slots \ Active)
           g == NextGeneration(slots[i].generation)
           d == (NowMs + delay) % TimeMod
<1>0. TimerTypes /\ DeadlinesKept BY DEF TimerInv
<1>1. /\ i \in Slots /\ ~slots[i].active
      /\ \A h \in 0 .. GenMod - 1 : NextGeneration(h) \in 1 .. GenMod - 1
  BY <1>0, ScheduleTakes DEF Schedule
<1>2. slots[i].generation \in 0 .. GenMod - 1 BY <1>0, <1>1 DEF TimerTypes, TimerSlots
<1>3. g \in 1 .. GenMod - 1 BY <1>1, <1>2
<1>4. /\ slots' = [slots EXCEPT ![i] =
            [active |-> TRUE, periodic |-> periodic, generation |-> g,
             deadline |-> d, period |-> delay]]
      /\ tokens' = Append(tokens, [slot |-> i, generation |-> g])
      /\ begun' = [begun EXCEPT ![i] = clock] /\ fired' = [fired EXCEPT ![i] = 0]
      /\ counters' = [counters EXCEPT !.scheduled = @ + 1]
      /\ clock' = clock /\ delay # 0
  BY DEF Schedule
<1>5. /\ clock \in Nat /\ delay \in Nat /\ TimeMod \in Nat /\ TimeMod > 0
      /\ MaxLate \in Nat
  BY <1>0, TimerSizes DEF TimerTypes
<1>6. d = (clock + delay) % TimeMod
  BY <1>5, LaterWrapped DEF NowMs
<1>7. d \in 0 .. TimeMod - 1 BY <1>5, <1>6
<1> HIDE DEF i, g, d
<1>8. slots' \in [Slots -> TimerSlots]
  <2>1. g \in 0 .. GenMod - 1 BY <1>3
  <2>2. [active |-> TRUE, periodic |-> periodic, generation |-> g,
         deadline |-> d, period |-> delay] \in TimerSlots
    BY <1>5, <1>7, <2>1 DEF TimerSlots
  <2> QED BY <1>0, <1>1, <1>4, <2>2 DEF TimerTypes
<1>9. tokens' \in Seq(TimerTokens)
  <2>1. [slot |-> i, generation |-> g] \in TimerTokens BY <1>1, <1>3 DEF TimerTokens
  <2> QED BY <1>0, <1>4, <2>1, AppendProperties DEF TimerTypes
<1>10. counters' \in [scheduled : Nat, cancelled : Nat, published : Nat]
  <2>1. counters.scheduled + 1 \in Nat BY <1>0 DEF TimerTypes
  <2> QED BY <1>0, <1>4, <2>1 DEF TimerTypes
<1>11. begun' \in [Slots -> Nat] /\ fired' \in [Slots -> Nat]
  BY <1>0, <1>1, <1>4, <1>5 DEF TimerTypes
<1>12. TimerTypes' BY <1>4, <1>5, <1>8, <1>9, <1>10, <1>11 DEF TimerTypes
<1>13. ASSUME NEW j \in Slots, slots'[j].active PROVE Occupied(j)'
  <2>1. CASE j = i
    <3>1. /\ slots'[j] = [active |-> TRUE, periodic |-> periodic, generation |-> g,
                          deadline |-> d, period |-> delay]
          /\ begun'[j] = clock /\ fired'[j] = 0
      BY <1>0, <1>1, <1>4, <2>1 DEF TimerTypes
    <3>2. Deadline(j)' = clock + delay BY <1>5, <3>1 DEF Deadline
    <3>3. Deadline(j)' <= clock' + slots'[j].period /\ clock' <= Deadline(j)' + MaxLate
      BY <1>4, <1>5, <3>1, <3>2
    <3>4. slots'[j].generation # 0 BY <1>3, <3>1
    <3> QED BY <1>4, <1>6, <3>1, <3>2, <3>3, <3>4 DEF Occupied
  <2>2. CASE j # i
    <3>1. slots'[j] = slots[j] /\ begun'[j] = begun[j] /\ fired'[j] = fired[j]
      BY <1>0, <1>1, <1>4, <2>2 DEF TimerTypes
    <3>2. Deadline(j)' = Deadline(j) BY <3>1 DEF Deadline
    <3>3. Occupied(j) BY <1>0, <1>13, <3>1 DEF DeadlinesKept
    <3> QED BY <1>4, <3>1, <3>2, <3>3 DEF Occupied
  <2> QED BY <2>1, <2>2
<1> QED BY <1>12, <1>13 DEF TimerInv, DeadlinesKept

\* ev_timer_cancel.
LEMMA TimerCancelInv ==
  ASSUME TimerInv, NEW t \in DOMAIN tokens, Cancel(t)
  PROVE  TimerInv'
<1>0. TimerTypes /\ DeadlinesKept BY DEF TimerInv
<1>1. tokens[t].slot \in Slots
  <2>1. tokens[t] \in TimerTokens BY <1>0, ElementOfSeq DEF TimerTypes
  <2> QED BY <2>1 DEF TimerTokens
<1>2. /\ slots' = [slots EXCEPT ![tokens[t].slot].active = FALSE]
      /\ counters' = [counters EXCEPT !.cancelled = @ + 1]
      /\ UNCHANGED <<tokens, clock, begun, fired>>
  BY DEF Cancel
<1>3. slots' \in [Slots -> TimerSlots] BY <1>0, <1>1, <1>2 DEF TimerTypes, TimerSlots
<1>4. counters' \in [scheduled : Nat, cancelled : Nat, published : Nat]
  <2>1. counters.cancelled + 1 \in Nat BY <1>0 DEF TimerTypes
  <2> QED BY <1>0, <1>2, <2>1 DEF TimerTypes
<1>5. TimerTypes' BY <1>0, <1>2, <1>3, <1>4 DEF TimerTypes
<1>6. ASSUME NEW j \in Slots, slots'[j].active PROVE Occupied(j)'
  <2>1. j # tokens[t].slot BY <1>0, <1>1, <1>2, <1>6 DEF TimerTypes, TimerSlots
  <2>2. slots'[j] = slots[j] BY <1>0, <1>1, <1>2, <2>1 DEF TimerTypes
  <2>3. Occupied(j) BY <1>0, <1>6, <2>2 DEF DeadlinesKept
  <2>4. Deadline(j)' = Deadline(j) BY <1>2, <2>2 DEF Deadline
  <2> QED BY <1>2, <2>2, <2>3, <2>4 DEF Occupied
<1> QED BY <1>5, <1>6 DEF TimerInv, DeadlinesKept

\* What serving a due slot does to its deadline.
LEMMA ServedKeepsDeadline ==
  ASSUME TimerInv, NEW j \in Slots, j \in Due
  PROVE  /\ Served(slots[j]) \in TimerSlots
         /\ Served(slots[j]).generation = slots[j].generation
         /\ Served(slots[j]).period = slots[j].period
         /\ Served(slots[j]).active =>
              LET next == begun[j] + (fired[j] + 1 + 1) * slots[j].period
              IN  /\ Served(slots[j]).deadline = next % TimeMod
                  /\ next <= clock + slots[j].period /\ clock <= next + MaxLate
<1>0. TimerTypes /\ DeadlinesKept BY DEF TimerInv
<1>1. slots[j] \in TimerSlots /\ slots[j].active
  BY <1>0 DEF TimerTypes, Due, Active
<1>2. Occupied(j) BY <1>0, <1>1 DEF DeadlinesKept
<1>3. Deadline(j) \in Nat /\ Deadline(j) <= clock BY <1>1, DueIsPast
<1>4. /\ slots[j].period \in Nat /\ clock \in Nat /\ MaxLate \in Nat
      /\ begun[j] \in Nat /\ fired[j] \in Nat
  BY <1>0, <1>1, TimerSizes DEF TimerTypes, TimerSlots
<1> DEFINE e == (slots[j].deadline + slots[j].period) % TimeMod
           next == begun[j] + (fired[j] + 1 + 1) * slots[j].period
<1>5. next = Deadline(j) + slots[j].period
  <2>1. \A a, b \in Nat : (a + 1) * b = a * b + b OBVIOUS
  <2>2. (fired[j] + 1 + 1) * slots[j].period
          = (fired[j] + 1) * slots[j].period + slots[j].period
    BY <1>4, <2>1
  <2>3. (fired[j] + 1) * slots[j].period \in Nat BY <1>4
  <2> QED BY <1>4, <2>2, <2>3 DEF Deadline
<1>6. e = next % TimeMod
  <2>1. slots[j].deadline = Deadline(j) % TimeMod BY <1>2 DEF Occupied
  <2> HIDE DEF next
  <2> QED BY <1>3, <1>4, <1>5, <2>1, LaterWrapped
<1>7. e \in 0 .. TimeMod - 1
  <2>1. slots[j].deadline + slots[j].period \in Int BY <1>1 DEF TimerSlots
  <2> QED BY <2>1, TimerSizes
<1>8. next <= clock + slots[j].period /\ clock <= next + MaxLate
  <2>1. clock <= Deadline(j) + MaxLate BY <1>2 DEF Occupied
  <2> HIDE DEF next
  <2> QED BY <1>3, <1>4, <1>5, <2>1
<1> HIDE DEF e, next
<1>9. CASE slots[j].periodic
  <2>1. Served(slots[j]) = [slots[j] EXCEPT !.deadline = e] BY <1>9 DEF Served, e
  <2> QED BY <1>1, <1>6, <1>7, <1>8, <2>1 DEF TimerSlots, next
<1>10. CASE ~slots[j].periodic
  <2>1. Served(slots[j]) = [slots[j] EXCEPT !.active = FALSE] BY <1>10 DEF Served
  <2> QED BY <1>1, <2>1 DEF TimerSlots
<1> QED BY <1>9, <1>10

\* ev_timer_publish_due.
LEMMA TimerPublishInv ==
  ASSUME TimerInv, NEW max \in Nat, NEW ok \in SUBSET Due, PublishDue(max, ok)
  PROVE  TimerInv'
<1> DEFINE visited == Visited(ok, max)
<1>0. TimerTypes /\ DeadlinesKept BY DEF TimerInv
<1>1. visited \subseteq Due /\ Due \subseteq Slots BY DEF Visited, Due, Active
<1>2. /\ slots' = [i \in Slots |-> IF i \in visited THEN Served(slots[i]) ELSE slots[i]]
      /\ fired' = [i \in Slots |-> IF i \in visited THEN fired[i] + 1 ELSE fired[i]]
      /\ counters' = [counters EXCEPT !.published = @ + Cardinality(visited \cap ok)]
      /\ UNCHANGED <<tokens, clock, begun>>
  BY DEF PublishDue
<1> HIDE DEF visited
<1>3. slots' \in [Slots -> TimerSlots]
  <2>1. \A i \in Slots : i \in visited => Served(slots[i]) \in TimerSlots
    BY <1>1, ServedKeepsDeadline
  <2>2. \A i \in Slots : slots[i] \in TimerSlots BY <1>0 DEF TimerTypes
  <2> QED BY <1>2, <2>1, <2>2
<1>4. fired' \in [Slots -> Nat] BY <1>0, <1>2 DEF TimerTypes
<1>5. counters' \in [scheduled : Nat, cancelled : Nat, published : Nat]
  <2>1. IsFiniteSet(Slots) BY FS_Interval, TimerSizes DEF Slots
  <2>2. Cardinality(visited \cap ok) \in Nat
    BY <1>1, <2>1, FS_Subset, FS_CardinalityType
  <2>3. counters.published + Cardinality(visited \cap ok) \in Nat
    BY <1>0, <2>2 DEF TimerTypes
  <2> QED BY <1>0, <1>2, <2>3 DEF TimerTypes
<1>6. TimerTypes' BY <1>0, <1>2, <1>3, <1>4, <1>5 DEF TimerTypes
<1>7. ASSUME NEW j \in Slots, slots'[j].active PROVE Occupied(j)'
  <2>1. CASE j \in visited
    <3>1. slots'[j] = Served(slots[j]) /\ fired'[j] = fired[j] + 1 BY <1>2, <2>1
    <3>2. slots[j].active /\ j \in Due BY <1>1, <2>1 DEF Due, Active
    <3>3. Occupied(j) BY <1>0, <3>2 DEF DeadlinesKept
    <3>4. /\ slots'[j].generation = slots[j].generation
          /\ slots'[j].period = slots[j].period
      BY <3>1, <3>2, ServedKeepsDeadline
    <3>5. /\ slots'[j].deadline
               = (begun[j] + (fired[j] + 1 + 1) * slots[j].period) % TimeMod
          /\ begun[j] + (fired[j] + 1 + 1) * slots[j].period <= clock + slots[j].period
          /\ clock <= begun[j] + (fired[j] + 1 + 1) * slots[j].period + MaxLate
      BY <1>7, <3>1, <3>2, ServedKeepsDeadline
    <3>6. Deadline(j)' = begun[j] + (fired[j] + 1 + 1) * slots[j].period
      BY <1>2, <3>1, <3>4 DEF Deadline
    <3> QED BY <1>2, <3>3, <3>4, <3>5, <3>6 DEF Occupied
  <2>2. CASE j \notin visited
    <3>1. slots'[j] = slots[j] /\ fired'[j] = fired[j] BY <1>2, <2>2
    <3>2. Occupied(j) BY <1>0, <1>7, <3>1 DEF DeadlinesKept
    <3>3. Deadline(j)' = Deadline(j) BY <1>2, <3>1 DEF Deadline
    <3> QED BY <1>2, <3>1, <3>2, <3>3 DEF Occupied
  <2> QED BY <2>1, <2>2
<1> QED BY <1>6, <1>7 DEF TimerInv, DeadlinesKept

\* Time passes.
LEMMA TimerTickInv == TimerInv /\ TimerTick => TimerInv'
<1> SUFFICES ASSUME TimerInv, TimerTick PROVE TimerInv'
  OBVIOUS
<1>0. TimerTypes /\ DeadlinesKept BY DEF TimerInv
<1>1. clock' = clock + 1 /\ UNCHANGED <<slots, counters, tokens, begun, fired>>
  BY DEF TimerTick
<1>2. TimerTypes' BY <1>0, <1>1 DEF TimerTypes
<1>3. ASSUME NEW j \in Slots, slots'[j].active PROVE Occupied(j)'
  <2>1. slots[j].active /\ Occupied(j) BY <1>0, <1>1, <1>3 DEF DeadlinesKept
  <2>2. clock + 1 <= Deadline(j) + MaxLate BY <2>1 DEF TimerTick, Active
  <2>3. Deadline(j)' = Deadline(j) BY <1>1 DEF Deadline
  <2>4. Deadline(j) \in Nat BY <2>1, DueIsPast
  <2>5. slots[j].period \in Nat /\ clock \in Nat BY <1>0 DEF TimerTypes, TimerSlots
  <2>6. Deadline(j) <= clock + slots[j].period BY <2>1 DEF Occupied
  <2>7. Deadline(j) <= clock + 1 + slots[j].period BY <2>4, <2>5, <2>6
  <2> QED BY <1>1, <2>1, <2>2, <2>3, <2>7 DEF Occupied
<1> QED BY <1>2, <1>3 DEF TimerInv, DeadlinesKept

\* The timer service's invariant, in every state.
THEOREM TimerInvHolds == TimerInit /\ [][TimerNext]_timerVars => []TimerInv
<1>1. TimerInv /\ [TimerNext]_timerVars => TimerInv'
  <2> SUFFICES ASSUME TimerInv, [TimerNext]_timerVars PROVE TimerInv'
    OBVIOUS
  <2>1. CASE \E delay \in Delays, periodic \in BOOLEAN : Schedule(delay, periodic)
    BY <2>1, TimerScheduleInv
  <2>2. CASE \E t \in DOMAIN tokens : Cancel(t) BY <2>2, TimerCancelInv
  <2>3. CASE \E max \in 0 .. SlotCount, ok \in SUBSET Due : PublishDue(max, ok)
    <3>1. 0 .. SlotCount \subseteq Nat BY TimerSizes
    <3> QED BY <2>3, <3>1, TimerPublishInv
  <2>4. CASE TimerTick BY <2>4, TimerTickInv
  <2>5. CASE UNCHANGED timerVars
    <3>1. TimerTypes' BY <2>5 DEF TimerInv, TimerTypes, timerVars
    <3>2. DeadlinesKept'
      BY <2>5 DEF TimerInv, DeadlinesKept, Occupied, Deadline, timerVars
    <3> QED BY <3>1, <3>2 DEF TimerInv
  <2> QED BY <2>1, <2>2, <2>3, <2>4, <2>5 DEF TimerNext
<1> QED BY <1>1, TimerInitInv, PTL

\* The services take no step of the timer service that is not its own.
LEMMA ServicesRunTimer == Spec => TimerInit /\ [][TimerNext]_timerVars
<1>1. Init => TimerInit BY DEF Init
<1>2. [Next]_servicesVars => [TimerNext]_timerVars BY DEF Next, servicesVars
<1> QED BY <1>1, <1>2, PTL DEF Spec

\* The slots, tokens and counters of the timer service keep their types, and
\* no occupied slot has the generation of a zeroed token.
THEOREM TimerTypeCorrect == Spec => []TimerTypeOK
<1>1. TimerInv => TimerTypeOK
  <2> SUFFICES ASSUME TimerInv PROVE TimerTypeOK
    OBVIOUS
  <2>1. TimerTypes BY DEF TimerInv
  <2>2. \A i \in Active : slots[i].generation # 0 /\ slots[i].period # 0
    BY DEF TimerInv, DeadlinesKept, Occupied, Active
  <2> QED BY <2>1, <2>2 DEF TimerTypeOK, TimerTypes, TimerSlots, TimerTokens
<1> QED BY <1>1, ServicesRunTimer, TimerInvHolds, PTL

\* ev_timer_is_due and the deadlines ev_timer_publish_due sets: a slot is due
\* exactly when more periods have passed since ev_timer_schedule than were
\* served, for every width of the clock, every set of periods and every
\* lateness of the poll that stay below half a turn of the clock together.
THEOREM TimerDueIsExact == Spec => []DueIsExact
<1>1. TimerInv => DueIsExact
  <2> SUFFICES ASSUME TimerInv, NEW i \in Active
               PROVE  i \in Due <=> fired[i] < (clock - begun[i]) \div slots[i].period
    BY DEF DueIsExact
  <2>1. i \in Slots /\ slots[i].active BY DEF Active
  <2>2. Occupied(i) BY <2>1 DEF TimerInv, DeadlinesKept
  <2>3. /\ begun[i] \in Nat /\ fired[i] \in Nat /\ clock \in Nat
        /\ slots[i].period \in Nat /\ slots[i].period > 0
    BY <2>1, <2>2 DEF TimerInv, TimerTypes, TimerSlots, Occupied
  <2>4. i \in Due <=> Deadline(i) <= clock BY <2>1, DueIsPast
  <2>5. (fired[i] + 1) * slots[i].period \in Nat BY <2>3
  <2>6. Deadline(i) <= clock <=> (fired[i] + 1) * slots[i].period <= clock - begun[i]
    BY <2>3, <2>5 DEF Deadline
  <2>7. PICK x \in Int : x = clock - begun[i] BY <2>3
  <2>8. (fired[i] + 1) * slots[i].period <= x <=> fired[i] < x \div slots[i].period
    BY <2>3, PeriodsPassed
  <2> QED BY <2>4, <2>6, <2>7, <2>8
<1> QED BY <1>1, ServicesRunTimer, TimerInvHolds, PTL

-----------------------------------------------------------------------------
(* The timer service: tokens. *)

\* The tokens handed out for the same slot after token t.
Later(t) == {u \in DOMAIN tokens : u > t /\ tokens[u].slot = tokens[t].slot}

\* A slot's generation is that of any token handed out for it, counted up once
\* for every token handed out later.  GenMod - 1 values are used: 0 is left out.
GenerationsCount ==
  \A t \in DOMAIN tokens :
    slots[tokens[t].slot].generation
      = 1 + (((tokens[t].generation - 1) + Cardinality(Later(t))) % (GenMod - 1))

TokenInv == TimerInv /\ GenerationsCount

\* The generation after a counted one.
LEMMA NextCounted ==
  ASSUME NEW x \in Nat
  PROVE  NextGeneration(1 + (x % (GenMod - 1))) = 1 + ((x + 1) % (GenMod - 1))
<1> DEFINE m == GenMod - 1
           r == x % m
<1>1. m \in Nat /\ m > 1 /\ GenMod = m + 1 BY TimerSizes
<1>2. m > 0 /\ x \in Int /\ 1 \in Int BY <1>1
<1> HIDE DEF m
<1>3. r \in 0 .. m - 1 BY <1>1
<1>4. (r + 1) % m = (x + 1) % m BY ONLY <1>1, <1>2, ModReduced, Zenon DEF r
<1>5. 1 \in 0 .. m - 1 BY <1>1
<1> HIDE DEF r
<1>6. (r + 1) % m = IF r + 1 < m THEN r + 1 ELSE r + 1 - m
  BY <1>1, <1>3, <1>5, ModSum
<1>7. r + 1 + 1 \in 0 .. m + 1 BY <1>1, <1>3
<1>8. (r + 1 + 1) % (m + 1) = IF r + 1 + 1 < m + 1 THEN r + 1 + 1 ELSE 0
  BY <1>1, <1>7
<1>9. NextGeneration(1 + r) = 1 + ((r + 1) % m)
  BY <1>1, <1>3, <1>6, <1>8 DEF NextGeneration
<1> QED BY <1>4, <1>9 DEF r, m

\* A token and the tokens after it are finitely many.
LEMMA LaterIsFinite ==
  ASSUME TimerTypes, NEW t \in DOMAIN tokens
  PROVE  IsFiniteSet(Later(t)) /\ Cardinality(Later(t)) \in Nat /\ tokens[t] \in TimerTokens
<1>1. DOMAIN tokens = 1 .. Len(tokens) /\ Len(tokens) \in Nat
  BY LenProperties DEF TimerTypes
<1>2. IsFiniteSet(DOMAIN tokens) BY <1>1, FS_Interval
<1>3. Later(t) \subseteq DOMAIN tokens BY DEF Later
<1>4. IsFiniteSet(Later(t)) BY <1>2, <1>3, FS_Subset
<1>5. tokens[t] \in TimerTokens BY ElementOfSeq, <1>1 DEF TimerTypes
<1> QED BY <1>4, <1>5, FS_CardinalityType

\* ev_timer_schedule counts the slot's generation up and hands out a token.
LEMMA ScheduleCounts ==
  ASSUME TokenInv, NEW delay \in Delays, NEW periodic \in BOOLEAN,
         Schedule(delay, periodic)
  PROVE  GenerationsCount'
<1> DEFINE i == Min(Slots \ Active)
           g == NextGeneration(slots[i].generation)
           n == Len(tokens)
<1>0. TimerTypes /\ GenerationsCount BY DEF TokenInv, TimerInv
<1>1. /\ i \in Slots
      /\ \A h \in 0 .. GenMod - 1 : NextGeneration(h) \in 1 .. GenMod - 1
  BY <1>0, ScheduleTakes DEF Schedule
<1>2. g \in 1 .. GenMod - 1 BY <1>0, <1>1 DEF TimerTypes, TimerSlots
<1>3. /\ slots'[i].generation = g
      /\ \A j \in Slots : j # i => slots'[j] = slots[j]
      /\ tokens' = Append(tokens, [slot |-> i, generation |-> g])
  BY <1>0, <1>1 DEF Schedule, TimerTypes
<1> HIDE DEF i, g
<1>4. n \in Nat /\ DOMAIN tokens = 1 .. n
  BY <1>0, LenProperties DEF TimerTypes
<1>5. /\ DOMAIN tokens' = 1 .. n + 1
      /\ \A t \in 1 .. n : tokens'[t] = tokens[t]
      /\ tokens'[n + 1] = [slot |-> i, generation |-> g]
  <2>1. [slot |-> i, generation |-> g] \in TimerTokens BY <1>1, <1>2 DEF TimerTokens
  <2> QED BY <1>0, <1>3, <1>4, <2>1, AppendProperties DEF TimerTypes
<1> HIDE DEF n
<1> SUFFICES ASSUME NEW t \in 1 .. n + 1
             PROVE  slots'[tokens'[t].slot].generation
                      = 1 + (((tokens'[t].generation - 1) + Cardinality(Later(t)'))
                               % (GenMod - 1))
  <2>1. DOMAIN tokens' = 1 .. n + 1 BY <1>5
  <2> QED BY <2>1 DEF GenerationsCount, Later
<1>6. CASE t = n + 1
  <2>1. Later(t)' = {} BY <1>4, <1>5, <1>6 DEF Later
  <2>2. Cardinality(Later(t)') = 0 BY <2>1, FS_EmptySet
  <2>3. tokens'[t].slot = i /\ tokens'[t].generation = g BY <1>5, <1>6
  <2>4. g = 1 + (((g - 1) + 0) % (GenMod - 1)) BY <1>2, TimerSizes
  <2> QED BY <1>3, <2>2, <2>3, <2>4
<1>7. CASE t \in 1 .. n
  <2>1. /\ tokens'[t] = tokens[t] /\ tokens[t] \in TimerTokens
        /\ IsFiniteSet(Later(t)) /\ Cardinality(Later(t)) \in Nat
    BY <1>0, <1>4, <1>5, <1>7, LaterIsFinite
  <2>2. slots[tokens[t].slot].generation
          = 1 + (((tokens[t].generation - 1) + Cardinality(Later(t))) % (GenMod - 1))
    BY <1>0, <1>4, <1>7 DEF GenerationsCount
  <2>3. CASE tokens[t].slot = i
    <3>1. Later(t)' = Later(t) \cup {n + 1}
      BY <1>4, <1>5, <1>7, <2>1, <2>3 DEF Later
    <3>2. n + 1 \notin Later(t) BY <1>4 DEF Later
    <3>3. Cardinality(Later(t)') = Cardinality(Later(t)) + 1
      BY <2>1, <3>1, <3>2, FS_AddElement
    <3>4. (tokens[t].generation - 1) + Cardinality(Later(t)) \in Nat
          /\ tokens[t].generation \in Int
      BY <2>1 DEF TimerTokens
    <3>5. PICK x \in Nat : x = (tokens[t].generation - 1) + Cardinality(Later(t))
      BY <3>4
    <3>6. g = 1 + ((x + 1) % (GenMod - 1))
      BY <2>2, <2>3, <3>5, NextCounted DEF g
    <3>7. x + 1 = (tokens[t].generation - 1) + Cardinality(Later(t)')
      BY <2>1, <3>3, <3>4, <3>5
    <3> QED BY <1>3, <2>1, <2>3, <3>6, <3>7
  <2>4. CASE tokens[t].slot # i
    <3>1. Later(t)' = Later(t) BY <1>4, <1>5, <1>7, <2>1, <2>4 DEF Later
    <3>2. slots'[tokens[t].slot] = slots[tokens[t].slot]
      BY <1>3, <2>1, <2>4 DEF TimerTokens
    <3> QED BY <2>1, <2>2, <3>1, <3>2
  <2> QED BY <2>3, <2>4
<1> QED BY <1>4, <1>6, <1>7

\* Nothing else changes a generation.
LEMMA OthersCount ==
  ASSUME TokenInv, tokens' = tokens,
         \A j \in Slots : slots'[j].generation = slots[j].generation
  PROVE  GenerationsCount'
<1>1. \A t \in DOMAIN tokens : tokens[t].slot \in Slots
  BY LaterIsFinite DEF TokenInv, TimerInv, TimerTokens
<1>2. \A t : Later(t)' = Later(t) BY DEF Later
<1> QED BY <1>1, <1>2 DEF TokenInv, GenerationsCount

\* The generations of slots and tokens, in every state.
THEOREM TokenInvHolds == TimerInit /\ [][TimerNext]_timerVars => []TokenInv
<1>1. TimerInit => GenerationsCount BY DEF TimerInit, GenerationsCount
<1>2. TokenInv /\ TimerInv' /\ [TimerNext]_timerVars => GenerationsCount'
  <2> SUFFICES ASSUME TokenInv, [TimerNext]_timerVars PROVE GenerationsCount'
    OBVIOUS
  <2>0. TimerInv /\ TimerTypes BY DEF TokenInv, TimerInv
  <2>1. CASE \E delay \in Delays, periodic \in BOOLEAN : Schedule(delay, periodic)
    BY <2>1, ScheduleCounts
  <2>2. CASE \E t \in DOMAIN tokens : Cancel(t)
    <3>1. PICK t \in DOMAIN tokens : Cancel(t) BY <2>2
    <3>2. /\ slots' = [slots EXCEPT ![tokens[t].slot].active = FALSE]
          /\ tokens' = tokens
      BY <3>1 DEF Cancel
    <3>3. \A j \in Slots : slots'[j].generation = slots[j].generation
      BY <2>0, <3>2 DEF TimerTypes, TimerSlots
    <3> QED BY <3>2, <3>3, OthersCount
  <2>3. CASE \E max \in 0 .. SlotCount, ok \in SUBSET Due : PublishDue(max, ok)
    <3>1. PICK max \in 0 .. SlotCount, ok \in SUBSET Due : PublishDue(max, ok) BY <2>3
    <3>2. tokens' = tokens BY <3>1 DEF PublishDue
    <3>3. ASSUME NEW j \in Slots PROVE slots'[j].generation = slots[j].generation
      <4>1. slots'[j] = slots[j] \/ (j \in Due /\ slots'[j] = Served(slots[j]))
        BY <3>1 DEF PublishDue, Visited
      <4> QED BY <2>0, <4>1, ServedKeepsDeadline
    <3> QED BY <3>2, <3>3, OthersCount
  <2>4. CASE TimerTick \/ UNCHANGED timerVars
    <3>1. tokens' = tokens /\ slots' = slots BY <2>4 DEF TimerTick, timerVars
    <3> QED BY <3>1, OthersCount
  <2> QED BY <2>1, <2>2, <2>3, <2>4 DEF TimerNext
<1> QED BY <1>1, <1>2, TimerInvHolds, PTL DEF TokenInv

\* ev_timer_token_valid: a token that is still valid is the last one handed
\* out for its slot, or at least a whole turn of the generation old, for every
\* width of the generation.
THEOREM TokenCancelsItsOwn == Spec => []CancelHitsOwn
<1>1. TokenInv => CancelHitsOwn
  <2> SUFFICES ASSUME TokenInv, NEW t \in DOMAIN tokens, ev_timer_token_valid(tokens[t])
               PROVE  Later(t) = {} \/ Cardinality(Later(t)) >= GenMod - 1
    BY DEF CancelHitsOwn, Later
  <2>1. /\ tokens[t] \in TimerTokens
        /\ IsFiniteSet(Later(t)) /\ Cardinality(Later(t)) \in Nat
    BY LaterIsFinite DEF TokenInv, TimerInv
  <2>2. PICK m \in Nat, g \in Nat, n \in Nat :
          m = GenMod - 1 /\ g = tokens[t].generation - 1 /\ n = Cardinality(Later(t))
    BY <2>1, TimerSizes DEF TimerTokens
  <2>3. tokens[t].generation = 1 + ((g + n) % m)
    BY <2>2 DEF TokenInv, GenerationsCount, ev_timer_token_valid
  <2>4. g \in 0 .. m - 1 /\ m > 0 BY <2>1, <2>2, TimerSizes DEF TimerTokens
  <2>5. (g + n) % m \in 0 .. m - 1 BY <2>4
  <2>6. (g + n) % m = g BY <2>1, <2>2, <2>3, <2>5 DEF TimerTokens
  <2>7. n = 0 \/ n >= m
    <3> SUFFICES ASSUME n < m PROVE n = 0
      BY <2>4
    <3>1. n \in 0 .. m - 1 BY <2>4
    <3>2. (g + n) % m = IF g + n < m THEN g + n ELSE g + n - m
      BY <2>4, <3>1, ModSum
    <3> QED BY <2>4, <2>6, <3>1, <3>2
  <2>8. n = 0 => Later(t) = {} BY <2>1, <2>2, FS_EmptySet
  <2> QED BY <2>2, <2>7, <2>8
<1> QED BY <1>1, ServicesRunTimer, TokenInvHolds, PTL

-----------------------------------------------------------------------------
(* The timer service: the next deadline. *)

\* What the loop of ev_timer_next_deadline_ms makes of slot i and the best so far.
Better(prev, i) ==
  IF /\ slots[i].active
     /\ prev.found => ~NotBefore(slots[i].deadline, prev.at)
  THEN [found |-> TRUE, at |-> slots[i].deadline]
  ELSE prev

NoDeadline == [found |-> FALSE, at |-> 0]

\* f is the loop's result after each of the first n slots.
LoopOver(f, n) ==
  f = [i \in 0 .. n |-> IF i = 0 THEN NoDeadline ELSE Better(f[i - 1], i - 1)]

\* The loop can be run over any number of slots.
LEMMA LoopRuns == \A n \in Nat : \E f : LoopOver(f, n)
<1> DEFINE S == {n \in Nat : \E f : LoopOver(f, n)}
<1>1. 0 \in S
  <2>1. LoopOver([i \in 0 .. 0 |-> NoDeadline], 0) BY DEF LoopOver
  <2> QED BY <2>1
<1>2. ASSUME NEW n \in S PROVE n + 1 \in S
  <2>1. n \in Nat OBVIOUS
  <2>2. PICK f : LoopOver(f, n) OBVIOUS
  <2> DEFINE h == [i \in 0 .. n + 1 |-> IF i = n + 1 THEN Better(f[n], n) ELSE f[i]]
  <2>4. \A i \in 0 .. n : h[i] = f[i] BY <2>1
  <2>5. ASSUME NEW i \in 0 .. n + 1
        PROVE  h[i] = IF i = 0 THEN NoDeadline ELSE Better(h[i - 1], i - 1)
    <3> HIDE DEF h
    <3>1. CASE i = n + 1
      <4>1. i - 1 = n /\ h[i - 1] = f[n] /\ i # 0 BY <2>1, <2>4, <3>1
      <4>2. h[i] = Better(f[n], n) BY <2>1, <3>1 DEF h
      <4> QED BY <4>1, <4>2
    <3>2. CASE i # n + 1
      <4>1. i \in 0 .. n /\ (i # 0 => i - 1 \in 0 .. n) BY <2>1, <2>5, <3>2
      <4>2. f[i] = IF i = 0 THEN NoDeadline ELSE Better(f[i - 1], i - 1)
        BY <2>2, <4>1 DEF LoopOver
      <4>3. h[i] = f[i] /\ (i # 0 => h[i - 1] = f[i - 1]) BY <2>4, <4>1
      <4> QED BY <4>2, <4>3
    <3> QED BY <3>1, <3>2
  <2>6. h = [i \in 0 .. n + 1 |-> h[i]] OBVIOUS
  <2> HIDE DEF h
  <2>8. LoopOver(h, n + 1) BY <2>5, <2>6 DEF LoopOver
  <2> QED BY <2>1, <2>8
<1>3. S \in SUBSET Nat OBVIOUS
<1> HIDE DEF S
<1>4. Nat \subseteq S BY <1>1, <1>2, <1>3, NaturalsBySteps
<1> QED BY <1>4 DEF S

\* BestDeadline is that loop.
LEMMA BestIsLoop ==
  /\ BestDeadline[0] = NoDeadline
  /\ \A i \in 0 .. SlotCount - 1 : BestDeadline[i + 1] = Better(BestDeadline[i], i)
<1>1. SlotCount \in Nat BY TimerSizes
<1>2. \E f : LoopOver(f, SlotCount) BY <1>1, LoopRuns
<1>3. BestDeadline = CHOOSE f : LoopOver(f, SlotCount)
  BY DEF BestDeadline, LoopOver, Better, NoDeadline
<1>4. LoopOver(BestDeadline, SlotCount) BY <1>2, <1>3
<1>5. BestDeadline[0] = NoDeadline BY <1>1, <1>4 DEF LoopOver
<1>6. ASSUME NEW i \in 0 .. SlotCount - 1
      PROVE  BestDeadline[i + 1] = Better(BestDeadline[i], i)
  <2>1. PICK k \in 0 .. SlotCount : k = i + 1 /\ k # 0 /\ k - 1 = i BY <1>1, <1>6
  <2>2. BestDeadline[k] = Better(BestDeadline[k - 1], k - 1)
    BY <1>4, <2>1 DEF LoopOver
  <2> QED BY <2>1, <2>2
<1> QED BY <1>5, <1>6

\* After n slots the loop holds the earliest true deadline among them.
EarliestOf(n, best) ==
  /\ ~best.found => \A i \in 0 .. n - 1 : ~slots[i].active
  /\ best.found =>
       \E j \in 0 .. n - 1 :
         /\ slots[j].active /\ best.at = Deadline(j) % TimeMod
         /\ \A i \in 0 .. n - 1 : slots[i].active => Deadline(j) <= Deadline(i)

\* Two true deadlines are less than half a turn of the clock apart.
LEMMA DeadlinesCompared ==
  ASSUME TimerInv, NEW i \in Slots, NEW j \in Slots, slots[i].active, slots[j].active
  PROVE  NotBefore(Deadline(i) % TimeMod, Deadline(j) % TimeMod)
           <=> Deadline(j) <= Deadline(i)
<1>1. Occupied(i) /\ Occupied(j) BY DEF TimerInv, DeadlinesKept
<1>2. Deadline(i) \in Nat /\ Deadline(j) \in Nat BY DueIsPast
<1>3. /\ clock \in Nat /\ MaxLate \in Nat /\ TimeMod \in Nat
      /\ slots[i].period \in Nat /\ slots[j].period \in Nat
      /\ 2 * (slots[i].period + MaxLate) < TimeMod
      /\ 2 * (slots[j].period + MaxLate) < TimeMod
  BY <1>1, TimerSizes DEF Occupied, TimerInv, TimerTypes
<1>4. PICK a \in Nat, b \in Nat : a = Deadline(i) /\ b = Deadline(j) BY <1>2
<1>5. /\ a <= clock + slots[i].period /\ clock <= a + MaxLate
      /\ b <= clock + slots[j].period /\ clock <= b + MaxLate
  BY <1>1, <1>4 DEF Occupied
<1>6. 2 * (a - b) < TimeMod /\ 2 * (b - a) < TimeMod BY <1>3, <1>5
<1>7. NotBefore(a % TimeMod, b % TimeMod) <=> b <= a BY <1>6, NotBeforeWrapped
<1> QED BY <1>4, <1>7

\* One turn of the loop.
LEMMA BetterIsEarliest ==
  ASSUME TimerInv, NEW n \in Nat, n < SlotCount, NEW best, EarliestOf(n, best),
         best.found \in BOOLEAN
  PROVE  EarliestOf(n + 1, Better(best, n)) /\ Better(best, n).found \in BOOLEAN
<1>0. n \in Slots /\ \A i \in 0 .. n : i \in Slots BY TimerSizes DEF Slots
<1>1. \A i \in 0 .. n : slots[i].active => Deadline(i) \in Nat BY <1>0, DueIsPast
<1>2. \A i \in 0 .. n + 1 - 1 : i \in 0 .. n - 1 \/ i = n OBVIOUS
<1>7. \A i \in 0 .. n - 1 : i \in 0 .. n + 1 - 1 OBVIOUS
<1>3. CASE ~slots[n].active
  <2>1. Better(best, n) = best BY <1>3 DEF Better
  <2>2. CASE best.found
    <3>1. PICK j \in 0 .. n - 1 :
            /\ slots[j].active /\ best.at = Deadline(j) % TimeMod
            /\ \A i \in 0 .. n - 1 : slots[i].active => Deadline(j) <= Deadline(i)
      BY <2>2 DEF EarliestOf
    <3>2. \A i \in 0 .. n + 1 - 1 : slots[i].active => Deadline(j) <= Deadline(i)
      BY <1>2, <1>3, <3>1
    <3> QED BY <1>7, <2>1, <2>2, <3>1, <3>2 DEF EarliestOf
  <2>3. CASE ~best.found
    <3>1. \A i \in 0 .. n + 1 - 1 : ~slots[i].active
      BY <1>2, <1>3, <2>3 DEF EarliestOf
    <3> QED BY <2>1, <2>3, <3>1 DEF EarliestOf
  <2> QED BY <2>2, <2>3
<1>4. CASE slots[n].active /\ ~best.found
  <2>1. Better(best, n) = [found |-> TRUE, at |-> slots[n].deadline]
    BY <1>4 DEF Better
  <2>2. slots[n].deadline = Deadline(n) % TimeMod
    BY <1>0, <1>4 DEF TimerInv, DeadlinesKept, Occupied
  <2>3. \A i \in 0 .. n + 1 - 1 : slots[i].active => i = n
    BY <1>2, <1>4 DEF EarliestOf
  <2>4. \A i \in 0 .. n + 1 - 1 : slots[i].active => Deadline(n) <= Deadline(i)
    BY <1>1, <1>4, <2>3
  <2>5. n \in 0 .. n + 1 - 1 OBVIOUS
  <2> QED BY <1>4, <2>1, <2>2, <2>4, <2>5 DEF EarliestOf
<1>5. CASE slots[n].active /\ best.found
  <2>1. PICK j \in 0 .. n - 1 :
          /\ slots[j].active /\ best.at = Deadline(j) % TimeMod
          /\ \A i \in 0 .. n - 1 : slots[i].active => Deadline(j) <= Deadline(i)
    BY <1>5 DEF EarliestOf
  <2>2. slots[n].deadline = Deadline(n) % TimeMod
    BY <1>0, <1>5 DEF TimerInv, DeadlinesKept, Occupied
  <2>3. j \in Slots /\ j \in 0 .. n /\ j \in 0 .. n + 1 - 1 BY <1>0
  <2>4. NotBefore(slots[n].deadline, best.at) <=> Deadline(j) <= Deadline(n)
    BY <1>0, <1>5, <2>1, <2>2, <2>3, DeadlinesCompared
  <2>5. Deadline(j) \in Nat /\ Deadline(n) \in Nat BY <1>0, <1>5, <2>1, <2>3, DueIsPast
  <2>6. CASE Deadline(j) <= Deadline(n)
    <3>1. Better(best, n) = best BY <1>5, <2>4, <2>6 DEF Better
    <3>2. \A i \in 0 .. n + 1 - 1 : slots[i].active => Deadline(j) <= Deadline(i)
      BY <1>2, <2>1, <2>6
    <3>3. EarliestOf(n + 1, best) BY <1>5, <2>1, <2>3, <3>2 DEF EarliestOf
    <3> QED BY <3>1, <3>3
  <2>7. CASE ~(Deadline(j) <= Deadline(n))
    <3>1. Better(best, n) = [found |-> TRUE, at |-> slots[n].deadline]
      BY <1>5, <2>4, <2>7 DEF Better
    <3>2. \A i \in 0 .. n - 1 : slots[i].active => Deadline(n) <= Deadline(i)
      BY <1>1, <2>1, <2>5, <2>7
    <3>3. \A i \in 0 .. n + 1 - 1 : slots[i].active => Deadline(n) <= Deadline(i)
      BY <1>2, <2>5, <3>2
    <3>4. n \in 0 .. n + 1 - 1 OBVIOUS
    <3> QED BY <1>5, <2>2, <3>1, <3>3, <3>4 DEF EarliestOf
  <2> QED BY <2>6, <2>7
<1> QED BY <1>3, <1>4, <1>5

\* The whole loop.
LEMMA LoopFindsEarliest ==
  ASSUME TimerInv
  PROVE  EarliestOf(SlotCount, NextDeadline) /\ NextDeadline.found \in BOOLEAN
<1> DEFINE P(n) == /\ EarliestOf(n, BestDeadline[n])
                   /\ BestDeadline[n].found \in BOOLEAN
           S == {n \in Nat : n <= SlotCount => P(n)}
<1>0. SlotCount \in Nat BY TimerSizes
<1>1. P(0) BY BestIsLoop DEF EarliestOf, NoDeadline
<1>2. ASSUME NEW n \in S PROVE n + 1 \in S
  <2>1. n \in Nat OBVIOUS
  <2>2. CASE n + 1 <= SlotCount
    <3>1. n \in 0 .. SlotCount - 1 /\ n < SlotCount /\ n <= SlotCount
      BY <1>0, <2>1, <2>2
    <3>2. P(n) BY <3>1
    <3>3. BestDeadline[n + 1] = Better(BestDeadline[n], n) BY <3>1, BestIsLoop
    <3>4. P(n + 1) BY <2>1, <3>1, <3>2, <3>3, BetterIsEarliest
    <3> QED BY <2>1, <3>4
  <2>3. CASE ~(n + 1 <= SlotCount) BY <2>1, <2>3
  <2> QED BY <2>2, <2>3
<1>3. S \in SUBSET Nat /\ 0 \in S BY <1>1
<1> HIDE DEF S
<1>4. Nat \subseteq S BY <1>2, <1>3, NaturalsBySteps
<1>5. P(SlotCount) BY <1>0, <1>4 DEF S
<1> QED BY <1>5 DEF NextDeadline

\* ev_timer_next_deadline_ms, whose loop compares wrapped deadlines pairwise,
\* returns the earliest true deadline, for every number of slots.
THEOREM NextDeadlineIsEarliest == Spec => []NextDeadlineExact
<1>1. TimerInv => NextDeadlineExact
  <2> SUFFICES ASSUME TimerInv PROVE NextDeadlineExact
    OBVIOUS
  <2>1. EarliestOf(SlotCount, NextDeadline) /\ NextDeadline.found \in BOOLEAN
    BY LoopFindsEarliest
  <2>2. Slots = 0 .. SlotCount - 1 BY DEF Slots
  <2>3. Active \subseteq Slots BY DEF Active
  <2>4. NextDeadline.found <=> Active # {}
    <3>1. NextDeadline.found => Active # {} BY <2>1, <2>2 DEF EarliestOf, Active
    <3>2. ~NextDeadline.found => Active = {} BY <2>1, <2>2 DEF EarliestOf, Active
    <3> QED BY <2>1, <3>1, <3>2
  <2>5. ASSUME Active # {}
        PROVE  NextDeadline.at = Min({Deadline(i) : i \in Active}) % TimeMod
    <3>1. PICK j \in Active :
            /\ NextDeadline.at = Deadline(j) % TimeMod
            /\ \A i \in Active : Deadline(j) <= Deadline(i)
      BY <2>1, <2>2, <2>4, <2>5 DEF EarliestOf, Active
    <3> DEFINE T == {Deadline(i) : i \in Active}
    <3>2. \A i \in Active : Deadline(i) \in Nat BY DueIsPast DEF Active
    <3>3. T \in SUBSET Nat /\ T # {} /\ Deadline(j) \in T BY <3>2
    <3>4. \A y \in T : Deadline(j) <= y BY <3>1
    <3> HIDE DEF T
    <3>5. Min(T) \in T /\ \A y \in T : Min(T) <= y BY <3>3, MinIsLeast
    <3>6. Deadline(j) <= Min(T) /\ Min(T) <= Deadline(j) BY <3>3, <3>4, <3>5
    <3>7. Min(T) \in Nat /\ Deadline(j) \in Nat BY <3>2, <3>3, <3>5
    <3>8. Min(T) = Deadline(j) BY <3>6, <3>7
    <3> QED BY <3>1, <3>8 DEF T
  <2> QED BY <2>4, <2>5 DEF NextDeadlineExact
<1> QED BY <1>1, ServicesRunTimer, TimerInvHolds, PTL

-----------------------------------------------------------------------------
(* The I2C bus. *)

I2cSteps == {"start", "bit", "ack", "rbit", "rack", "rnack"}
I2cRecovering == {"recover", "pulse", "close"}
I2cRunning == {"run", "begin", "stop"}
I2cPlaces == {"idle", "prepare", "finish"} \cup I2cRecovering \cup I2cRunning
I2cStatuses == {"OK", "TIMEOUT", "NACK", "BUS_LOCKED"}

I2cCallType ==
  [configured : BOOLEAN, at : I2cPlaces,
   call : {"none", "init", "transaction", "sleep"}, todo : Seq(I2cSteps),
   started : BOOLEAN, status : I2cStatuses,
   back : {"none", "prepare", "start", "finish"}, pulse : 0 .. I2cPulses,
   empty : BOOLEAN, expired : BOOLEAN, sawStuck : BOOLEAN]
I2cLineType == [sda : BOOLEAN, scl : BOOLEAN]
I2cDevType == [hold : 0 .. I2cPulses, stretch : BOOLEAN, stuck : BOOLEAN, open : BOOLEAN]

I2cTypes == i2c \in I2cCallType /\ i2cLine \in I2cLineType /\ i2cDev \in I2cDevType

\* Only a transaction clocks bytes, and a recovery knows where it was called
\* from: at the end of a transaction, only if that has failed.
I2cWay ==
  /\ i2c.at \in I2cRunning => i2c.call = "transaction"
  /\ i2c.at \in I2cRecovering =>
       /\ i2c.back # "none"
       /\ i2c.back # "prepare" => i2c.call = "transaction"
       /\ i2c.back = "finish" => i2c.status # "OK"

\* A transaction without a failure leaves no device inside a byte, unless it read
\* no bytes, and the clocks left to a recovery are enough for the device.
I2cHold ==
  /\ i2c.at = "stop" /\ i2c.status = "OK" /\ ~i2c.empty => i2cDev.hold = 0
  /\ i2c.at = "pulse" => i2c.pulse < I2cPulses /\ i2cDev.hold + i2c.pulse <= I2cPulses
  /\ i2c.at = "close" => i2cDev.hold = 0

\* A device that is stuck was noted.
I2cBlame == i2c.at # "idle" /\ i2cDev.stuck => i2c.sawStuck

\* A read of no bytes, whose STOP failed, is being recovered or has been.
I2cLoose ==
  /\ i2c.empty /\ i2c.call = "transaction" /\ ~i2cDev.stretch
  /\ i2c.at # "finish" => i2c.at \in I2cRecovering /\ i2c.back = "finish"
  /\ i2c.at = "finish" => ~i2cDev.open /\ i2cDev.hold = 0

\* The bus is found locked because of a stuck device, after the deadline, or by a
\* read of no bytes.
I2cFreed ==
  i2c.at # "idle" /\ i2c.status = "BUS_LOCKED" => i2c.sawStuck \/ i2c.expired \/ I2cLoose

\* What is known when a call is about to return, and after it.
I2cOutcome ==
  /\ i2c.at = "idle" /\ i2c.configured => i2cLine = I2cReleased
  /\ i2c.at = "finish" /\ i2c.status = "OK" =>
       /\ i2c.call = "init" => i2cLine = I2cReleased
       /\ i2c.call = "transaction" => ~i2cDev.open
       /\ i2c.call = "sleep" => i2cDev.hold = 0 /\ ~i2cDev.stretch

I2cInv ==
  /\ I2cTypes /\ I2cWay /\ I2cHold /\ I2cBlame /\ I2cFreed /\ I2cOutcome
  /\ BusIsReturned

\* The sizes of the bus model: pulses of a recovery, bytes of a payload.
LEMMA I2cSizes == I2cPulses \in Nat /\ I2cPulses > 0 /\ I2cPayload \in Nat
  BY I2cAssumption

\* The lines and the device after the wait for the clock.
LEMMA I2cWaitedIs ==
  ASSUME NEW l \in I2cLineType, NEW d \in I2cDevType, NEW w \in I2cWaited(l, d)
  PROVE  /\ w.ok \in BOOLEAN /\ w.line = l /\ w.dev \in I2cDevType
         /\ w.dev.hold = d.hold /\ w.dev.stuck = d.stuck /\ w.dev.open = d.open
         /\ w.ok => ~w.dev.stretch
         /\ ~w.ok => d.stretch
<1>1. [d EXCEPT !.stretch = FALSE] \in I2cDevType BY DEF I2cDevType
<1>2. CASE w = [ok |-> TRUE, line |-> l, dev |-> [d EXCEPT !.stretch = FALSE]]
  BY <1>1, <1>2 DEF I2cDevType
<1>3. CASE w = [ok |-> FALSE, line |-> l, dev |-> d] /\ d.stretch BY <1>3
<1> QED BY <1>2, <1>3 DEF I2cWaited

\* ev_esp8266_i2c_raise_scl: a clock that came up is up, and the data line as it was.
LEMMA I2cRaisedIs ==
  ASSUME NEW l \in I2cLineType, NEW d \in I2cDevType, NEW w \in I2cRaised(l, d)
  PROVE  /\ w.ok \in BOOLEAN /\ w.line \in I2cLineType /\ w.dev \in I2cDevType
         /\ w.dev.hold = d.hold /\ w.dev.stuck = d.stuck /\ w.dev.open = d.open
         /\ w.ok => ~w.dev.stretch /\ w.line.scl /\ w.line.sda = l.sda
         /\ ~w.ok => i2c.expired \/ d.stretch
<1>1. CASE w = [ok |-> FALSE, line |-> l, dev |-> d] /\ i2c.expired BY <1>1
<1>2. CASE w \in I2cWaited([l EXCEPT !.scl = TRUE], d)
  <2>1. PICK k \in I2cLineType : k = [l EXCEPT !.scl = TRUE] BY DEF I2cLineType
  <2>2. k.scl /\ k.sda = l.sda BY <2>1 DEF I2cLineType
  <2>3. w \in I2cWaited(k, d) BY <1>2, <2>1
  <2> QED BY <2>2, <2>3, I2cWaitedIs
<1> QED BY <1>1, <1>2 DEF I2cRaised

\* ev_esp8266_i2c_lower_scl: what the device may hold after the clock fell.
LEMMA I2cFellIs ==
  ASSUME NEW d \in I2cDevType, NEW next \in I2cSteps \cup {"stop", "recover"},
         NEW x \in I2cFell(d, next)
  PROVE  /\ x \in I2cDevType /\ x.stuck = d.stuck /\ x.open = d.open
         /\ next = "stop" => x.hold = 0
         /\ next = "recover" => ~x.stretch
         /\ next = "recover" => x.hold = IF d.hold = 0 THEN 0 ELSE d.hold - 1
<1>1. PICK h \in I2cHolds(d, next), s \in {FALSE, d.open /\ next # "recover"} :
        x = [hold |-> h, stretch |-> s, stuck |-> d.stuck, open |-> d.open]
  BY DEF I2cFell
<1>2. d.hold \in 0 .. I2cPulses /\ d.open \in BOOLEAN BY DEF I2cDevType
<1>3. /\ h \in 0 .. I2cPulses
      /\ next = "stop" => h = 0
      /\ next = "recover" => h = IF d.hold = 0 THEN 0 ELSE d.hold - 1
  <2>1. CASE next = "ack" BY <2>1, I2cSizes DEF I2cHolds
  <2>2. CASE next = "rbit" BY <2>2, I2cSizes DEF I2cHolds
  <2>3. CASE next \in {"bit", "rack", "rnack", "start", "stop"}
    BY <2>3, I2cSizes DEF I2cHolds
  <2>4. CASE next = "recover" BY <1>2, <2>4, I2cSizes DEF I2cHolds
  <2> QED BY <2>1, <2>2, <2>3, <2>4 DEF I2cSteps
<1>4. s \in BOOLEAN /\ (next = "recover" => ~s) BY <1>2
<1>5. /\ x.hold = h /\ x.stretch = s /\ x.stuck = d.stuck /\ x.open = d.open /\ x \in I2cDevType
  BY <1>1, <1>3, <1>4 DEF I2cDevType
<1> QED BY <1>3, <1>4, <1>5

\* A device that sees a stop condition lets go of the bus.
LEMMA I2cStopSeenIs ==
  ASSUME NEW l \in I2cLineType, NEW d \in I2cDevType
  PROVE  /\ I2cStopSeen(l, d) \in I2cDevType
         /\ I2cStopSeen(l, d).stuck = d.stuck /\ I2cStopSeen(l, d).stretch = d.stretch
         /\ I2cStopSeen(l, d).hold \in {0, d.hold}
         /\ I2cStopSeen(l, d).open => d.open
         /\ I2cScl(l, d) /\ I2cSda(l, d) => ~I2cStopSeen(l, d).open
<1>1. 0 \in 0 .. I2cPulses BY I2cSizes
<1>2. CASE I2cScl(l, d) /\ I2cSda(l, d)
  <2>1. I2cStopSeen(l, d) = [d EXCEPT !.open = FALSE, !.hold = 0]
    BY <1>2 DEF I2cStopSeen
  <2> QED BY <1>1, <2>1 DEF I2cDevType
<1>3. CASE ~(I2cScl(l, d) /\ I2cSda(l, d))
  <2>1. I2cStopSeen(l, d) = d BY <1>3 DEF I2cStopSeen
  <2> QED BY <1>3, <2>1
<1> QED BY <1>2, <1>3

\* Where a failure leads.
LEMMA I2cFailedIs ==
  ASSUME NEW c \in I2cCallType, NEW status \in I2cStatuses, status # "OK"
  PROVE  LET f == I2cFailed(c, status)
         IN  /\ f \in I2cCallType /\ f.status = status /\ f.call = c.call
             /\ f.sawStuck = c.sawStuck /\ f.expired = c.expired
             /\ f.at \in {"finish", "stop", "recover"}
             /\ f.at # "finish" => c.call = "transaction"
             /\ f.at = "recover" => f.back = "finish"
<1>1. << >> \in Seq(I2cSteps) BY EmptySeq
<1>2. "finish" \in I2cPlaces /\ "stop" \in I2cPlaces /\ "recover" \in I2cPlaces
  BY DEF I2cPlaces, I2cRecovering, I2cRunning
<1>3. PICK f : f = I2cFailed(c, status) OBVIOUS
<1> DEFINE G == /\ f \in I2cCallType /\ f.status = status /\ f.call = c.call
                /\ f.sawStuck = c.sawStuck /\ f.expired = c.expired
                /\ f.at \in {"finish", "stop", "recover"}
                /\ f.at # "finish" => c.call = "transaction"
                /\ f.at = "recover" => f.back = "finish"
<1>4. ASSUME c.call # "transaction" PROVE G
  <2>1. f = [c EXCEPT !.status = status, !.at = "finish"] BY <1>3, <1>4 DEF I2cFailed
  <2> QED BY <1>2, <2>1 DEF I2cCallType
<1>5. ASSUME c.call = "transaction", c.started PROVE G
  <2>1. f = [c EXCEPT !.status = status, !.at = "stop", !.todo = << >>]
    BY <1>3, <1>5 DEF I2cFailed
  <2> QED BY <1>1, <1>2, <1>5, <2>1 DEF I2cCallType
<1>6. ASSUME c.call = "transaction", ~c.started PROVE G
  <2>1. f = [c EXCEPT !.status = status, !.at = "recover", !.back = "finish", !.todo = << >>]
    BY <1>3, <1>6 DEF I2cFailed
  <2> QED BY <1>1, <1>2, <1>6, <2>1 DEF I2cCallType
<1>7. G
  <2> HIDE DEF G
  <2> QED BY <1>4, <1>5, <1>6
<1> QED BY <1>3, <1>7

\* The clocks of a transaction are known ones.
LEMMA I2cProgramsKnown == I2cPrograms \subseteq Seq(I2cSteps)
<1>1. ASSUME NEW s \in Seq(I2cSteps), NEW n \in Nat, Len(s) = 2
      PROVE  I2cRepeat(s, n) \in Seq(I2cSteps)
  <2>1. n * Len(s) \in Nat BY <1>1
  <2>2. ASSUME NEW i \in 1 .. n * Len(s) PROVE s[((i - 1) % Len(s)) + 1] \in I2cSteps
    <3>1. ((i - 1) % 2) + 1 \in 1 .. Len(s) BY <1>1, <2>1
    <3> QED BY <1>1, <3>1, ElementOfSeq
  <2> QED BY <2>1, <2>2, IsASeq DEF I2cRepeat
<1>2. /\ << "start" >> \in Seq(I2cSteps) /\ << "rbit", "rack" >> \in Seq(I2cSteps)
      /\ << "rbit", "rnack" >> \in Seq(I2cSteps) /\ I2cWrite \in Seq(I2cSteps)
      /\ Len(I2cWrite) = 2 /\ Len(<< "rbit", "rack" >>) = 2
  BY DEF I2cSteps, I2cWrite
<1>3. \A n \in Nat : I2cRepeat(I2cWrite, n) \in Seq(I2cSteps) BY <1>1, <1>2
<1>4. ASSUME NEW n \in 1 .. I2cPayload PROVE I2cReads(n) \in Seq(I2cSteps)
  <2>1. n - 1 \in Nat BY I2cSizes
  <2>2. I2cRepeat(<< "rbit", "rack" >>, n - 1) \in Seq(I2cSteps) BY <1>1, <1>2, <2>1
  <2> QED BY <1>2, <2>2, ConcatProperties DEF I2cReads
<1>5. ASSUME NEW n \in 0 .. I2cPayload
      PROVE  /\ << "start" >> \o I2cRepeat(I2cWrite, 1 + n) \in Seq(I2cSteps)
             /\ << "start" >> \o I2cRepeat(I2cWrite, 2 + n) \in Seq(I2cSteps)
  <2>1. 1 + n \in Nat /\ 2 + n \in Nat BY I2cSizes
  <2> QED BY <1>2, <1>3, <2>1, ConcatProperties
<1>6. ASSUME NEW n \in 1 .. I2cPayload
      PROVE  /\ << "start" >> \o I2cWrite \o I2cReads(n) \in Seq(I2cSteps)
             /\ << "start" >> \o I2cRepeat(I2cWrite, 2) \o << "start" >> \o I2cWrite
                  \o I2cReads(n) \in Seq(I2cSteps)
  <2>1. I2cRepeat(I2cWrite, 2) \in Seq(I2cSteps) BY <1>3
  <2> QED BY <1>2, <1>4, <2>1, ConcatProperties
<1> QED BY <1>5, <1>6 DEF I2cPrograms

\* So are those of a read of no bytes.
LEMMA I2cEmptyReadKnown == I2cEmptyRead \in Seq(I2cSteps)
<1>1. << "start" >> \in Seq(I2cSteps) /\ I2cWrite \in Seq(I2cSteps)
  BY DEF I2cSteps, I2cWrite
<1> QED BY <1>1, ConcatProperties DEF I2cEmptyRead

\* The adapter is not configured.
LEMMA I2cInitInv == I2cInit => I2cInv
<1> SUFFICES ASSUME I2cInit PROVE I2cInv
  OBVIOUS
<1>1. << >> \in Seq(I2cSteps) /\ 0 \in 0 .. I2cPulses BY EmptySeq, I2cSizes
<1>2. I2cTypes
  BY <1>1 DEF I2cInit, I2cTypes, I2cCallType, I2cPlaces, I2cStatuses, I2cLineType,
     I2cDevType, I2cReleased
<1>3. I2cWay /\ I2cHold /\ I2cBlame /\ I2cFreed /\ I2cOutcome /\ BusIsReturned
  BY DEF I2cInit, I2cWay, I2cHold, I2cBlame, I2cFreed, I2cOutcome, BusIsReturned,
         I2cReleased, 
     I2cRunning, I2cRecovering
<1> QED BY <1>2, <1>3 DEF I2cInv

\* A call takes the mutex, or is refused.
LEMMA I2cEnterInv ==
  I2cInv /\ (I2cPortInit \/ I2cTransaction \/ I2cSleep \/ I2cRefused \/ I2cInvalid) => I2cInv'
<1>1. ASSUME I2cInv, NEW call \in {"init", "transaction", "sleep"},
             NEW todo \in Seq(I2cSteps), NEW empty \in BOOLEAN, I2cEnter(call, todo, empty),
             i2cLine' \in {i2cLine, I2cReleased}, UNCHANGED <<i2cDev, i2cLast>>
      PROVE  I2cInv'
  <2>1. 0 \in 0 .. I2cPulses /\ i2cDev.stuck \in BOOLEAN
    BY <1>1, I2cSizes DEF I2cInv, I2cTypes, I2cDevType
  <2>2. i2c' = [configured |-> TRUE, at |-> "prepare", call |-> call, todo |-> todo,
                started |-> FALSE, status |-> "OK", back |-> "none", pulse |-> 0,
                empty |-> empty, expired |-> FALSE, sawStuck |-> i2cDev.stuck]
    BY <1>1 DEF I2cEnter
  <2>3. i2c' \in I2cCallType
    BY <2>1, <2>2 DEF I2cCallType, I2cPlaces, I2cStatuses
  <2>4. I2cTypes'
    <3>1. I2cReleased \in I2cLineType BY DEF I2cReleased, I2cLineType
    <3>2. i2cLine \in I2cLineType /\ i2cDev \in I2cDevType BY <1>1 DEF I2cInv, I2cTypes
    <3>3. i2cLine' \in I2cLineType BY <1>1, <3>1, <3>2
    <3> QED BY <1>1, <2>3, <3>2, <3>3 DEF I2cTypes
  <2>5. I2cWay' /\ I2cHold' /\ I2cBlame' /\ I2cFreed' /\ I2cOutcome'
    BY <1>1, <2>2 DEF I2cWay, I2cHold, I2cBlame, I2cFreed, I2cOutcome, I2cRunning,
       I2cRecovering
  <2>6. BusIsReturned' BY <1>1, <2>2 DEF I2cInv, BusIsReturned
  <2> QED BY <2>4, <2>5, <2>6 DEF I2cInv
<1>2. I2cInv /\ I2cPortInit => I2cInv'
  <2> SUFFICES ASSUME I2cInv, I2cPortInit PROVE I2cInv'
    OBVIOUS
  <2>1. << >> \in Seq(I2cSteps) BY EmptySeq
  <2> QED BY <1>1, <2>1 DEF I2cPortInit
<1>3. I2cInv /\ I2cTransaction => I2cInv'
  <2> SUFFICES ASSUME I2cInv, I2cTransaction PROVE I2cInv'
    OBVIOUS
  <2>1. PICK todo \in Seq(I2cSteps), empty \in BOOLEAN : I2cEnter("transaction", todo, empty)
    BY I2cProgramsKnown, I2cEmptyReadKnown DEF I2cTransaction
  <2> QED BY <1>1, <2>1 DEF I2cTransaction
<1>4. I2cInv /\ I2cSleep => I2cInv'
  <2> SUFFICES ASSUME I2cInv, I2cSleep PROVE I2cInv'
    OBVIOUS
  <2>1. << >> \in Seq(I2cSteps) BY EmptySeq
  <2> QED BY <1>1, <2>1 DEF I2cSleep
<1>5. I2cInv /\ (I2cRefused \/ I2cInvalid) => I2cInv'
  <2> SUFFICES ASSUME I2cInv, I2cRefused \/ I2cInvalid PROVE I2cInv'
    OBVIOUS
  <2>1. /\ UNCHANGED <<i2c, i2cLine, i2cDev>>
        /\ \/ i2cLast'.status = "TIMEOUT"
           \/ i2cLast'.status = "BUS_LOCKED" /\ i2cLast'.call = "invalid"
    BY DEF I2cRefused, I2cInvalid, I2cTurnedAway
  <2>2. I2cTypes' /\ I2cWay' BY <2>1 DEF I2cInv, I2cTypes, I2cWay
  <2>3. I2cHold' /\ I2cBlame' /\ I2cFreed' /\ I2cOutcome'
    BY <2>1 DEF I2cInv, I2cHold, I2cBlame, I2cFreed, I2cLoose, I2cOutcome
  <2>4. BusIsReturned' BY <2>1 DEF I2cInv, BusIsReturned
  <2> QED BY <2>2, <2>3, <2>4 DEF I2cInv
<1> QED BY <1>2, <1>3, <1>4, <1>5

\* A step of a call that is under way and does not return keeps the invariant
\* if the new state does.
LEMMA I2cUnderWay ==
  ASSUME I2cInv, I2cTypes', i2c'.at # "idle", UNCHANGED i2cLast,
         I2cWay', I2cHold', I2cBlame', I2cFreed', I2cOutcome'
  PROVE  I2cInv'
<1>1. BusIsReturned' BY DEF I2cInv, BusIsReturned
<1> QED BY <1>1 DEF I2cInv

\* Where a step leads that found the lines free, or did not.
LEMMA I2cGoOnIs ==
  ASSUME NEW c \in I2cCallType
  PROVE  /\ I2cGoOn(c) \in I2cCallType /\ I2cGoOn(c).status = c.status
         /\ I2cGoOn(c).call = c.call /\ I2cGoOn(c).sawStuck = c.sawStuck
         /\ I2cGoOn(c).expired = c.expired
         /\ I2cGoOn(c).at = IF c.call = "transaction" THEN "run" ELSE "finish"
<1>1. "run" \in I2cPlaces /\ "finish" \in I2cPlaces BY DEF I2cPlaces, I2cRunning
<1> QED BY <1>1 DEF I2cGoOn, I2cCallType

\* ev_esp8266_i2c_prepare_bus
LEMMA I2cPrepareInv == I2cInv /\ I2cPrepare => I2cInv'
<1> SUFFICES ASSUME I2cInv, I2cPrepare PROVE I2cInv'
  OBVIOUS
<1>0. /\ i2c \in I2cCallType /\ i2cDev \in I2cDevType /\ i2c.at = "prepare"
      /\ I2cReleased \in I2cLineType /\ UNCHANGED i2cLast
      /\ i2c.call = "transaction" \/ i2c.call # "transaction"
  BY DEF I2cInv, I2cTypes, I2cPrepare, I2cReleased, I2cLineType
<1>1. PICK w \in I2cWaited(I2cReleased, i2cDev) :
        /\ i2cLine' = w.line /\ i2cDev' = w.dev
        /\ i2c' = IF ~w.ok THEN I2cFailed(i2c, "TIMEOUT")
                  ELSE IF I2cSda(w.line, w.dev) THEN I2cGoOn(i2c)
                  ELSE [i2c EXCEPT !.at = "recover", !.back = "prepare"]
  BY DEF I2cPrepare
<1>2. /\ w.ok \in BOOLEAN /\ w.line = I2cReleased /\ w.dev \in I2cDevType
      /\ w.dev.stuck = i2cDev.stuck /\ (w.ok => ~w.dev.stretch)
  BY <1>0, I2cWaitedIs
<1>3. /\ i2cDev.stuck => i2c.sawStuck
      /\ i2c.status = "BUS_LOCKED" => i2c.sawStuck \/ i2c.expired
  BY <1>0 DEF I2cInv, I2cBlame, I2cFreed, I2cLoose, I2cRecovering
<1>4. CASE ~w.ok
  <2>1. "TIMEOUT" \in I2cStatuses BY DEF I2cStatuses
  <2>2. /\ i2c' \in I2cCallType /\ i2c'.status = "TIMEOUT" /\ i2c'.sawStuck = i2c.sawStuck
        /\ i2c'.expired = i2c.expired
        /\ i2c'.at \in {"finish", "stop", "recover"}
        /\ i2c'.at # "finish" => i2c'.call = "transaction"
        /\ i2c'.at = "recover" => i2c'.back = "finish"
    BY <1>0, <1>1, <1>4, <2>1, I2cFailedIs
  <2>3. I2cTypes' BY <1>0, <1>1, <1>2, <2>2 DEF I2cTypes
  <2>4. I2cWay' BY <2>2 DEF I2cWay, I2cRunning, I2cRecovering
  <2>5. I2cHold' /\ I2cOutcome' BY <2>2 DEF I2cHold, I2cOutcome
  <2>6. I2cBlame' /\ I2cFreed' BY <1>1, <1>2, <1>3, <2>2 DEF I2cBlame, I2cFreed
  <2>7. i2c'.at # "idle" BY <2>2
  <2> QED BY <1>0, <2>3, <2>4, <2>5, <2>6, <2>7, I2cUnderWay
<1>5. CASE w.ok /\ I2cSda(w.line, w.dev)
  <2>1. /\ i2c' \in I2cCallType /\ i2c'.status = i2c.status /\ i2c'.call = i2c.call
        /\ i2c'.sawStuck = i2c.sawStuck /\ i2c'.expired = i2c.expired
        /\ i2c'.at = IF i2c.call = "transaction" THEN "run" ELSE "finish"
    BY <1>0, <1>1, <1>5, I2cGoOnIs
  <2>2. w.dev.hold = 0 BY <1>5 DEF I2cSda
  <2>3. I2cTypes' BY <1>0, <1>1, <1>2, <2>1 DEF I2cTypes
  <2>4. I2cWay' /\ I2cHold' BY <2>1 DEF I2cWay, I2cHold, I2cRunning, I2cRecovering
  <2>5. I2cOutcome' BY <1>1, <1>2, <1>5, <2>1, <2>2 DEF I2cOutcome
  <2>6. I2cBlame' /\ I2cFreed' BY <1>1, <1>2, <1>3, <2>1 DEF I2cBlame, I2cFreed
  <2>7. i2c'.at # "idle" BY <2>1
  <2> QED BY <1>0, <2>3, <2>4, <2>5, <2>6, <2>7, I2cUnderWay
<1>6. CASE w.ok /\ ~I2cSda(w.line, w.dev)
  <2>0. "recover" \in I2cPlaces BY DEF I2cPlaces, I2cRecovering
  <2>1. /\ i2c' \in I2cCallType /\ i2c'.status = i2c.status /\ i2c'.call = i2c.call
        /\ i2c'.sawStuck = i2c.sawStuck /\ i2c'.expired = i2c.expired
        /\ i2c'.at = "recover" /\ i2c'.back = "prepare"
    BY <1>0, <1>1, <1>6, <2>0 DEF I2cCallType
  <2>3. I2cTypes' BY <1>0, <1>1, <1>2, <2>1 DEF I2cTypes
  <2>4. I2cWay' /\ I2cHold' /\ I2cOutcome'
    BY <2>1 DEF I2cWay, I2cHold, I2cOutcome, I2cRunning
  <2>6. I2cBlame' /\ I2cFreed' BY <1>1, <1>2, <1>3, <2>1 DEF I2cBlame, I2cFreed
  <2> QED BY <1>0, <2>1, <2>3, <2>4, <2>6, I2cUnderWay
<1> QED BY <1>2, <1>4, <1>5, <1>6

\* ev_esp8266_i2c_start_condition
LEMMA I2cStartInv == I2cInv /\ I2cStart => I2cInv'
<1> SUFFICES ASSUME I2cInv, I2cStart PROVE I2cInv'
  OBVIOUS
<1>0. /\ i2c \in I2cCallType /\ i2cDev \in I2cDevType /\ i2c.at = "run"
      /\ I2cReleased \in I2cLineType /\ UNCHANGED i2cLast
  BY DEF I2cInv, I2cTypes, I2cStart, I2cReleased, I2cLineType
<1>1. PICK w \in I2cWaited(I2cReleased, i2cDev) :
        /\ i2cLine' = w.line /\ i2cDev' = w.dev
        /\ i2c' = IF ~w.ok THEN I2cFailed(i2c, "TIMEOUT")
                  ELSE IF I2cSda(w.line, w.dev) THEN [i2c EXCEPT !.at = "begin"]
                  ELSE [i2c EXCEPT !.at = "recover", !.back = "start"]
  BY DEF I2cStart
<1>2. /\ w.ok \in BOOLEAN /\ w.line = I2cReleased /\ w.dev \in I2cDevType
      /\ w.dev.stuck = i2cDev.stuck
  BY <1>0, I2cWaitedIs
<1>3. /\ i2cDev.stuck => i2c.sawStuck
      /\ i2c.status = "BUS_LOCKED" => i2c.sawStuck \/ i2c.expired
  BY <1>0 DEF I2cInv, I2cBlame, I2cFreed, I2cLoose, I2cRecovering
<1>4. i2c.call = "transaction" BY <1>0 DEF I2cInv, I2cWay, I2cRunning
<1>5. /\ i2c' \in I2cCallType /\ i2c'.call = "transaction"
      /\ i2c'.sawStuck = i2c.sawStuck /\ i2c'.expired = i2c.expired
      /\ i2c'.status \in {i2c.status, "TIMEOUT"}
      /\ \/ i2c'.at = "stop" /\ i2c'.status = "TIMEOUT"
         \/ i2c'.at = "recover" /\ i2c'.back = "finish" /\ i2c'.status = "TIMEOUT"
         \/ i2c'.at = "begin"
         \/ i2c'.at = "recover" /\ i2c'.back = "start"
         \/ i2c'.at = "finish" /\ i2c'.status = "TIMEOUT"
  <2>1. "TIMEOUT" \in I2cStatuses BY DEF I2cStatuses
  <2>2. CASE ~w.ok BY <1>0, <1>1, <1>4, <2>1, <2>2, I2cFailedIs
  <2>3. "recover" \in I2cPlaces /\ "begin" \in I2cPlaces
    BY DEF I2cPlaces, I2cRecovering, I2cRunning
  <2>4. CASE w.ok BY <1>0, <1>1, <1>4, <2>3, <2>4 DEF I2cCallType
  <2> QED BY <1>2, <2>2, <2>4
<1>6. I2cTypes' BY <1>0, <1>1, <1>2, <1>5 DEF I2cTypes
<1>7. I2cWay' BY <1>5 DEF I2cWay, I2cRunning, I2cRecovering
<1>8. I2cHold' /\ I2cOutcome' BY <1>5 DEF I2cHold, I2cOutcome
<1>9. I2cBlame' /\ I2cFreed' BY <1>1, <1>2, <1>3, <1>5 DEF I2cBlame, I2cFreed
<1>10. i2c'.at # "idle" BY <1>5
<1> QED BY <1>0, <1>6, <1>7, <1>8, <1>9, <1>10, I2cUnderWay

\* The START.
LEMMA I2cBeginInv == I2cInv /\ I2cBegin => I2cInv'
<1> SUFFICES ASSUME I2cInv, I2cBegin PROVE I2cInv'
  OBVIOUS
<1>0. /\ i2c \in I2cCallType /\ i2cDev \in I2cDevType /\ i2c.at = "begin"
      /\ UNCHANGED i2cLast
  BY DEF I2cInv, I2cTypes, I2cBegin
<1>1. i2cDev' \in I2cDevType /\ i2cDev'.stuck = i2cDev.stuck
  <2>0. 0 \in 0 .. I2cPulses BY I2cSizes
  <2>1. PICK d \in I2cDevType : d = [i2cDev EXCEPT !.open = TRUE, !.hold = 0]
    BY <1>0, <2>0 DEF I2cDevType
  <2>2. d.stuck = i2cDev.stuck BY <1>0, <2>1 DEF I2cDevType
  <2>3. i2cDev' \in I2cFell(d, "bit") BY <2>1 DEF I2cBegin
  <2>4. "bit" \in I2cSteps \cup {"stop", "recover"} BY DEF I2cSteps
  <2> QED BY <2>2, <2>3, <2>4, I2cFellIs
<1>2. i2cLine' \in I2cLineType BY DEF I2cBegin, I2cLineType
<1>3. /\ i2c' \in I2cCallType /\ i2c'.call = i2c.call /\ i2c'.status = i2c.status
      /\ i2c'.sawStuck = i2c.sawStuck /\ i2c'.expired = i2c.expired /\ i2c'.at = "run"
  <2>1. "run" \in I2cPlaces BY DEF I2cPlaces, I2cRunning
  <2>2. Tail(i2c.todo) \in Seq(I2cSteps)
    <3>1. CASE i2c.todo # << >>
      BY <1>0, <3>1, HeadTailProperties DEF I2cCallType
    <3>2. CASE i2c.todo = << >> BY <3>2
    <3> QED BY <3>1, <3>2
  <2> QED BY <1>0, <2>1, <2>2 DEF I2cBegin, I2cCallType
<1>4. i2c.call = "transaction" BY <1>0 DEF I2cInv, I2cWay, I2cRunning
<1>5. I2cTypes' BY <1>1, <1>2, <1>3 DEF I2cTypes
<1>6. I2cWay' /\ I2cHold' /\ I2cOutcome'
  BY <1>3, <1>4 DEF I2cWay, I2cHold, I2cOutcome, I2cRecovering
<1>7. I2cBlame' /\ I2cFreed'
  BY <1>0, <1>1, <1>3 DEF I2cInv, I2cBlame, I2cFreed, I2cLoose, I2cRecovering
<1> QED BY <1>0, <1>3, <1>5, <1>6, <1>7, I2cUnderWay

\* A clock of a byte.
LEMMA I2cClockInv == I2cInv /\ I2cClock => I2cInv'
<1> SUFFICES ASSUME I2cInv, I2cClock PROVE I2cInv'
  OBVIOUS
<1>0. /\ i2c \in I2cCallType /\ i2cDev \in I2cDevType /\ i2cLine \in I2cLineType
      /\ i2c.at = "run" /\ i2c.todo \in Seq(I2cSteps) /\ i2c.todo # << >>
      /\ UNCHANGED i2cLast
  BY DEF I2cInv, I2cTypes, I2cClock, I2cCallType
<1> DEFINE first == Head(i2c.todo)
           acked(w) == first = "ack" => ~I2cSda(w.line, w.dev)
           last == Len(i2c.todo) = 1
           next(w) == IF ~acked(w) \/ (last /\ ~i2c.empty) THEN "stop"
                      ELSE IF last THEN "rbit" ELSE i2c.todo[2]
           clocked(high, w) ==
             IF w.ok
               THEN /\ i2cLine' = [scl |-> FALSE, sda |-> high \/ first = "rack"]
                    /\ i2cDev' \in I2cFell(w.dev, next(w))
                    /\ i2c' = IF acked(w)
                                THEN [i2c EXCEPT !.todo = Tail(@),
                                                 !.at = IF last THEN "stop" ELSE "run"]
                                ELSE I2cFailed(i2c, "NACK")
               ELSE /\ i2cLine' = [w.line EXCEPT !.sda = TRUE]
                    /\ i2cDev' = w.dev
                    /\ i2c' = I2cFailed(i2c, "TIMEOUT")
<1>14. PICK high \in {first # "rack", first # "rack" /\ first # "bit"} :
         \E w \in I2cRaised([i2cLine EXCEPT !.sda = high], i2cDev) : clocked(high, w)
  BY Zenon DEF I2cClock
<1>1. PICK w \in I2cRaised([i2cLine EXCEPT !.sda = high], i2cDev) : clocked(high, w)
  BY <1>14
<1>2. high \in BOOLEAN /\ (high \/ first = "rack") \in BOOLEAN OBVIOUS
<1>3. PICK l \in I2cLineType : l = [i2cLine EXCEPT !.sda = high]
  BY <1>0, <1>2 DEF I2cLineType
<1>4. /\ w.ok \in BOOLEAN /\ w.line \in I2cLineType /\ w.dev \in I2cDevType
      /\ w.dev.stuck = i2cDev.stuck
  <2>1. w \in I2cRaised(l, i2cDev) BY <1>3
  <2> QED BY <1>0, <2>1, I2cRaisedIs
<1>5. next(w) \in I2cSteps \cup {"stop", "recover"}
  <2>1. CASE ~acked(w) \/ last BY <2>1 DEF I2cSteps
  <2>2. CASE ~(~acked(w) \/ last)
    <3>1. Len(i2c.todo) \in Nat /\ Len(i2c.todo) # 0 BY <1>0, EmptySeq, LenProperties
    <3>4. Len(i2c.todo) # 1 BY <2>2
    <3>5. \A n \in Nat : n # 0 /\ n # 1 => 2 \in 1 .. n OBVIOUS
    <3>2. 2 \in 1 .. Len(i2c.todo) BY ONLY <3>1, <3>4, <3>5
    <3>3. i2c.todo[2] \in I2cSteps BY <1>0, <3>2, ElementOfSeq
    <3> QED BY <2>2, <3>3
  <2> QED BY <2>1, <2>2
<1>6. /\ i2cDev' \in I2cDevType /\ i2cDev'.stuck = i2cDev.stuck
      /\ i2cLine' \in I2cLineType
      /\ w.ok /\ next(w) = "stop" => i2cDev'.hold = 0
  <2> HIDE DEF acked, next, first, last
  <2>1. CASE w.ok
    <3>1. i2cDev' \in I2cFell(w.dev, next(w)) BY <1>1, <2>1
    <3>2. i2cLine' = [scl |-> FALSE, sda |-> high \/ first = "rack"] BY <1>1, <2>1
    <3>3. i2cLine' \in I2cLineType BY <1>2, <3>2 DEF I2cLineType
    <3> QED BY <1>4, <1>5, <3>1, <3>3, I2cFellIs
  <2>2. CASE ~w.ok
    <3>1. i2cLine' = [w.line EXCEPT !.sda = TRUE] /\ i2cDev' = w.dev BY <1>1, <2>2
    <3> QED BY <1>4, <2>2, <3>1 DEF I2cLineType
  <2> QED BY <1>4, <2>1, <2>2
<1>7. i2c.call = "transaction" BY <1>0 DEF I2cInv, I2cWay, I2cRunning
<1>8. /\ i2c' \in I2cCallType /\ i2c'.call = "transaction"
      /\ i2c'.sawStuck = i2c.sawStuck /\ i2c'.expired = i2c.expired
      /\ i2c'.empty = i2c.empty \/ i2c'.status # "OK"
      /\ \/ i2c'.at = "run" /\ i2c'.status = i2c.status
         \/ /\ i2c'.at = "stop" /\ i2c'.status = i2c.status /\ w.ok
            /\ ~i2c.empty => next(w) = "stop"
         \/ /\ i2c'.at \in {"stop", "recover"} /\ i2c'.status \in {"NACK", "TIMEOUT"}
            /\ i2c'.at = "recover" => i2c'.back = "finish"
         \/ i2c'.at = "finish" /\ i2c'.status \in {"NACK", "TIMEOUT"}
  <2> HIDE DEF acked, next, first, last
  <2>1. "TIMEOUT" \in I2cStatuses /\ "NACK" \in I2cStatuses BY DEF I2cStatuses
  <2>2. CASE ~w.ok
    <3>1. i2c' = I2cFailed(i2c, "TIMEOUT") BY <1>1, <2>2
    <3> QED BY <1>0, <1>7, <2>1, <3>1, I2cFailedIs
  <2>3. CASE w.ok /\ ~acked(w)
    <3>1. i2c' = I2cFailed(i2c, "NACK") BY <1>1, <2>3
    <3> QED BY <1>0, <1>7, <2>1, <3>1, I2cFailedIs
  <2>4. CASE w.ok /\ acked(w)
    <3>1. i2c' = [i2c EXCEPT !.todo = Tail(i2c.todo),
                             !.at = IF last THEN "stop" ELSE "run"]
      BY <1>1, <2>4
    <3>2. "run" \in I2cPlaces /\ "stop" \in I2cPlaces BY DEF I2cPlaces, I2cRunning
    <3>3. Tail(i2c.todo) \in Seq(I2cSteps) BY <1>0, HeadTailProperties
    <3>6. last /\ ~i2c.empty => next(w) = "stop" BY DEF next
    <3>4. CASE last
      <4>1. i2c' = [i2c EXCEPT !.todo = Tail(i2c.todo), !.at = "stop"] BY <3>1, <3>4
      <4> QED BY <1>0, <1>7, <2>4, <3>2, <3>3, <3>4, <3>6, <4>1 DEF I2cCallType
    <3>5. CASE ~last
      <4>1. i2c' = [i2c EXCEPT !.todo = Tail(i2c.todo), !.at = "run"] BY <3>1, <3>5
      <4> QED BY <1>0, <1>7, <3>2, <3>3, <4>1 DEF I2cCallType
    <3> QED BY <3>4, <3>5
  <2> QED BY <1>4, <2>2, <2>3, <2>4
<1> HIDE DEF acked, next, first, last, clocked
<1>9. I2cTypes' BY <1>6, <1>8 DEF I2cTypes
<1>10. I2cWay' BY <1>8 DEF I2cWay, I2cRunning, I2cRecovering
<1>11. I2cHold' BY <1>6, <1>8 DEF I2cHold
<1>12. I2cOutcome' BY <1>8 DEF I2cOutcome
<1>13. I2cBlame' BY <1>0, <1>6, <1>8 DEF I2cInv, I2cBlame
<1>16. i2c.status = "BUS_LOCKED" => i2c.sawStuck \/ i2c.expired
  BY <1>0 DEF I2cInv, I2cFreed, I2cLoose, I2cRecovering
<1>17. I2cFreed' BY <1>8, <1>16 DEF I2cFreed
<1>15. i2c'.at # "idle" BY <1>8
<1> QED BY <1>0, <1>9, <1>10, <1>11, <1>12, <1>13, <1>15, <1>17, I2cUnderWay

\* ev_esp8266_i2c_stop_condition
LEMMA I2cStopInv == I2cInv /\ I2cStop => I2cInv'
<1> SUFFICES ASSUME I2cInv, I2cStop PROVE I2cInv'
  OBVIOUS
<1>0. /\ i2c \in I2cCallType /\ i2cDev \in I2cDevType /\ i2cLine \in I2cLineType
      /\ i2c.at = "stop" /\ I2cReleased \in I2cLineType /\ UNCHANGED i2cLast
  BY DEF I2cInv, I2cTypes, I2cStop, I2cReleased, I2cLineType
<1> DEFINE dev(w) == IF w.ok THEN I2cStopSeen(I2cReleased, w.dev) ELSE w.dev
           stop(w) == IF ~w.ok THEN "TIMEOUT"
                      ELSE IF I2cSda(I2cReleased, dev(w)) THEN "OK" ELSE "BUS_LOCKED"
           status(w) == IF i2c.status = "OK" THEN stop(w) ELSE i2c.status
<1>1. PICK w \in I2cRaised([i2cLine EXCEPT !.sda = FALSE], i2cDev) :
        /\ i2cLine' = I2cReleased /\ i2cDev' = dev(w)
        /\ i2c' = [i2c EXCEPT
                     !.status = status(w), !.back = "finish",
                     !.at = IF stop(w) # "OK" \/ status(w) \in {"TIMEOUT", "BUS_LOCKED"}
                              THEN "recover" ELSE "finish"]
  BY DEF I2cStop
<1>2. PICK l \in I2cLineType : l = [i2cLine EXCEPT !.sda = FALSE]
  BY <1>0 DEF I2cLineType
<1>3. /\ w.ok \in BOOLEAN /\ w.dev \in I2cDevType
      /\ w.dev.hold = i2cDev.hold /\ w.dev.stuck = i2cDev.stuck
      /\ w.ok => ~w.dev.stretch
  <2>1. w \in I2cRaised(l, i2cDev) BY <1>2
  <2> QED BY <1>0, <2>1, I2cRaisedIs
<1>4. /\ dev(w) \in I2cDevType /\ dev(w).stuck = i2cDev.stuck
      /\ dev(w).hold \in {0, i2cDev.hold} /\ (w.ok => ~dev(w).stretch)
      /\ w.ok /\ I2cSda(I2cReleased, dev(w)) => ~dev(w).open
  <2>1. CASE w.ok
    <3>1. /\ dev(w) \in I2cDevType /\ dev(w).stuck = w.dev.stuck
          /\ dev(w).stretch = w.dev.stretch
          /\ dev(w).hold \in {0, w.dev.hold}
          /\ I2cScl(I2cReleased, w.dev) /\ I2cSda(I2cReleased, w.dev) => ~dev(w).open
      BY <1>0, <1>3, <2>1, I2cStopSeenIs
    <3>2. I2cScl(I2cReleased, w.dev) BY <1>3, <2>1 DEF I2cScl, I2cReleased
    <3>3. ~I2cSda(I2cReleased, w.dev) => dev(w) = w.dev BY <2>1 DEF I2cStopSeen
    <3> QED BY <1>3, <3>1, <3>2, <3>3
  <2>2. CASE ~w.ok BY <1>3, <2>2
  <2> QED BY <1>3, <2>1, <2>2
<1>5. /\ stop(w) \in I2cStatuses /\ status(w) \in I2cStatuses
      /\ stop(w) # "OK" => status(w) # "OK"
      /\ status(w) = "OK" => stop(w) = "OK" /\ i2c.status = "OK"
      /\ stop(w) = "OK" => w.ok /\ I2cSda(I2cReleased, dev(w))
      /\ i2c.status = "OK" /\ status(w) = "BUS_LOCKED" =>
           w.ok /\ ~I2cSda(I2cReleased, dev(w))
      /\ i2c.status # "OK" => status(w) = i2c.status
  <2> HIDE DEF dev
  <2>1. i2c.status \in I2cStatuses BY <1>0 DEF I2cCallType
  <2>2. stop(w) \in I2cStatuses BY DEF I2cStatuses
  <2> QED BY <1>3, <2>1, <2>2
<1> HIDE DEF dev, stop, status
<1>6. status(w) = "BUS_LOCKED" =>
        i2c.sawStuck \/ i2c.expired \/ (i2c.empty /\ ~dev(w).stretch)
  <2>1. CASE i2c.status = "OK" /\ status(w) = "BUS_LOCKED" /\ ~i2c.empty
    <3>1. i2cDev.hold = 0 BY <1>0, <2>1 DEF I2cInv, I2cHold
    <3>2. dev(w).hold = 0 BY <1>4, <3>1
    <3>3. dev(w).stuck BY <1>4, <1>5, <2>1, <3>2 DEF I2cSda, I2cReleased, I2cDevType
    <3> QED BY <1>0, <1>4, <3>3 DEF I2cInv, I2cBlame
  <2>2. CASE i2c.status = "OK" /\ status(w) = "BUS_LOCKED" /\ i2c.empty
    BY <1>4, <1>5, <2>2
  <2>3. CASE i2c.status # "OK"
    BY <1>0, <1>5, <2>3 DEF I2cInv, I2cFreed, I2cLoose, I2cRecovering
  <2> QED BY <2>1, <2>2, <2>3
<1>7. i2c.call = "transaction" BY <1>0 DEF I2cInv, I2cWay, I2cRunning
<1>8. /\ i2c' \in I2cCallType /\ i2c'.call = "transaction" /\ i2c'.status = status(w)
      /\ i2c'.sawStuck = i2c.sawStuck /\ i2c'.expired = i2c.expired
      /\ i2c'.empty = i2c.empty /\ i2c'.back = "finish"
      /\ \/ i2c'.at = "recover" /\ status(w) # "OK"
         \/ i2c'.at = "finish" /\ stop(w) = "OK" /\ status(w) # "BUS_LOCKED"
  <2>1. "recover" \in I2cPlaces /\ "finish" \in I2cPlaces
    BY DEF I2cPlaces, I2cRecovering
  <2>2. CASE stop(w) # "OK" \/ status(w) \in {"TIMEOUT", "BUS_LOCKED"}
    <3>1. i2c' = [i2c EXCEPT !.status = status(w), !.back = "finish", !.at = "recover"]
      BY <1>1, <2>2
    <3> QED BY <1>0, <1>5, <1>7, <2>1, <2>2, <3>1 DEF I2cCallType
  <2>3. CASE ~(stop(w) # "OK" \/ status(w) \in {"TIMEOUT", "BUS_LOCKED"})
    <3>1. i2c' = [i2c EXCEPT !.status = status(w), !.back = "finish", !.at = "finish"]
      BY <1>1, <2>3
    <3> QED BY <1>0, <1>5, <1>7, <2>1, <2>3, <3>1 DEF I2cCallType
  <2> QED BY <2>2, <2>3
<1>9. I2cTypes' BY <1>0, <1>1, <1>4, <1>8 DEF I2cTypes
<1>10. I2cWay' /\ I2cHold' BY <1>8 DEF I2cWay, I2cHold, I2cRunning, I2cRecovering
<1>11. I2cOutcome' BY <1>1, <1>4, <1>5, <1>8 DEF I2cOutcome
<1>12. I2cBlame' BY <1>0, <1>1, <1>4, <1>8 DEF I2cInv, I2cBlame
<1>14. I2cFreed'
  <2>1. SUFFICES ASSUME i2c'.status = "BUS_LOCKED", ~i2c'.sawStuck, ~i2c'.expired
                 PROVE  I2cLoose'
    BY DEF I2cFreed
  <2>2. i2c'.at = "recover" BY <1>8, <2>1
  <2>3. i2c'.empty /\ ~i2cDev'.stretch BY <1>1, <1>6, <1>8, <2>1
  <2> QED BY <1>8, <2>2, <2>3 DEF I2cLoose, I2cRecovering
<1>13. i2c'.at # "idle" BY <1>8
<1> QED BY <1>0, <1>9, <1>10, <1>11, <1>12, <1>13, <1>14, I2cUnderWay

\* Where a recovery returns to.
LEMMA I2cRecoveredIs ==
  ASSUME I2cInv, i2c.at \in I2cRecovering, NEW status \in {"OK", "TIMEOUT", "BUS_LOCKED"},
         I2cRecovered(status)
  PROVE  /\ i2c' \in I2cCallType /\ i2c'.call = i2c.call /\ i2c'.sawStuck = i2c.sawStuck
         /\ i2c'.expired = i2c.expired
         /\ i2c.back = "finish" => i2c'.at = "finish" /\ i2c'.empty = i2c.empty
         /\ i2c'.at \in {"finish", "run", "begin", "stop", "recover"}
         /\ i2c'.at # "finish" => i2c.call = "transaction"
         /\ i2c'.at = "recover" => i2c'.back = "finish"
         /\ i2c'.at \in {"stop", "recover"} => i2c'.status # "OK"
         /\ i2c'.at = "finish" /\ i2c'.status = "OK" =>
              status = "OK" /\ i2c.call # "transaction"
         /\ i2c'.status \in {i2c.status, status}
<1>0. i2c \in I2cCallType BY DEF I2cInv, I2cTypes
<1>1. /\ i2c.back \in {"prepare", "start", "finish"}
      /\ i2c.back # "prepare" => i2c.call = "transaction"
      /\ i2c.back = "finish" => i2c.status # "OK"
  BY <1>0 DEF I2cInv, I2cWay, I2cCallType
<1>2. status \in I2cStatuses BY DEF I2cStatuses
<1>3. "finish" \in I2cPlaces /\ "begin" \in I2cPlaces BY DEF I2cPlaces, I2cRunning
<1>4. CASE i2c.back = "finish"
  <2>1. i2c' = [i2c EXCEPT !.at = "finish"] BY <1>4 DEF I2cRecovered
  <2> QED BY <1>0, <1>1, <1>3, <1>4, <2>1 DEF I2cCallType
<1>5. CASE i2c.back = "prepare" /\ status = "OK"
  <2>1. i2c' = I2cGoOn(i2c) BY <1>5 DEF I2cRecovered
  <2> QED BY <1>0, <1>5, <2>1, I2cGoOnIs
<1>6. CASE i2c.back = "start" /\ status = "OK"
  <2>1. i2c' = [i2c EXCEPT !.at = "begin"] BY <1>6 DEF I2cRecovered
  <2> QED BY <1>0, <1>1, <1>3, <1>6, <2>1 DEF I2cCallType
<1>7. CASE i2c.back \in {"prepare", "start"} /\ status # "OK"
  <2>1. i2c' = I2cFailed(i2c, status) BY <1>7 DEF I2cRecovered
  <2> QED BY <1>0, <1>2, <1>7, <2>1, I2cFailedIs
<1> QED BY <1>1, <1>4, <1>5, <1>6, <1>7

\* The recovery begins.
LEMMA I2cRecoverInv == I2cInv /\ I2cRecover => I2cInv'
<1> SUFFICES ASSUME I2cInv, I2cRecover PROVE I2cInv'
  OBVIOUS
<1>0. /\ i2c \in I2cCallType /\ i2cDev \in I2cDevType /\ i2c.at = "recover"
      /\ I2cReleased \in I2cLineType /\ UNCHANGED <<i2cDev, i2cLast>>
      /\ i2cLine' = I2cReleased /\ i2c' = [i2c EXCEPT !.at = "pulse", !.pulse = 0]
  BY DEF I2cInv, I2cTypes, I2cRecover, I2cReleased, I2cLineType
<1>1. /\ i2c' \in I2cCallType /\ i2c'.at = "pulse" /\ i2c'.pulse = 0
      /\ i2c'.call = i2c.call /\ i2c'.back = i2c.back /\ i2c'.status = i2c.status
      /\ i2c'.sawStuck = i2c.sawStuck /\ i2c'.expired = i2c.expired
      /\ i2c'.empty = i2c.empty
  <2>1. "pulse" \in I2cPlaces /\ 0 \in 0 .. I2cPulses
    BY I2cSizes DEF I2cPlaces, I2cRecovering
  <2> QED BY <1>0, <2>1 DEF I2cCallType
<1>2. I2cTypes' BY <1>0, <1>1 DEF I2cTypes
<1>3. I2cWay' BY <1>0, <1>1 DEF I2cInv, I2cWay, I2cRecovering, I2cRunning
<1>4. I2cHold' BY <1>0, <1>1, I2cSizes DEF I2cHold, I2cDevType
<1>5. I2cBlame' BY <1>0, <1>1 DEF I2cInv, I2cBlame
<1>6. I2cOutcome' BY <1>1 DEF I2cOutcome
<1>7. I2cFreed' BY <1>0, <1>1 DEF I2cInv, I2cFreed, I2cLoose, I2cRecovering
<1> QED BY <1>0, <1>1, <1>2, <1>3, <1>4, <1>5, <1>6, <1>7, I2cUnderWay

\* A clock of the recovery.
LEMMA I2cPulseInv == I2cInv /\ I2cPulse => I2cInv'
<1> SUFFICES ASSUME I2cInv, I2cPulse PROVE I2cInv'
  OBVIOUS
<1>0. /\ i2c \in I2cCallType /\ i2cDev \in I2cDevType /\ i2cLine \in I2cLineType
      /\ i2c.at = "pulse" /\ i2c.at \in I2cRecovering /\ UNCHANGED i2cLast
  BY DEF I2cInv, I2cTypes, I2cPulse, I2cRecovering
<1>1. PICK w \in I2cRaised(i2cLine, i2cDev) :
        IF ~w.ok THEN I2cRecovered("TIMEOUT") /\ i2cLine' = w.line /\ i2cDev' = w.dev
        ELSE IF I2cSda(w.line, w.dev)
          THEN i2c' = [i2c EXCEPT !.at = "close"] /\ i2cLine' = w.line /\ i2cDev' = w.dev
        ELSE /\ i2cLine' = [w.line EXCEPT !.scl = FALSE]
             /\ i2cDev' \in I2cFell(w.dev, "recover")
             /\ i2c' = [i2c EXCEPT !.pulse = @ + 1,
                                   !.at = IF i2c.pulse + 1 = I2cPulses THEN "close" ELSE "pulse"]
  BY DEF I2cPulse
<1>2. /\ w.ok \in BOOLEAN /\ w.line \in I2cLineType /\ w.dev \in I2cDevType
      /\ w.dev.hold = i2cDev.hold /\ w.dev.stuck = i2cDev.stuck
      /\ w.ok => ~w.dev.stretch
      /\ ~w.ok => i2c.expired \/ i2cDev.stretch
  BY <1>0, I2cRaisedIs
<1>3. /\ i2cDev.stuck => i2c.sawStuck
      /\ i2c.status = "BUS_LOCKED" =>
           \/ i2c.sawStuck \/ i2c.expired
           \/ /\ i2c.empty /\ i2c.call = "transaction" /\ ~i2cDev.stretch
              /\ i2c.back = "finish"
  BY <1>0 DEF I2cInv, I2cBlame, I2cFreed, I2cLoose
<1>4. CASE ~w.ok
  <2>1. I2cRecovered("TIMEOUT") /\ i2cLine' = w.line /\ i2cDev' = w.dev BY <1>1, <1>4
  <2>2. /\ i2c' \in I2cCallType /\ i2c'.call = i2c.call /\ i2c'.sawStuck = i2c.sawStuck
        /\ i2c'.expired = i2c.expired
        /\ i2c'.at \in {"finish", "run", "begin", "stop", "recover"}
        /\ i2c'.at # "finish" => i2c.call = "transaction"
        /\ i2c'.at = "recover" => i2c'.back = "finish"
        /\ i2c'.at \in {"stop", "recover"} => i2c'.status # "OK"
        /\ ~(i2c'.at = "finish" /\ i2c'.status = "OK")
        /\ i2c'.status \in {i2c.status, "TIMEOUT"}
    BY <1>0, <2>1, I2cRecoveredIs
  <2>3. I2cTypes' BY <1>2, <2>1, <2>2 DEF I2cTypes
  <2>4. I2cWay' BY <2>2 DEF I2cWay, I2cRunning, I2cRecovering
  <2>5. I2cHold' /\ I2cOutcome' BY <2>2 DEF I2cHold, I2cOutcome
  <2>6. I2cBlame' /\ I2cFreed' BY <1>2, <1>3, <1>4, <2>1, <2>2 DEF I2cBlame, I2cFreed
  <2>7. i2c'.at # "idle" BY <2>2
  <2> QED BY <1>0, <2>3, <2>4, <2>5, <2>6, <2>7, I2cUnderWay
<1>5. CASE w.ok
  <2>1. /\ i2c' \in I2cCallType /\ i2c'.at \in {"close", "pulse"}
        /\ i2c'.call = i2c.call /\ i2c'.back = i2c.back /\ i2c'.status = i2c.status
        /\ i2c'.sawStuck = i2c.sawStuck /\ i2c'.expired = i2c.expired
        /\ i2c'.empty = i2c.empty
        /\ i2cLine' \in I2cLineType /\ i2cDev' \in I2cDevType
        /\ i2cDev'.stuck = i2cDev.stuck /\ ~i2cDev'.stretch
        /\ i2c'.at = "close" => i2cDev'.hold = 0
        /\ i2c'.at = "pulse" =>
             i2c'.pulse < I2cPulses /\ i2cDev'.hold + i2c'.pulse <= I2cPulses
    <3>0. "close" \in I2cPlaces /\ "pulse" \in I2cPlaces BY DEF I2cPlaces, I2cRecovering
    <3>1. CASE I2cSda(w.line, w.dev)
      <4>1. i2c' = [i2c EXCEPT !.at = "close"] /\ i2cLine' = w.line /\ i2cDev' = w.dev
        BY <1>1, <1>5, <3>1
      <4>2. w.dev.hold = 0 BY <3>1 DEF I2cSda
      <4> QED BY <1>0, <1>2, <1>5, <3>0, <4>1, <4>2 DEF I2cCallType
    <3>2. CASE ~I2cSda(w.line, w.dev)
      <4>1. /\ i2cLine' = [w.line EXCEPT !.scl = FALSE]
            /\ i2cDev' \in I2cFell(w.dev, "recover")
            /\ i2c' = [i2c EXCEPT !.pulse = i2c.pulse + 1,
                            !.at = IF i2c.pulse + 1 = I2cPulses THEN "close" ELSE "pulse"]
        BY <1>1, <1>5, <3>2
      <4>2. /\ i2cDev' \in I2cDevType /\ i2cDev'.stuck = i2cDev.stuck
            /\ ~i2cDev'.stretch
            /\ i2cDev'.hold = IF i2cDev.hold = 0 THEN 0 ELSE i2cDev.hold - 1
        BY <1>2, <4>1, I2cFellIs
      <4>3. i2cLine' \in I2cLineType BY <1>2, <4>1 DEF I2cLineType
      <4>4. i2c.pulse < I2cPulses /\ i2cDev.hold + i2c.pulse <= I2cPulses
        BY <1>0 DEF I2cInv, I2cHold
      <4>5. i2c.pulse \in Nat /\ i2cDev.hold \in Nat BY <1>0 DEF I2cCallType, I2cDevType
      <4>6. i2c.pulse + 1 \in 0 .. I2cPulses BY <4>4, <4>5, I2cSizes
      <4>7. CASE i2c.pulse + 1 = I2cPulses
        <5>1. i2c' = [i2c EXCEPT !.pulse = i2c.pulse + 1, !.at = "close"] BY <4>1, <4>7
        <5>2. i2cDev'.hold = 0 BY <4>2, <4>4, <4>5, <4>7, I2cSizes
        <5> QED BY <1>0, <3>0, <4>2, <4>3, <4>6, <5>1, <5>2 DEF I2cCallType
      <4>8. CASE i2c.pulse + 1 # I2cPulses
        <5>1. i2c' = [i2c EXCEPT !.pulse = i2c.pulse + 1, !.at = "pulse"] BY <4>1, <4>8
        <5>2. i2c.pulse + 1 < I2cPulses /\ i2cDev'.hold + (i2c.pulse + 1) <= I2cPulses
          BY <4>2, <4>4, <4>5, <4>8, I2cSizes
        <5> QED BY <1>0, <3>0, <4>2, <4>3, <4>6, <5>1, <5>2 DEF I2cCallType
      <4> QED BY <4>7, <4>8
    <3> QED BY <3>1, <3>2
  <2>2. I2cTypes' BY <2>1 DEF I2cTypes
  <2>3. I2cWay' BY <1>0, <2>1 DEF I2cInv, I2cWay, I2cRecovering, I2cRunning
  <2>4. I2cHold' BY <2>1 DEF I2cHold
  <2>5. I2cBlame' /\ I2cFreed'
    BY <1>3, <2>1 DEF I2cBlame, I2cFreed, I2cLoose, I2cRecovering
  <2>6. I2cOutcome' /\ i2c'.at # "idle" BY <2>1 DEF I2cOutcome
  <2> QED BY <1>0, <2>2, <2>3, <2>4, <2>5, <2>6, I2cUnderWay
<1> QED BY <1>2, <1>4, <1>5

\* The STOP of the recovery.
LEMMA I2cCloseInv == I2cInv /\ I2cClose => I2cInv'
<1> SUFFICES ASSUME I2cInv, I2cClose PROVE I2cInv'
  OBVIOUS
<1>0. /\ i2c \in I2cCallType /\ i2cDev \in I2cDevType /\ i2cLine \in I2cLineType
      /\ i2c.at = "close" /\ i2c.at \in I2cRecovering /\ UNCHANGED i2cLast
      /\ I2cReleased \in I2cLineType
  BY DEF I2cInv, I2cTypes, I2cClose, I2cRecovering, I2cReleased, I2cLineType
<1> DEFINE dev(w) == I2cStopSeen([w.line EXCEPT !.sda = TRUE], w.dev)
           status(w) == IF ~w.ok THEN "TIMEOUT"
                        ELSE IF I2cSda(I2cReleased, dev(w)) THEN "OK" ELSE "BUS_LOCKED"
<1>1. PICK w \in I2cRaised([i2cLine EXCEPT !.sda = FALSE], i2cDev) :
        i2cDev' = dev(w) /\ i2cLine' = I2cReleased /\ I2cRecovered(status(w))
  BY DEF I2cClose
<1>2. PICK l \in I2cLineType : l = [i2cLine EXCEPT !.sda = FALSE]
  BY <1>0 DEF I2cLineType
<1>3. /\ w.ok \in BOOLEAN /\ w.line \in I2cLineType /\ w.dev \in I2cDevType
      /\ w.dev.hold = i2cDev.hold /\ w.dev.stuck = i2cDev.stuck
      /\ w.ok => ~w.dev.stretch /\ w.line.scl
      /\ ~w.ok => i2c.expired \/ i2cDev.stretch
  <2>1. w \in I2cRaised(l, i2cDev) BY <1>2
  <2> QED BY <1>0, <2>1, I2cRaisedIs
<1>4. /\ dev(w) \in I2cDevType /\ dev(w).stuck = i2cDev.stuck /\ dev(w).hold = 0
      /\ w.ok => ~dev(w).stretch
      /\ w.ok /\ ~i2cDev.stuck => ~dev(w).open
  <2>1. PICK k \in I2cLineType : k = [w.line EXCEPT !.sda = TRUE]
    BY <1>3 DEF I2cLineType
  <2>2. /\ dev(w) \in I2cDevType /\ dev(w).stuck = w.dev.stuck
        /\ dev(w).hold \in {0, w.dev.hold} /\ dev(w).stretch = w.dev.stretch
        /\ I2cScl(k, w.dev) /\ I2cSda(k, w.dev) => ~dev(w).open
    BY <1>3, <2>1, I2cStopSeenIs
  <2>3. i2cDev.hold = 0 BY <1>0 DEF I2cInv, I2cHold
  <2>4. k.sda /\ k.scl = w.line.scl BY <1>3, <2>1 DEF I2cLineType
  <2>5. w.ok /\ ~i2cDev.stuck => I2cScl(k, w.dev) /\ I2cSda(k, w.dev)
    BY <1>3, <2>3, <2>4 DEF I2cScl, I2cSda
  <2> HIDE DEF dev
  <2> QED BY <1>3, <2>2, <2>3, <2>5
<1> HIDE DEF dev
<1>5. /\ status(w) \in {"OK", "TIMEOUT", "BUS_LOCKED"}
      /\ status(w) = "OK" => w.ok
      /\ status(w) = "BUS_LOCKED" => ~I2cSda(I2cReleased, dev(w))
  BY <1>3
<1> HIDE DEF status
<1>6. /\ i2cDev.stuck => i2c.sawStuck
      /\ i2c.status = "BUS_LOCKED" =>
           \/ i2c.sawStuck \/ i2c.expired
           \/ /\ i2c.empty /\ i2c.call = "transaction" /\ ~i2cDev.stretch
              /\ i2c.back = "finish"
  BY <1>0 DEF I2cInv, I2cBlame, I2cFreed, I2cLoose
<1>7. status(w) = "BUS_LOCKED" => i2c.sawStuck
  <2>1. ~I2cSda(I2cReleased, dev(w)) => dev(w).stuck
    BY <1>4 DEF I2cSda, I2cReleased, I2cDevType
  <2> QED BY <1>4, <1>5, <1>6, <2>1
<1>8. /\ i2c' \in I2cCallType /\ i2c'.call = i2c.call /\ i2c'.sawStuck = i2c.sawStuck
      /\ i2c'.expired = i2c.expired
      /\ i2c.back = "finish" => i2c'.at = "finish" /\ i2c'.empty = i2c.empty
      /\ i2c'.at \in {"finish", "run", "begin", "stop", "recover"}
      /\ i2c'.at # "finish" => i2c.call = "transaction"
      /\ i2c'.at = "recover" => i2c'.back = "finish"
      /\ i2c'.at \in {"stop", "recover"} => i2c'.status # "OK"
      /\ i2c'.at = "finish" /\ i2c'.status = "OK" =>
           status(w) = "OK" /\ i2c.call # "transaction"
      /\ i2c'.status \in {i2c.status, status(w)}
  BY <1>0, <1>1, <1>5, I2cRecoveredIs
<1>9. I2cTypes' BY <1>0, <1>1, <1>4, <1>8 DEF I2cTypes
<1>10. I2cWay' BY <1>8 DEF I2cWay, I2cRunning, I2cRecovering
<1>11. I2cHold' BY <1>8 DEF I2cHold
<1>12. I2cOutcome' BY <1>1, <1>4, <1>5, <1>8 DEF I2cOutcome
<1>13. I2cBlame' BY <1>1, <1>4, <1>6, <1>8 DEF I2cBlame
<1>15. I2cFreed'
  <2>1. SUFFICES ASSUME i2c'.status = "BUS_LOCKED", ~i2c'.sawStuck, ~i2c'.expired
                 PROVE  I2cLoose'
    BY DEF I2cFreed
  <2>2. /\ i2c.empty /\ i2c.call = "transaction" /\ ~i2cDev.stretch
        /\ i2c.back = "finish"
    BY <1>6, <1>7, <1>8, <2>1
  <2>3. w.ok /\ ~i2cDev.stuck BY <1>3, <1>6, <1>8, <2>1, <2>2
  <2>4. /\ i2cDev'.hold = 0 /\ ~i2cDev'.stretch /\ ~i2cDev'.open
    BY <1>1, <1>4, <2>3
  <2>5. /\ i2c'.at = "finish" /\ i2c'.empty /\ i2c'.call = "transaction"
    BY <1>8, <2>2
  <2> QED BY <2>4, <2>5 DEF I2cLoose
<1>14. i2c'.at # "idle" BY <1>8
<1> QED BY <1>0, <1>9, <1>10, <1>11, <1>12, <1>13, <1>14, <1>15, I2cUnderWay

\* A call returns.
LEMMA I2cFinishInv == I2cInv /\ I2cFinish => I2cInv'
<1> SUFFICES ASSUME I2cInv, I2cFinish PROVE I2cInv'
  OBVIOUS
<1>0. /\ i2c \in I2cCallType /\ i2cDev \in I2cDevType /\ i2cLine \in I2cLineType
      /\ i2c.at = "finish" /\ UNCHANGED i2cDev /\ I2cReleased \in I2cLineType
  BY DEF I2cInv, I2cTypes, I2cFinish, I2cReleased, I2cLineType
<1> DEFINE line == IF i2c.call = "init" THEN i2cLine ELSE I2cReleased
           idle == I2cSda(line, i2cDev) /\ I2cScl(line, i2cDev)
           status == IF i2c.call = "sleep" /\ i2c.status = "OK" /\ ~idle
                       THEN "BUS_LOCKED" ELSE i2c.status
<1>1. /\ i2cLine' = line
      /\ i2cLast' = [call |-> i2c.call, status |-> status, closed |-> ~i2cDev.open,
                     idle |-> idle, empty |-> i2c.empty,
                     excused |-> i2c.expired \/ i2c.sawStuck]
      /\ i2c' = [i2c EXCEPT !.at = "idle", !.call = "none", !.todo = << >>,
                            !.started = FALSE, !.status = "OK", !.back = "none",
                            !.pulse = 0, !.empty = FALSE, !.expired = FALSE,
                            !.sawStuck = FALSE, !.configured = i2c.call # "init" \/ status = "OK"]
  BY DEF I2cFinish
<1>2. line \in I2cLineType BY <1>0
<1>3. /\ i2c.status = "OK" /\ i2c.call = "init" => i2cLine = I2cReleased
      /\ i2c.status = "OK" /\ i2c.call = "transaction" => ~i2cDev.open
      /\ i2c.status = "OK" /\ i2c.call = "sleep" => i2cDev.hold = 0 /\ ~i2cDev.stretch
      /\ i2cDev.stuck => i2c.sawStuck
      /\ i2c.status = "BUS_LOCKED" =>
           \/ i2c.sawStuck \/ i2c.expired
           \/ /\ i2c.empty /\ i2c.call = "transaction" /\ ~i2cDev.stretch
              /\ ~i2cDev.open /\ i2cDev.hold = 0
  BY <1>0 DEF I2cInv, I2cOutcome, I2cBlame, I2cFreed, I2cLoose
<1>4. i2c.call = "sleep" /\ i2c.status = "OK" /\ ~idle => i2cDev.stuck
  BY <1>0, <1>3 DEF I2cSda, I2cScl, I2cReleased, I2cDevType
<1>5. idle \in BOOLEAN BY DEF I2cSda, I2cScl
<1>14. (i2c.call = "transaction" /\ ~i2cDev.stretch /\ i2cDev.hold = 0
          /\ ~i2cDev.stuck) => idle
  BY DEF I2cSda, I2cScl, I2cReleased
<1> HIDE DEF idle
<1>6. /\ status = "BUS_LOCKED" =>
           i2c.sawStuck \/ i2c.expired \/ (i2c.empty /\ ~i2cDev.open /\ idle)
      /\ status = "OK" => i2c.status = "OK" /\ (i2c.call = "sleep" => idle)
  BY <1>3, <1>4, <1>14
<1> HIDE DEF status
<1>7. /\ i2c' \in I2cCallType /\ i2c'.at = "idle" /\ i2c'.status = "OK"
      /\ i2c'.configured = (i2c.call # "init" \/ status = "OK")
  <2>1. /\ "idle" \in I2cPlaces /\ "OK" \in I2cStatuses /\ 0 \in 0 .. I2cPulses
        /\ << >> \in Seq(I2cSteps) /\ (i2c.call # "init" \/ status = "OK") \in BOOLEAN
    BY I2cSizes, EmptySeq DEF I2cPlaces, I2cStatuses
  <2> QED BY <1>0, <1>1, <2>1 DEF I2cCallType
<1>8. I2cTypes' BY <1>0, <1>1, <1>2, <1>7 DEF I2cTypes
<1>9. I2cWay' /\ I2cHold' /\ I2cBlame' /\ I2cFreed'
  BY <1>7 DEF I2cWay, I2cHold, I2cBlame, I2cFreed, I2cRunning, I2cRecovering
<1>10. i2c'.configured => i2cLine' = I2cReleased BY <1>1, <1>3, <1>6, <1>7
<1> HIDE DEF line
<1>11. I2cOutcome' BY <1>7, <1>10 DEF I2cOutcome
<1>12. /\ i2cLast'.call = i2c.call /\ i2cLast'.status = status
       /\ i2cLast'.closed = ~i2cDev.open /\ i2cLast'.idle = idle
       /\ i2cLast'.empty = i2c.empty
       /\ i2cLast'.excused = (i2c.expired \/ i2c.sawStuck)
  BY <1>1
<1>13. BusIsReturned' BY <1>3, <1>6, <1>10, <1>12 DEF BusIsReturned
<1> QED BY <1>8, <1>9, <1>11, <1>13 DEF I2cInv

\* The deadline passes, or a device gets stuck or lets go.
LEMMA I2cSurroundingsInv ==
  I2cInv /\ (I2cDeadline \/ I2cStick \/ UNCHANGED i2cVars) => I2cInv'
<1>1. I2cInv /\ I2cDeadline => I2cInv'
  <2> SUFFICES ASSUME I2cInv, I2cDeadline PROVE I2cInv'
    OBVIOUS
  <2>0. /\ i2c \in I2cCallType /\ i2c' = [i2c EXCEPT !.expired = TRUE]
        /\ UNCHANGED <<i2cLine, i2cDev, i2cLast>> /\ i2c.at # "idle"
    BY DEF I2cInv, I2cTypes, I2cDeadline
  <2>1. /\ i2c' \in I2cCallType /\ i2c'.at = i2c.at /\ i2c'.call = i2c.call
        /\ i2c'.status = i2c.status /\ i2c'.back = i2c.back /\ i2c'.pulse = i2c.pulse
        /\ i2c'.sawStuck = i2c.sawStuck /\ i2c'.expired /\ i2c'.empty = i2c.empty
    BY <2>0 DEF I2cCallType
  <2>2. I2cTypes' BY <2>0, <2>1 DEF I2cInv, I2cTypes
  <2>3. I2cWay' /\ I2cHold' /\ I2cBlame'
    BY <2>0, <2>1 DEF I2cInv, I2cWay, I2cHold, I2cBlame
  <2>4. I2cOutcome' /\ I2cFreed' BY <2>0, <2>1 DEF I2cInv, I2cOutcome, I2cFreed
  <2> QED BY <2>0, <2>1, <2>2, <2>3, <2>4, I2cUnderWay
<1>2. I2cInv /\ I2cStick => I2cInv'
  <2> SUFFICES ASSUME I2cInv, I2cStick PROVE I2cInv'
    OBVIOUS
  <2>0. /\ i2c \in I2cCallType /\ i2cDev \in I2cDevType /\ i2cLine \in I2cLineType
        /\ i2c' = [i2c EXCEPT !.sawStuck = i2c.at # "idle"]
        /\ UNCHANGED <<i2cLine, i2cLast>>
    BY DEF I2cInv, I2cTypes, I2cStick
  <2>1. PICK d \in I2cDevType : d = [i2cDev EXCEPT !.stuck = ~@]
    BY <2>0 DEF I2cDevType
  <2>2. d.hold = i2cDev.hold /\ d.stretch = i2cDev.stretch /\ d.open = i2cDev.open
    BY <2>0, <2>1 DEF I2cDevType
  <2>3. i2cDev' = IF d.stuck THEN d ELSE I2cStopSeen(i2cLine, d) BY <2>1 DEF I2cStick
  <2>4. /\ i2cDev' \in I2cDevType /\ i2cDev'.stretch = i2cDev.stretch
        /\ i2cDev'.hold \in {0, i2cDev.hold} /\ (i2cDev'.open => i2cDev.open)
    <3>1. CASE d.stuck BY <2>2, <2>3, <3>1
    <3>2. CASE ~d.stuck BY <2>0, <2>2, <2>3, <3>2, I2cStopSeenIs
    <3> QED BY <3>1, <3>2
  <2>5. /\ i2c' \in I2cCallType /\ i2c'.at = i2c.at /\ i2c'.call = i2c.call
        /\ i2c'.status = i2c.status /\ i2c'.back = i2c.back /\ i2c'.pulse = i2c.pulse
        /\ i2c'.configured = i2c.configured /\ i2c'.sawStuck = (i2c.at # "idle")
        /\ i2c'.empty = i2c.empty
    <3>1. (i2c.at # "idle") \in BOOLEAN OBVIOUS
    <3> QED BY <2>0, <3>1 DEF I2cCallType
  <2>6. I2cTypes' BY <2>0, <2>4, <2>5 DEF I2cTypes
  <2>7. I2cWay' BY <2>5 DEF I2cInv, I2cWay
  <2>8. I2cHold'
    <3>1. i2cDev.hold \in Nat /\ i2c.pulse \in Nat BY <2>0 DEF I2cDevType, I2cCallType
    <3>2. i2cDev'.hold <= i2cDev.hold /\ i2cDev'.hold \in Nat BY <2>4, <3>1
    <3> QED BY <2>5, <3>1, <3>2, I2cSizes DEF I2cInv, I2cHold
  <2>9. I2cOutcome'
    <3>1. i2cDev.hold = 0 => i2cDev'.hold = 0 BY <2>4
    <3> QED BY <2>0, <2>4, <2>5, <3>1 DEF I2cInv, I2cOutcome
  <2>10. I2cBlame' /\ I2cFreed' BY <2>5 DEF I2cInv, I2cBlame, I2cFreed
  <2>11. BusIsReturned' BY <2>0, <2>5 DEF I2cInv, BusIsReturned
  <2> QED BY <2>6, <2>7, <2>8, <2>9, <2>10, <2>11 DEF I2cInv
<1>3. I2cInv /\ UNCHANGED i2cVars => I2cInv'
  <2> SUFFICES ASSUME I2cInv, UNCHANGED i2cVars PROVE I2cInv'
    OBVIOUS
  <2>1. I2cTypes' BY DEF I2cInv, I2cTypes, i2cVars
  <2>2. I2cWay' /\ I2cHold' /\ I2cBlame' /\ I2cFreed'
    BY DEF I2cInv, I2cWay, I2cHold, I2cBlame, I2cFreed, I2cLoose, i2cVars
  <2>3. I2cOutcome' /\ BusIsReturned' BY DEF I2cInv, I2cOutcome, BusIsReturned, i2cVars
  <2> QED BY <2>1, <2>2, <2>3 DEF I2cInv
<1> QED BY <1>1, <1>2, <1>3

\* The invariant of the I2C adapter, in every state.
THEOREM I2cInvHolds == I2cInit /\ [][I2cNext]_i2cVars => []I2cInv
<1>1. I2cInv /\ [I2cNext]_i2cVars => I2cInv'
  BY I2cEnterInv, I2cPrepareInv, I2cStartInv, I2cBeginInv, I2cClockInv, I2cStopInv,
     I2cRecoverInv, I2cPulseInv, I2cCloseInv, I2cFinishInv, I2cSurroundingsInv
  DEF I2cNext
<1> QED BY <1>1, I2cInitInv, PTL

\* However a call of the I2C adapter ends, the bus is given back: both lines
\* released, closed by a STOP after a successful transaction, idle when sleep
\* was granted.  It is reported locked only after a stuck device or the deadline,
\* by a call that never came to the bus, or by a read of no bytes, which leaves
\* the bus closed and idle nevertheless; for every number of the recovery's
\* clocks and every length of a transaction.
THEOREM BusIsAlwaysReturned == Spec => []BusIsReturned
<1>1. Init => I2cInit BY DEF Init
<1>2. [Next]_servicesVars => [I2cNext]_i2cVars BY DEF Next, servicesVars
<1>3. I2cInv => BusIsReturned BY DEF I2cInv
<1> QED BY <1>1, <1>2, <1>3, I2cInvHolds, PTL DEF Spec

-----------------------------------------------------------------------------
(* Telemetry. *)

TlStats ==
  [seen : Nat, sent : Nat, disconnected : Nat, limited : Nat, tx_seen : Nat,
   tx_rejected : Nat, tx_attempts : Nat, tx_ok : Nat, tx_failed : Nat]
TlNames == {"seen", "sent", "disconnected", "limited", "tx_seen",
            "tx_rejected", "tx_attempts", "tx_ok", "tx_failed"}
TlTicks == [TlKinds -> 0 .. TlMod - 1]
TlActor ==
  [connected : BOOLEAN, counter : 0 .. TlMod - 1, last : TlTicks, stats : TlStats]

TlTopics == TlKinds \cup {"tx"}

TlTypes ==
  /\ tl \in TlActor
  /\ tlAdapter \in [connected : BOOLEAN, attempts : Nat, ok : Nat, failed : Nat]
  /\ tlSession \in BOOLEAN /\ tlAccepted \in Nat
  /\ tlAge \in [TlKinds -> 0 .. TlMod]

TlPlaces ==
  \/ tlNow = TlIdle
  \/ tlNow = [step |-> "failed"]
  \/ tlNow \in [step : {"snapshot", "client", "OK", "STATE"}, for : TlTopics]

TlBusy == tlNow.step \in {"snapshot", "client", "OK", "STATE"}

\* 1 while telemetry, or a command, is being published.
TlPublishing == IF TlBusy /\ tlNow.for # "tx" THEN 1 ELSE 0
TlPublishingTx == IF TlBusy /\ tlNow.for = "tx" THEN 1 ELSE 0

\* The counters, with the publication in progress.
TlCounted ==
  /\ tl.stats.seen = tl.stats.sent + tl.stats.disconnected + tl.stats.limited
                          + TlPublishing
  /\ tl.stats.tx_seen = tl.stats.tx_rejected + tl.stats.tx_attempts
  /\ tl.stats.tx_attempts = tl.stats.tx_ok + tl.stats.tx_failed + TlPublishingTx
  /\ tlAdapter.attempts = tlAdapter.ok + tlAdapter.failed
                            + (IF tlNow.step = "client" THEN 1 ELSE 0)
  /\ tlAdapter.ok = tl.stats.sent + tl.stats.tx_ok
                      + (IF tlNow.step = "OK" THEN 1 ELSE 0)
  /\ tlAccepted = tlAdapter.ok

\* The age of the last message of a kind is what the counter says, less than a
\* lap after it; and what is being published was not limited.
TlAged ==
  \A k \in TlKinds :
    /\ tl.last[k] # TlNever /\ tlAge[k] < TlMod /\ ~(tlNow.step = "OK" /\ tlNow.for = k) =>
         tl.counter = WdWrap(TlMod, tl.last[k], tlAge[k])
    /\ tlNow.step \in {"snapshot", "client"} /\ tlNow.for = k =>
         tlAge[k] >= TlInterval \/ tl.last[k] = TlNever
    /\ tlNow.step = "OK" /\ tlNow.for = k => tlAge[k] = 0

TlInv == TlTypes /\ TlPlaces /\ TlCounted /\ TlAged

\* The sizes of the telemetry model: the counter and the rate limit.
LEMMA TlSizes ==
  /\ TlMod \in Nat /\ TlInterval \in Nat /\ TlInterval > 0 /\ TlMod > TlInterval
  /\ "tx" \notin TlKinds
  BY TlAssumption

\* A counter goes up by one and the rest stays.
LEMMA TlCountIs ==
  ASSUME NEW c \in TlActor,
         NEW f \in TlNames
  PROVE  /\ TlCount(c, f) \in TlActor
         /\ TlCount(c, f).counter = c.counter /\ TlCount(c, f).last = c.last
         /\ TlCount(c, f).stats = [c.stats EXCEPT ![f] = @ + 1]
<1>1. TlCount(c, f).stats = [c.stats EXCEPT ![f] = @ + 1] BY DEF TlCount, TlActor
<1>2. c.stats \in TlStats BY DEF TlActor
<1>3. c.stats[f] + 1 \in Nat BY <1>2 DEF TlStats, TlNames
<1>4. [c.stats EXCEPT ![f] = @ + 1] \in TlStats BY <1>2, <1>3 DEF TlStats, TlNames
<1> QED BY <1>1, <1>4 DEF TlCount, TlActor

\* What the counter says of the age of a message less than a lap old.
LEMMA TlElapsed ==
  ASSUME NEW a \in 0 .. TlMod - 1, NEW b \in 0 .. TlMod - 1
  PROVE  (WdWrap(TlMod, a, b) - a + TlMod) % TlMod = b
<1>0. TlMod \in Nat /\ TlMod > 0 BY TlSizes
<1>1. CASE a + b < TlMod
  <2>1. WdWrap(TlMod, a, b) - a + TlMod = b + TlMod BY <1>0, <1>1 DEF WdWrap
  <2>2. (b + TlMod) % TlMod = b BY <1>0
  <2> QED BY <2>1, <2>2
<1>2. CASE ~(a + b < TlMod)
  <2>1. WdWrap(TlMod, a, b) - a + TlMod = b BY <1>0, <1>2 DEF WdWrap
  <2>2. b % TlMod = b BY <1>0
  <2> QED BY <2>1, <2>2
<1> QED BY <1>1, <1>2

\* The next tick.
LEMMA TlTicked ==
  ASSUME NEW a \in 0 .. TlMod - 1, NEW b \in 0 .. TlMod - 1, b + 1 < TlMod
  PROVE  (WdWrap(TlMod, a, b) + 1) % TlMod = WdWrap(TlMod, a, b + 1)
<1>0. TlMod \in Nat /\ TlMod > 1 BY TlSizes
<1>3. WdWrap(TlMod, a, b) \in 0 .. TlMod - 1 BY <1>0 DEF WdWrap
<1>1. PICK x \in 0 .. TlMod - 1 : x = WdWrap(TlMod, a, b) BY <1>3
<1>2. (x + 1) % TlMod = IF x + 1 < TlMod THEN x + 1 ELSE 0
  <2>1. CASE x + 1 < TlMod BY <1>0, <2>1
  <2>2. CASE ~(x + 1 < TlMod)
    <3>1. x + 1 = TlMod BY <1>0, <2>2
    <3>2. TlMod % TlMod = 0 BY <1>0
    <3> QED BY <2>2, <3>1, <3>2
  <2> QED BY <2>1, <2>2
<1> QED BY <1>0, <1>1, <1>2 DEF WdWrap

\* ev_network_telemetry_rate_limited, by the age of the last message.
LEMMA TlLimitedIs ==
  ASSUME TlInv, tlNow = TlIdle, NEW k \in TlKinds
  PROVE  /\ TlLimited(k) => tlAge[k] < TlInterval \/ tlAge[k] = TlMod
         /\ ~TlLimited(k) => tlAge[k] >= TlInterval \/ tl.last[k] = TlNever
<1>1. /\ tl.last[k] \in 0 .. TlMod - 1 /\ tlAge[k] \in 0 .. TlMod
  BY DEF TlInv, TlTypes, TlActor, TlTicks
<1>2. CASE tl.last[k] = TlNever BY <1>2 DEF TlLimited
<1>3. CASE tl.last[k] # TlNever /\ tlAge[k] = TlMod
  BY <1>1, <1>3, TlSizes DEF TlLimited
<1>4. CASE tl.last[k] # TlNever /\ tlAge[k] # TlMod
  <2>1. tlAge[k] \in 0 .. TlMod - 1 BY <1>1, <1>4, TlSizes
  <2>2. tlNow.step # "OK" BY DEF TlIdle
  <2>3. tl.counter = WdWrap(TlMod, tl.last[k], tlAge[k])
    BY <1>4, <2>1, <2>2, TlSizes DEF TlInv, TlAged
  <2>4. (tl.counter - tl.last[k] + TlMod) % TlMod = tlAge[k]
    BY <1>1, <2>1, <2>3, TlElapsed
  <2>5. TlLimited(k) <=> tlAge[k] < TlInterval BY <1>4, <2>4 DEF TlLimited
  <2> QED BY <2>1, <2>5, TlSizes
<1> QED BY <1>2, <1>3, <1>4

\* The actor is initialised.
LEMMA TlFresh == TlInit => TlInv
<1> SUFFICES ASSUME TlInit PROVE TlInv
  OBVIOUS
<1>0. /\ tl = [connected |-> FALSE, counter |-> 0, last |-> [k \in TlKinds |-> TlNever],
               stats |-> TlCounters]
      /\ tlAdapter = [connected |-> FALSE, attempts |-> 0, ok |-> 0, failed |-> 0]
      /\ tlSession = FALSE /\ tlNow = TlIdle /\ tlAccepted = 0
      /\ tlAge = [k \in TlKinds |-> TlMod]
  BY DEF TlInit
<1>1. tl \in TlActor
  <2>1. TlNever \in 0 .. TlMod - 1 /\ 0 \in 0 .. TlMod - 1 BY TlSizes DEF TlNever
  <2>2. TlCounters \in TlStats BY DEF TlCounters, TlStats
  <2> QED BY <1>0, <2>1, <2>2 DEF TlActor, TlTicks
<1>6. tlAge \in [TlKinds -> 0 .. TlMod] BY <1>0, TlSizes
<1>7. tlAdapter \in [connected : BOOLEAN, attempts : Nat, ok : Nat, failed : Nat]
  BY <1>0
<1>2. TlTypes BY <1>0, <1>1, <1>6, <1>7 DEF TlTypes
<1>3. TlPlaces BY <1>0 DEF TlPlaces
<1>4. TlCounted
  BY <1>0 DEF TlCounted, TlPublishing, TlPublishingTx, TlBusy, TlIdle, TlCounters
<1>5. TlAged BY <1>0, TlSizes DEF TlAged, TlIdle
<1> QED BY <1>2, <1>3, <1>4, <1>5 DEF TlInv

\* The MQTT task and the news of the link.
LEMMA TlLinkInv ==
  TlInv /\ (TlSessionChanges \/ TlFlagFollows \/ TlLinkHeard \/ UNCHANGED tlVars) => TlInv'
<1> SUFFICES ASSUME TlInv,
                    TlSessionChanges \/ TlFlagFollows \/ TlLinkHeard \/ UNCHANGED tlVars
             PROVE  TlInv'
  OBVIOUS
<1>0. TlTypes /\ TlPlaces /\ TlCounted /\ TlAged BY DEF TlInv
<1>1. /\ UNCHANGED <<tlNow, tlAccepted, tlAge>>
      /\ tl' \in TlActor /\ tl'.counter = tl.counter /\ tl'.last = tl.last
      /\ tl'.stats = tl.stats
      /\ tlAdapter' \in [connected : BOOLEAN, attempts : Nat, ok : Nat, failed : Nat]
      /\ tlAdapter'.attempts = tlAdapter.attempts /\ tlAdapter'.ok = tlAdapter.ok
      /\ tlAdapter'.failed = tlAdapter.failed /\ tlSession' \in BOOLEAN
  <2>1. CASE TlSessionChanges
    <3>1. (~tlSession) \in BOOLEAN OBVIOUS
    <3> QED BY <1>0, <2>1, <3>1 DEF TlSessionChanges, TlTypes
  <2>2. CASE TlFlagFollows BY <1>0, <2>2 DEF TlFlagFollows, TlTypes
  <2>3. CASE TlLinkHeard
    <3>1. (~tl.connected) \in BOOLEAN OBVIOUS
    <3>2. tl' = [tl EXCEPT !.connected = ~tl.connected] BY <2>3 DEF TlLinkHeard
    <3>3. UNCHANGED <<tlAdapter, tlSession, tlNow, tlAccepted, tlAge>>
      BY <2>3 DEF TlLinkHeard
    <3> QED BY <1>0, <3>1, <3>2, <3>3 DEF TlTypes, TlActor
  <2>4. CASE UNCHANGED tlVars BY <1>0, <2>4 DEF tlVars, TlTypes
  <2> QED BY <2>1, <2>2, <2>3, <2>4
<1>2. TlTypes' BY <1>0, <1>1 DEF TlTypes
<1>3. TlPlaces' BY <1>0, <1>1 DEF TlPlaces
<1>4. TlCounted' BY <1>0, <1>1 DEF TlCounted, TlPublishing, TlPublishingTx, TlBusy
<1>5. TlAged' BY <1>0, <1>1 DEF TlAged
<1> QED BY <1>2, <1>3, <1>4, <1>5 DEF TlInv

\* EV_TICK_1S
LEMMA TlTickInv == TlInv /\ TlTick => TlInv'
<1> SUFFICES ASSUME TlInv, TlTick PROVE TlInv'
  OBVIOUS
<1>0. TlTypes /\ TlPlaces /\ TlCounted /\ TlAged BY DEF TlInv
<1>1. /\ tl' = [tl EXCEPT !.counter = (tl.counter + 1) % TlMod]
      /\ tlAge' = [k \in TlKinds |-> IF tlAge[k] < TlMod THEN tlAge[k] + 1 ELSE TlMod]
      /\ UNCHANGED <<tlAdapter, tlSession, tlNow, tlAccepted>> /\ tlNow = TlIdle
  BY DEF TlTick
<1>2. (tl.counter + 1) % TlMod \in 0 .. TlMod - 1 BY <1>0, TlSizes DEF TlTypes, TlActor
<1>3. /\ tl' \in TlActor /\ tl'.counter = (tl.counter + 1) % TlMod
      /\ tl'.last = tl.last /\ tl'.stats = tl.stats
  BY <1>0, <1>1, <1>2 DEF TlTypes, TlActor
<1>4. tlAge' \in [TlKinds -> 0 .. TlMod]
  BY <1>0, <1>1, TlSizes DEF TlTypes
<1>5. TlTypes' BY <1>0, <1>1, <1>3, <1>4 DEF TlTypes
<1>6. TlPlaces' BY <1>1 DEF TlPlaces
<1>7. TlCounted' BY <1>0, <1>1, <1>3 DEF TlCounted, TlPublishing, TlPublishingTx, TlBusy
<1>8. tlNow'.step = "idle" BY <1>1 DEF TlIdle
<1>9. ASSUME NEW k \in TlKinds, tl.last[k] # TlNever, tlAge'[k] < TlMod
      PROVE  tl'.counter = WdWrap(TlMod, tl.last[k], tlAge'[k])
  <2>1. tl.last[k] \in 0 .. TlMod - 1 /\ tlAge[k] \in 0 .. TlMod
    BY <1>0 DEF TlTypes, TlActor, TlTicks
  <2>2. tlAge'[k] = tlAge[k] + 1 /\ tlAge[k] \in 0 .. TlMod - 1
    BY <1>1, <1>9, <2>1, TlSizes
  <2>3. tlNow.step # "OK" BY <1>1 DEF TlIdle
  <2>4. tl.counter = WdWrap(TlMod, tl.last[k], tlAge[k])
    BY <1>0, <1>9, <2>2, <2>3, TlSizes DEF TlAged
  <2>5. tlAge[k] + 1 < TlMod BY <1>9, <2>2
  <2> QED BY <1>3, <2>1, <2>2, <2>4, <2>5, TlTicked
<1>10. TlAged' BY <1>3, <1>8, <1>9 DEF TlAged
<1> QED BY <1>5, <1>6, <1>7, <1>10 DEF TlInv

\* The counters are numbers.
LEMMA TlFieldsAre ==
  ASSUME NEW c \in TlActor
  PROVE  /\ c.stats.seen \in Nat
         /\ c.stats.sent \in Nat
         /\ c.stats.disconnected \in Nat
         /\ c.stats.limited \in Nat
         /\ c.stats.tx_seen \in Nat
         /\ c.stats.tx_rejected \in Nat
         /\ c.stats.tx_attempts \in Nat
         /\ c.stats.tx_ok \in Nat
         /\ c.stats.tx_failed \in Nat
<1>1. c.stats \in TlStats BY DEF TlActor
<1> QED BY <1>1 DEF TlStats

\* The adapter's counters are numbers.
LEMMA TlAdapterIs ==
  ASSUME NEW a \in [connected : BOOLEAN, attempts : Nat, ok : Nat, failed : Nat]
  PROVE  a.attempts \in Nat /\ a.ok \in Nat /\ a.failed \in Nat
  OBVIOUS

\* Whether it is this counter that goes up.
TlOne(f, g) == IF f = g THEN 1 ELSE 0

\* What counting does to each counter.
LEMMA TlCounts ==
  ASSUME NEW c \in TlActor, NEW f \in TlNames
  PROVE  /\ TlCount(c, f) \in TlActor /\ TlCount(c, f).counter = c.counter
         /\ TlCount(c, f).last = c.last
         /\ TlCount(c, f).stats.seen = c.stats.seen + TlOne(f, "seen")
         /\ TlCount(c, f).stats.sent = c.stats.sent + TlOne(f, "sent")
         /\ TlCount(c, f).stats.disconnected = c.stats.disconnected + TlOne(f, "disconnected")
         /\ TlCount(c, f).stats.limited = c.stats.limited + TlOne(f, "limited")
         /\ TlCount(c, f).stats.tx_seen = c.stats.tx_seen + TlOne(f, "tx_seen")
         /\ TlCount(c, f).stats.tx_rejected = c.stats.tx_rejected + TlOne(f, "tx_rejected")
         /\ TlCount(c, f).stats.tx_attempts = c.stats.tx_attempts + TlOne(f, "tx_attempts")
         /\ TlCount(c, f).stats.tx_ok = c.stats.tx_ok + TlOne(f, "tx_ok")
         /\ TlCount(c, f).stats.tx_failed = c.stats.tx_failed + TlOne(f, "tx_failed")
<1>1. c.stats \in TlStats BY DEF TlActor
<1>2. TlCount(c, f).stats = [c.stats EXCEPT ![f] = @ + 1] BY TlCountIs
<1>3. TlCount(c, f).stats.seen = c.stats.seen + TlOne(f, "seen")
  BY <1>1, <1>2, TlFieldsAre DEF TlStats, TlNames, TlOne
<1>4. TlCount(c, f).stats.sent = c.stats.sent + TlOne(f, "sent")
  BY <1>1, <1>2, TlFieldsAre DEF TlStats, TlNames, TlOne
<1>5. TlCount(c, f).stats.disconnected = c.stats.disconnected + TlOne(f, "disconnected")
  BY <1>1, <1>2, TlFieldsAre DEF TlStats, TlNames, TlOne
<1>6. TlCount(c, f).stats.limited = c.stats.limited + TlOne(f, "limited")
  BY <1>1, <1>2, TlFieldsAre DEF TlStats, TlNames, TlOne
<1>7. TlCount(c, f).stats.tx_seen = c.stats.tx_seen + TlOne(f, "tx_seen")
  BY <1>1, <1>2, TlFieldsAre DEF TlStats, TlNames, TlOne
<1>8. TlCount(c, f).stats.tx_rejected = c.stats.tx_rejected + TlOne(f, "tx_rejected")
  BY <1>1, <1>2, TlFieldsAre DEF TlStats, TlNames, TlOne
<1>9. TlCount(c, f).stats.tx_attempts = c.stats.tx_attempts + TlOne(f, "tx_attempts")
  BY <1>1, <1>2, TlFieldsAre DEF TlStats, TlNames, TlOne
<1>10. TlCount(c, f).stats.tx_ok = c.stats.tx_ok + TlOne(f, "tx_ok")
  BY <1>1, <1>2, TlFieldsAre DEF TlStats, TlNames, TlOne
<1>11. TlCount(c, f).stats.tx_failed = c.stats.tx_failed + TlOne(f, "tx_failed")
  BY <1>1, <1>2, TlFieldsAre DEF TlStats, TlNames, TlOne
<1> QED BY TlCountIs, <1>3, <1>4, <1>5, <1>6, <1>7, <1>8, <1>9, <1>10, <1>11

\* A step that leaves the ages, the adapter and what was accepted alone, by what
\* it does to the counters.
LEMMA TlGivenInv ==
  TlInv /\ ((\E k \in TlKinds : TlMeasured(k)) \/ TlTransmit) => TlInv'
<1> SUFFICES ASSUME TlInv, (\E k \in TlKinds : TlMeasured(k)) \/ TlTransmit PROVE TlInv'
  OBVIOUS
<1>0. TlTypes /\ TlPlaces /\ TlCounted /\ TlAged BY DEF TlInv
<1>1. /\ UNCHANGED <<tlAdapter, tlSession, tlAccepted, tlAge>> /\ tlNow = TlIdle
      /\ tl \in TlActor /\ tlAccepted \in Nat
      /\ tlAdapter \in [connected : BOOLEAN, attempts : Nat, ok : Nat, failed : Nat]
  BY <1>0 DEF TlMeasured, TlTransmit, TlTypes
<1>2. /\ tlNow.step = "idle" /\ TlPublishingTx = 0 /\ TlPublishing = 0
  BY <1>1 DEF TlIdle, TlPublishing, TlPublishingTx, TlBusy
<1>3. TlNames = {"seen", "sent", "disconnected", "limited", "tx_seen",
                 "tx_rejected", "tx_attempts", "tx_ok", "tx_failed"}
  BY DEF TlNames
<1>9. /\ tl.stats.seen \in Nat /\ tl.stats.sent \in Nat /\ tl.stats.disconnected \in Nat
      /\ tl.stats.limited \in Nat /\ tl.stats.tx_seen \in Nat /\ tl.stats.tx_rejected \in Nat
      /\ tl.stats.tx_attempts \in Nat /\ tl.stats.tx_ok \in Nat /\ tl.stats.tx_failed \in Nat
      /\ tlAdapter.attempts \in Nat /\ tlAdapter.ok \in Nat /\ tlAdapter.failed \in Nat
  BY <1>1, TlFieldsAre, TlAdapterIs
<1>10. /\ tl.stats.seen = tl.stats.sent + tl.stats.disconnected + tl.stats.limited
       /\ tl.stats.tx_seen = tl.stats.tx_rejected + tl.stats.tx_attempts
       /\ tl.stats.tx_attempts = tl.stats.tx_ok + tl.stats.tx_failed
       /\ tlAdapter.attempts = tlAdapter.ok + tlAdapter.failed
       /\ tlAdapter.ok = tl.stats.sent + tl.stats.tx_ok /\ tlAccepted = tlAdapter.ok
  BY <1>0, <1>2, <1>9 DEF TlCounted
<1>4. CASE tl' = TlCount(TlCount(tl, "seen"), "disconnected") /\ tlNow' = tlNow
  <2>2. tl' \in TlActor /\ tl'.counter = tl.counter /\ tl'.last = tl.last
    <3>1. PICK c \in TlActor : c = TlCount(tl, "seen") BY <1>1, <1>3, TlCounts
    <3> QED BY <1>1, <1>3, <1>4, <3>1, TlCounts
  <2>3. /\ tl'.stats.seen = tl.stats.seen + 1
        /\ tl'.stats.sent = tl.stats.sent
        /\ tl'.stats.disconnected = tl.stats.disconnected + 1
        /\ tl'.stats.limited = tl.stats.limited
        /\ tl'.stats.tx_seen = tl.stats.tx_seen
        /\ tl'.stats.tx_rejected = tl.stats.tx_rejected
        /\ tl'.stats.tx_attempts = tl.stats.tx_attempts
        /\ tl'.stats.tx_ok = tl.stats.tx_ok
        /\ tl'.stats.tx_failed = tl.stats.tx_failed
    <3>1. PICK c \in TlActor : c = TlCount(tl, "seen") BY <1>1, <1>3, TlCounts
    <3>2. /\ c.stats.seen = tl.stats.seen + 1
          /\ c.stats.sent = tl.stats.sent
          /\ c.stats.disconnected = tl.stats.disconnected
          /\ c.stats.limited = tl.stats.limited
          /\ c.stats.tx_seen = tl.stats.tx_seen
          /\ c.stats.tx_rejected = tl.stats.tx_rejected
          /\ c.stats.tx_attempts = tl.stats.tx_attempts
          /\ c.stats.tx_ok = tl.stats.tx_ok
          /\ c.stats.tx_failed = tl.stats.tx_failed
      BY <1>1, <1>3, <3>1, TlCounts, TlFieldsAre DEF TlOne
    <3>3. /\ tl'.stats.seen = c.stats.seen
          /\ tl'.stats.sent = c.stats.sent
          /\ tl'.stats.disconnected = c.stats.disconnected + 1
          /\ tl'.stats.limited = c.stats.limited
          /\ tl'.stats.tx_seen = c.stats.tx_seen
          /\ tl'.stats.tx_rejected = c.stats.tx_rejected
          /\ tl'.stats.tx_attempts = c.stats.tx_attempts
          /\ tl'.stats.tx_ok = c.stats.tx_ok
          /\ tl'.stats.tx_failed = c.stats.tx_failed
      BY <1>3, <1>4, <3>1, TlCounts, TlFieldsAre DEF TlOne
    <3> QED BY <3>2, <3>3
  <2>4. TlTypes' /\ TlPlaces' BY <1>0, <1>1, <1>4, <2>2 DEF TlTypes, TlPlaces
  <2>5. tlNow'.step = "idle" /\ TlPublishingTx' = 0 /\ TlPublishing' = 0
    BY <1>1, <1>4 DEF TlIdle, TlPublishing, TlPublishingTx, TlBusy
  <2>6. TlCounted'
    <3>1. UNCHANGED <<tlAdapter, tlAccepted>> BY <1>1
    <3> QED BY <1>9, <1>10, <2>3, <2>5, <3>1 DEF TlCounted
  <2>7. TlAged' BY <1>0, <1>1, <1>4, <2>2 DEF TlAged
  <2> QED BY <2>4, <2>6, <2>7 DEF TlInv
<1>5. CASE tl' = TlCount(TlCount(tl, "seen"), "limited") /\ tlNow' = tlNow
  <2>2. tl' \in TlActor /\ tl'.counter = tl.counter /\ tl'.last = tl.last
    <3>1. PICK c \in TlActor : c = TlCount(tl, "seen") BY <1>1, <1>3, TlCounts
    <3> QED BY <1>1, <1>3, <1>5, <3>1, TlCounts
  <2>3. /\ tl'.stats.seen = tl.stats.seen + 1
        /\ tl'.stats.sent = tl.stats.sent
        /\ tl'.stats.disconnected = tl.stats.disconnected
        /\ tl'.stats.limited = tl.stats.limited + 1
        /\ tl'.stats.tx_seen = tl.stats.tx_seen
        /\ tl'.stats.tx_rejected = tl.stats.tx_rejected
        /\ tl'.stats.tx_attempts = tl.stats.tx_attempts
        /\ tl'.stats.tx_ok = tl.stats.tx_ok
        /\ tl'.stats.tx_failed = tl.stats.tx_failed
    <3>1. PICK c \in TlActor : c = TlCount(tl, "seen") BY <1>1, <1>3, TlCounts
    <3>2. /\ c.stats.seen = tl.stats.seen + 1
          /\ c.stats.sent = tl.stats.sent
          /\ c.stats.disconnected = tl.stats.disconnected
          /\ c.stats.limited = tl.stats.limited
          /\ c.stats.tx_seen = tl.stats.tx_seen
          /\ c.stats.tx_rejected = tl.stats.tx_rejected
          /\ c.stats.tx_attempts = tl.stats.tx_attempts
          /\ c.stats.tx_ok = tl.stats.tx_ok
          /\ c.stats.tx_failed = tl.stats.tx_failed
      BY <1>1, <1>3, <3>1, TlCounts, TlFieldsAre DEF TlOne
    <3>3. /\ tl'.stats.seen = c.stats.seen
          /\ tl'.stats.sent = c.stats.sent
          /\ tl'.stats.disconnected = c.stats.disconnected
          /\ tl'.stats.limited = c.stats.limited + 1
          /\ tl'.stats.tx_seen = c.stats.tx_seen
          /\ tl'.stats.tx_rejected = c.stats.tx_rejected
          /\ tl'.stats.tx_attempts = c.stats.tx_attempts
          /\ tl'.stats.tx_ok = c.stats.tx_ok
          /\ tl'.stats.tx_failed = c.stats.tx_failed
      BY <1>3, <1>5, <3>1, TlCounts, TlFieldsAre DEF TlOne
    <3> QED BY <3>2, <3>3
  <2>4. TlTypes' /\ TlPlaces' BY <1>0, <1>1, <1>5, <2>2 DEF TlTypes, TlPlaces
  <2>5. tlNow'.step = "idle" /\ TlPublishingTx' = 0 /\ TlPublishing' = 0
    BY <1>1, <1>5 DEF TlIdle, TlPublishing, TlPublishingTx, TlBusy
  <2>6. TlCounted'
    <3>1. UNCHANGED <<tlAdapter, tlAccepted>> BY <1>1
    <3> QED BY <1>9, <1>10, <2>3, <2>5, <3>1 DEF TlCounted
  <2>7. TlAged' BY <1>0, <1>1, <1>5, <2>2 DEF TlAged
  <2> QED BY <2>4, <2>6, <2>7 DEF TlInv
<1>6. CASE tl' = TlCount(TlCount(tl, "tx_seen"), "tx_rejected") /\ tlNow' = tlNow
  <2>2. tl' \in TlActor /\ tl'.counter = tl.counter /\ tl'.last = tl.last
    <3>1. PICK c \in TlActor : c = TlCount(tl, "tx_seen") BY <1>1, <1>3, TlCounts
    <3> QED BY <1>1, <1>3, <1>6, <3>1, TlCounts
  <2>3. /\ tl'.stats.seen = tl.stats.seen
        /\ tl'.stats.sent = tl.stats.sent
        /\ tl'.stats.disconnected = tl.stats.disconnected
        /\ tl'.stats.limited = tl.stats.limited
        /\ tl'.stats.tx_seen = tl.stats.tx_seen + 1
        /\ tl'.stats.tx_rejected = tl.stats.tx_rejected + 1
        /\ tl'.stats.tx_attempts = tl.stats.tx_attempts
        /\ tl'.stats.tx_ok = tl.stats.tx_ok
        /\ tl'.stats.tx_failed = tl.stats.tx_failed
    <3>1. PICK c \in TlActor : c = TlCount(tl, "tx_seen") BY <1>1, <1>3, TlCounts
    <3>2. /\ c.stats.seen = tl.stats.seen
          /\ c.stats.sent = tl.stats.sent
          /\ c.stats.disconnected = tl.stats.disconnected
          /\ c.stats.limited = tl.stats.limited
          /\ c.stats.tx_seen = tl.stats.tx_seen + 1
          /\ c.stats.tx_rejected = tl.stats.tx_rejected
          /\ c.stats.tx_attempts = tl.stats.tx_attempts
          /\ c.stats.tx_ok = tl.stats.tx_ok
          /\ c.stats.tx_failed = tl.stats.tx_failed
      BY <1>1, <1>3, <3>1, TlCounts, TlFieldsAre DEF TlOne
    <3>3. /\ tl'.stats.seen = c.stats.seen
          /\ tl'.stats.sent = c.stats.sent
          /\ tl'.stats.disconnected = c.stats.disconnected
          /\ tl'.stats.limited = c.stats.limited
          /\ tl'.stats.tx_seen = c.stats.tx_seen
          /\ tl'.stats.tx_rejected = c.stats.tx_rejected + 1
          /\ tl'.stats.tx_attempts = c.stats.tx_attempts
          /\ tl'.stats.tx_ok = c.stats.tx_ok
          /\ tl'.stats.tx_failed = c.stats.tx_failed
      BY <1>3, <1>6, <3>1, TlCounts, TlFieldsAre DEF TlOne
    <3> QED BY <3>2, <3>3
  <2>4. TlTypes' /\ TlPlaces' BY <1>0, <1>1, <1>6, <2>2 DEF TlTypes, TlPlaces
  <2>5. tlNow'.step = "idle" /\ TlPublishingTx' = 0 /\ TlPublishing' = 0
    BY <1>1, <1>6 DEF TlIdle, TlPublishing, TlPublishingTx, TlBusy
  <2>6. TlCounted'
    <3>1. UNCHANGED <<tlAdapter, tlAccepted>> BY <1>1
    <3> QED BY <1>9, <1>10, <2>3, <2>5, <3>1 DEF TlCounted
  <2>7. TlAged' BY <1>0, <1>1, <1>6, <2>2 DEF TlAged
  <2> QED BY <2>4, <2>6, <2>7 DEF TlInv
<1>7. CASE \E k \in TlKinds : /\ ~TlLimited(k) /\ tl' = TlCount(tl, "seen")
                              /\ tlNow' = [step |-> "snapshot", for |-> k]
  <2>1. PICK k \in TlKinds : /\ ~TlLimited(k) /\ tl' = TlCount(tl, "seen")
                             /\ tlNow' = [step |-> "snapshot", for |-> k]
    BY <1>7
  <2>2. tl' \in TlActor /\ tl'.counter = tl.counter /\ tl'.last = tl.last
    BY <1>1, <1>3, <2>1, TlCounts
  <2>3. /\ tl'.stats.seen = tl.stats.seen + 1
        /\ tl'.stats.sent = tl.stats.sent
        /\ tl'.stats.disconnected = tl.stats.disconnected
        /\ tl'.stats.limited = tl.stats.limited
        /\ tl'.stats.tx_seen = tl.stats.tx_seen
        /\ tl'.stats.tx_rejected = tl.stats.tx_rejected
        /\ tl'.stats.tx_attempts = tl.stats.tx_attempts
        /\ tl'.stats.tx_ok = tl.stats.tx_ok
        /\ tl'.stats.tx_failed = tl.stats.tx_failed
    BY <1>1, <1>3, <2>1, TlCounts, TlFieldsAre DEF TlOne
  <2>4. TlTypes' /\ TlPlaces'
    <3>1. tlNow' \in [step : {"snapshot", "client", "OK", "STATE"}, for : TlTopics]
      BY <2>1 DEF TlTopics
    <3> QED BY <1>0, <1>1, <2>2, <3>1 DEF TlTypes, TlPlaces
  <2>5. /\ tlNow'.step = "snapshot" /\ tlNow'.for = k
        /\ TlPublishingTx' = 0 /\ TlPublishing' = 1
    BY <2>1, TlSizes DEF TlPublishing, TlPublishingTx, TlBusy
  <2>6. TlCounted'
    <3>1. UNCHANGED <<tlAdapter, tlAccepted>> BY <1>1
    <3> QED BY <1>9, <1>10, <2>3, <2>5, <3>1 DEF TlCounted
  <2>7. TlAged'
    <3>1. tlAge[k] >= TlInterval \/ tl.last[k] = TlNever BY <1>1, <2>1, TlLimitedIs
    <3>2. tlNow.step # "OK" BY <1>2
    <3> QED BY <1>0, <1>1, <2>2, <2>5, <3>1, <3>2 DEF TlAged
  <2> QED BY <2>4, <2>6, <2>7 DEF TlInv
<1>8. CASE /\ tl' = TlCount(TlCount(tl, "tx_seen"), "tx_attempts")
           /\ tlNow' = [step |-> "snapshot", for |-> "tx"]
  <2>2. tl' \in TlActor /\ tl'.counter = tl.counter /\ tl'.last = tl.last
    <3>1. PICK c \in TlActor : c = TlCount(tl, "tx_seen") BY <1>1, <1>3, TlCounts
    <3> QED BY <1>1, <1>3, <1>8, <3>1, TlCounts
  <2>3. /\ tl'.stats.seen = tl.stats.seen
        /\ tl'.stats.sent = tl.stats.sent
        /\ tl'.stats.disconnected = tl.stats.disconnected
        /\ tl'.stats.limited = tl.stats.limited
        /\ tl'.stats.tx_seen = tl.stats.tx_seen + 1
        /\ tl'.stats.tx_rejected = tl.stats.tx_rejected
        /\ tl'.stats.tx_attempts = tl.stats.tx_attempts + 1
        /\ tl'.stats.tx_ok = tl.stats.tx_ok
        /\ tl'.stats.tx_failed = tl.stats.tx_failed
    <3>1. PICK c \in TlActor : c = TlCount(tl, "tx_seen") BY <1>1, <1>3, TlCounts
    <3>2. /\ c.stats.seen = tl.stats.seen
          /\ c.stats.sent = tl.stats.sent
          /\ c.stats.disconnected = tl.stats.disconnected
          /\ c.stats.limited = tl.stats.limited
          /\ c.stats.tx_seen = tl.stats.tx_seen + 1
          /\ c.stats.tx_rejected = tl.stats.tx_rejected
          /\ c.stats.tx_attempts = tl.stats.tx_attempts
          /\ c.stats.tx_ok = tl.stats.tx_ok
          /\ c.stats.tx_failed = tl.stats.tx_failed
      BY <1>1, <1>3, <3>1, TlCounts, TlFieldsAre DEF TlOne
    <3>3. /\ tl'.stats.seen = c.stats.seen
          /\ tl'.stats.sent = c.stats.sent
          /\ tl'.stats.disconnected = c.stats.disconnected
          /\ tl'.stats.limited = c.stats.limited
          /\ tl'.stats.tx_seen = c.stats.tx_seen
          /\ tl'.stats.tx_rejected = c.stats.tx_rejected
          /\ tl'.stats.tx_attempts = c.stats.tx_attempts + 1
          /\ tl'.stats.tx_ok = c.stats.tx_ok
          /\ tl'.stats.tx_failed = c.stats.tx_failed
      BY <1>3, <1>8, <3>1, TlCounts, TlFieldsAre DEF TlOne
    <3> QED BY <3>2, <3>3
  <2>4. TlTypes' /\ TlPlaces'
    <3>1. tlNow' \in [step : {"snapshot", "client", "OK", "STATE"}, for : TlTopics]
      BY <1>8 DEF TlTopics
    <3> QED BY <1>0, <1>1, <2>2, <3>1 DEF TlTypes, TlPlaces
  <2>5. /\ tlNow'.step = "snapshot" /\ tlNow'.for = "tx"
        /\ TlPublishingTx' = 1 /\ TlPublishing' = 0
    BY <1>8, TlSizes DEF TlPublishing, TlPublishingTx, TlBusy
  <2>6. TlCounted'
    <3>1. UNCHANGED <<tlAdapter, tlAccepted>> BY <1>1
    <3> QED BY <1>9, <1>10, <2>3, <2>5, <3>1 DEF TlCounted
  <2>7. TlAged'
    <3>2. tlNow.step # "OK" BY <1>2
    <3> QED BY <1>0, <1>1, <2>2, <2>5, <3>2, TlSizes DEF TlAged
  <2> QED BY <2>4, <2>6, <2>7 DEF TlInv
<1> QED BY <1>4, <1>5, <1>6, <1>7, <1>8 DEF TlMeasured, TlTransmit

\* The adapter and the client leave the actor's counters alone.
LEMMA TlAdapterInv == TlInv /\ (TlSnapshot \/ TlClient) => TlInv'
<1> SUFFICES ASSUME TlInv, TlSnapshot \/ TlClient PROVE TlInv'
  OBVIOUS
<1>0. TlTypes /\ TlPlaces /\ TlCounted /\ TlAged BY DEF TlInv
<1>1. /\ tl \in TlActor /\ tlAccepted \in Nat
      /\ tlAdapter \in [connected : BOOLEAN, attempts : Nat, ok : Nat, failed : Nat]
  BY <1>0 DEF TlTypes
<1>2. /\ tl.stats.seen \in Nat /\ tl.stats.sent \in Nat /\ tl.stats.disconnected \in Nat
      /\ tl.stats.limited \in Nat /\ tl.stats.tx_seen \in Nat /\ tl.stats.tx_rejected \in Nat
      /\ tl.stats.tx_attempts \in Nat /\ tl.stats.tx_ok \in Nat /\ tl.stats.tx_failed \in Nat
      /\ tlAdapter.attempts \in Nat /\ tlAdapter.ok \in Nat /\ tlAdapter.failed \in Nat
  BY <1>1, TlFieldsAre, TlAdapterIs
<1>3. UNCHANGED <<tl, tlSession>> BY DEF TlSnapshot, TlClient
<1>4. tlNow \in [step : {"snapshot", "client", "OK", "STATE"}, for : TlTopics] /\ TlBusy
  BY <1>0 DEF TlPlaces, TlIdle, TlSnapshot, TlClient, TlBusy
<1>5. ASSUME NEW p \in {"client", "OK", "STATE"}, tlNow' = [tlNow EXCEPT !.step = p]
      PROVE  /\ TlPlaces' /\ tlNow'.for = tlNow.for /\ tlNow'.step = p
             /\ TlPublishing' = TlPublishing /\ TlPublishingTx' = TlPublishingTx
  <2>1. /\ tlNow' \in [step : {"snapshot", "client", "OK", "STATE"}, for : TlTopics]
        /\ tlNow'.for = tlNow.for /\ tlNow'.step = p
    BY <1>4, <1>5
  <2>2. TlBusy' BY <2>1 DEF TlBusy
  <2> QED BY <1>4, <2>1, <2>2 DEF TlPlaces, TlPublishing, TlPublishingTx
<1>6. TlPublishing \in Nat /\ TlPublishingTx \in Nat BY DEF TlPublishing, TlPublishingTx
<1>7. CASE /\ tlNow.step = "snapshot" /\ tlNow' = [tlNow EXCEPT !.step = "STATE"]
           /\ tlAdapter' = [tlAdapter EXCEPT !.attempts = @ + 1, !.failed = @ + 1]
           /\ UNCHANGED <<tlAccepted, tlAge>>
  <2>1. /\ TlPlaces' /\ tlNow'.for = tlNow.for /\ tlNow'.step = "STATE"
        /\ TlPublishing' = TlPublishing /\ TlPublishingTx' = TlPublishingTx
    BY <1>5, <1>7
  <2>2. /\ tlAdapter' \in [connected : BOOLEAN, attempts : Nat, ok : Nat, failed : Nat]
        /\ tlAdapter'.attempts = tlAdapter.attempts + 1
        /\ tlAdapter'.ok = tlAdapter.ok
        /\ tlAdapter'.failed = tlAdapter.failed + 1
    <3>1. tlAdapter.attempts + 1 \in Nat /\ tlAdapter.failed + 1 \in Nat BY <1>2
    <3> QED BY <1>1, <1>7, <3>1
  <2>3. TlTypes' BY <1>0, <1>3, <1>7, <2>2 DEF TlTypes
  <2>4. TlCounted' BY <1>0, <1>1, <1>2, <1>3, <1>6, <1>7, <2>1, <2>2 DEF TlCounted
  <2>5. TlAged' BY <1>0, <1>3, <1>4, <1>7, <2>1, TlSizes DEF TlAged
  <2> QED BY <2>1, <2>3, <2>4, <2>5 DEF TlInv
<1>8. CASE /\ tlNow.step = "snapshot" /\ tlNow' = [tlNow EXCEPT !.step = "client"]
           /\ tlAdapter' = [tlAdapter EXCEPT !.attempts = @ + 1]
           /\ UNCHANGED <<tlAccepted, tlAge>>
  <2>1. /\ TlPlaces' /\ tlNow'.for = tlNow.for /\ tlNow'.step = "client"
        /\ TlPublishing' = TlPublishing /\ TlPublishingTx' = TlPublishingTx
    BY <1>5, <1>8
  <2>2. /\ tlAdapter' \in [connected : BOOLEAN, attempts : Nat, ok : Nat, failed : Nat]
        /\ tlAdapter'.attempts = tlAdapter.attempts + 1
        /\ tlAdapter'.ok = tlAdapter.ok
        /\ tlAdapter'.failed = tlAdapter.failed
    <3>1. tlAdapter.attempts + 1 \in Nat BY <1>2
    <3> QED BY <1>1, <1>8, <3>1
  <2>3. TlTypes' BY <1>0, <1>3, <1>8, <2>2 DEF TlTypes
  <2>4. TlCounted' BY <1>0, <1>1, <1>2, <1>3, <1>6, <1>8, <2>1, <2>2 DEF TlCounted
  <2>5. TlAged' BY <1>0, <1>3, <1>4, <1>8, <2>1, TlSizes DEF TlAged
  <2> QED BY <2>1, <2>3, <2>4, <2>5 DEF TlInv
<1>9. CASE /\ tlNow.step = "client" /\ tlNow' = [tlNow EXCEPT !.step = "STATE"]
           /\ tlAdapter' = [tlAdapter EXCEPT !.failed = @ + 1]
           /\ UNCHANGED <<tlAccepted, tlAge>>
  <2>1. /\ TlPlaces' /\ tlNow'.for = tlNow.for /\ tlNow'.step = "STATE"
        /\ TlPublishing' = TlPublishing /\ TlPublishingTx' = TlPublishingTx
    BY <1>5, <1>9
  <2>2. /\ tlAdapter' \in [connected : BOOLEAN, attempts : Nat, ok : Nat, failed : Nat]
        /\ tlAdapter'.attempts = tlAdapter.attempts
        /\ tlAdapter'.ok = tlAdapter.ok
        /\ tlAdapter'.failed = tlAdapter.failed + 1
    <3>1. tlAdapter.failed + 1 \in Nat BY <1>2
    <3> QED BY <1>1, <1>9, <3>1
  <2>3. TlTypes' BY <1>0, <1>3, <1>9, <2>2 DEF TlTypes
  <2>4. TlCounted' BY <1>0, <1>1, <1>2, <1>3, <1>6, <1>9, <2>1, <2>2 DEF TlCounted
  <2>5. TlAged' BY <1>0, <1>3, <1>4, <1>9, <2>1, TlSizes DEF TlAged
  <2> QED BY <2>1, <2>3, <2>4, <2>5 DEF TlInv
<1>10. CASE /\ tlNow.step = "client" /\ tlNow' = [tlNow EXCEPT !.step = "OK"]
            /\ tlAdapter' = [tlAdapter EXCEPT !.ok = @ + 1]
            /\ tlAccepted' = tlAccepted + 1
            /\ tlAge' = [k \in TlKinds |-> IF k = tlNow.for THEN 0 ELSE tlAge[k]]
  <2>1. /\ TlPlaces' /\ tlNow'.for = tlNow.for /\ tlNow'.step = "OK"
        /\ TlPublishing' = TlPublishing /\ TlPublishingTx' = TlPublishingTx
    BY <1>5, <1>10
  <2>2. /\ tlAdapter' \in [connected : BOOLEAN, attempts : Nat, ok : Nat, failed : Nat]
        /\ tlAdapter'.attempts = tlAdapter.attempts
        /\ tlAdapter'.ok = tlAdapter.ok + 1
        /\ tlAdapter'.failed = tlAdapter.failed
    <3>1. tlAdapter.ok + 1 \in Nat BY <1>2
    <3> QED BY <1>1, <1>10, <3>1
  <2>3. TlTypes'
    <3>1. tlAge' \in [TlKinds -> 0 .. TlMod] BY <1>0, <1>10, TlSizes DEF TlTypes
    <3>2. tlAccepted' \in Nat BY <1>1, <1>10
    <3> QED BY <1>0, <1>3, <2>2, <3>1, <3>2 DEF TlTypes
  <2>4. TlCounted' BY <1>0, <1>1, <1>2, <1>3, <1>6, <1>10, <2>1, <2>2 DEF TlCounted
  <2>5. TlAged' BY <1>0, <1>3, <1>4, <1>10, <2>1, TlSizes DEF TlAged
  <2> QED BY <2>1, <2>3, <2>4, <2>5 DEF TlInv
<1> QED BY <1>7, <1>8, <1>9, <1>10 DEF TlSnapshot, TlClient

\* The handler ends: what the adapter answered is counted, and the tick at which
\* telemetry got through is kept.
LEMMA TlReturnedInv == TlInv /\ TlReturned => TlInv'
<1> SUFFICES ASSUME TlInv, TlReturned PROVE TlInv'
  OBVIOUS
<1>0. TlTypes /\ TlPlaces /\ TlCounted /\ TlAged BY DEF TlInv
<1>1. /\ tl \in TlActor /\ tlAccepted \in Nat
      /\ tlAdapter \in [connected : BOOLEAN, attempts : Nat, ok : Nat, failed : Nat]
  BY <1>0 DEF TlTypes
<1>2. /\ tl.stats.seen \in Nat /\ tl.stats.sent \in Nat /\ tl.stats.disconnected \in Nat
      /\ tl.stats.limited \in Nat /\ tl.stats.tx_seen \in Nat /\ tl.stats.tx_rejected \in Nat
      /\ tl.stats.tx_attempts \in Nat /\ tl.stats.tx_ok \in Nat /\ tl.stats.tx_failed \in Nat
      /\ tlAdapter.attempts \in Nat /\ tlAdapter.ok \in Nat /\ tlAdapter.failed \in Nat
  BY <1>1, TlFieldsAre, TlAdapterIs
<1>3. UNCHANGED <<tlAdapter, tlSession, tlAccepted, tlAge>> /\ tlNow.step \in {"OK", "STATE"}
  BY DEF TlReturned
<1>4. tlNow \in [step : {"snapshot", "client", "OK", "STATE"}, for : TlTopics] /\ TlBusy
  BY <1>0, <1>3 DEF TlPlaces, TlIdle, TlBusy
<1>5. TlNames = {"seen", "sent", "disconnected", "limited", "tx_seen",
                 "tx_rejected", "tx_attempts", "tx_ok", "tx_failed"}
  BY DEF TlNames
<1>6. /\ TlPlaces' /\ tlNow'.step \in {"idle", "failed"}
      /\ TlPublishing' = 0 /\ TlPublishingTx' = 0
  <2>1. tlNow' = TlIdle \/ tlNow' = [step |-> "failed"] BY DEF TlReturned
  <2>2. tlNow'.step \in {"idle", "failed"} BY <2>1 DEF TlIdle
  <2>3. ~TlBusy' BY <2>2 DEF TlBusy
  <2> QED BY <2>1, <2>2, <2>3 DEF TlPlaces, TlPublishing, TlPublishingTx
<1>7. /\ TlPublishing = (IF tlNow.for # "tx" THEN 1 ELSE 0)
      /\ TlPublishingTx = (IF tlNow.for = "tx" THEN 1 ELSE 0)
  BY <1>4 DEF TlPublishing, TlPublishingTx
<1>8. CASE tlNow.for # "tx" /\ tlNow.step = "OK"
  <2>1. tl' = [TlCount(tl, "sent") EXCEPT !.last[tlNow.for] = tl.counter]
    BY <1>8 DEF TlReturned, TlTelemetryDone
  <2>2. PICK c \in TlActor : c = TlCount(tl, "sent") BY <1>1, <1>5, TlCounts
  <2>3. /\ c.counter = tl.counter /\ c.last = tl.last
        /\ c.stats.seen = tl.stats.seen
        /\ c.stats.sent = tl.stats.sent + 1
        /\ c.stats.disconnected = tl.stats.disconnected
        /\ c.stats.limited = tl.stats.limited
        /\ c.stats.tx_seen = tl.stats.tx_seen
        /\ c.stats.tx_rejected = tl.stats.tx_rejected
        /\ c.stats.tx_attempts = tl.stats.tx_attempts
        /\ c.stats.tx_ok = tl.stats.tx_ok
        /\ c.stats.tx_failed = tl.stats.tx_failed
    BY <1>1, <1>2, <1>5, <2>2, TlCounts DEF TlOne
  <2>4. tlNow.for \in TlKinds BY <1>4, <1>8 DEF TlTopics
  <2>5. /\ tl' \in TlActor /\ tl'.stats = c.stats /\ tl'.counter = tl.counter
        /\ tl'.last = [tl.last EXCEPT ![tlNow.for] = tl.counter]
    <3>1. tl.counter \in 0 .. TlMod - 1 /\ c.last \in TlTicks BY <1>1 DEF TlActor
    <3>2. [c.last EXCEPT ![tlNow.for] = tl.counter] \in TlTicks
      BY <2>4, <3>1 DEF TlTicks
    <3>3. tl' = [c EXCEPT !.last = [c.last EXCEPT ![tlNow.for] = tl.counter]]
      BY <2>1, <2>2 DEF TlActor
    <3> QED BY <2>2, <2>3, <3>2, <3>3 DEF TlActor
  <2>6. TlCounted'
    <3>1. tlNow'.step # "client" /\ tlNow'.step # "OK" /\ tlNow.step # "client" /\ tlNow.step = "OK"
      BY <1>6, <1>8
    <3>2. /\ tl.stats.seen = tl.stats.sent + tl.stats.disconnected + tl.stats.limited + 1
          /\ tl.stats.tx_seen = tl.stats.tx_rejected + tl.stats.tx_attempts
          /\ tl.stats.tx_attempts = tl.stats.tx_ok + tl.stats.tx_failed + 0
      BY <1>0, <1>7, <1>8 DEF TlCounted
    <3>3. /\ tlAdapter.attempts = tlAdapter.ok + tlAdapter.failed
          /\ tlAdapter.ok = tl.stats.sent + tl.stats.tx_ok + 1 /\ tlAccepted = tlAdapter.ok
      BY <1>0, <1>2, <3>1 DEF TlCounted
    <3> QED BY <1>2, <1>3, <1>6, <2>3, <2>5, <3>1, <3>2, <3>3 DEF TlCounted
  <2>7. TlAged'
    <3>1. tl.last \in TlTicks /\ tl.counter \in 0 .. TlMod - 1 /\ tlAge \in [TlKinds -> 0 .. TlMod]
      BY <1>0 DEF TlTypes, TlActor
    <3>2. tlAge[tlNow.for] = 0 BY <1>0, <1>8, <2>4 DEF TlAged
    <3>3. ASSUME NEW k \in TlKinds, tl'.last[k] # TlNever, tlAge[k] < TlMod
          PROVE  tl'.counter = WdWrap(TlMod, tl'.last[k], tlAge[k])
      <4>1. CASE k = tlNow.for
        <5>1. tl'.last[k] = tl.counter /\ tlAge[k] = 0
          BY <2>4, <2>5, <3>1, <3>2, <4>1 DEF TlTicks
        <5> QED BY <2>5, <3>1, <5>1, TlSizes DEF WdWrap
      <4>2. CASE k # tlNow.for
        <5>1. tl'.last[k] = tl.last[k] BY <2>4, <2>5, <3>1, <4>2 DEF TlTicks
        <5> QED BY <1>0, <2>5, <3>3, <4>2, <5>1 DEF TlAged
      <4> QED BY <4>1, <4>2
    <3> QED BY <1>3, <1>6, <3>3 DEF TlAged
  <2>8. TlTypes' BY <1>0, <1>3, <2>5 DEF TlTypes
  <2> QED BY <1>6, <2>6, <2>7, <2>8 DEF TlInv
<1>9. CASE tlNow.for # "tx" /\ tlNow.step = "STATE"
  <2>1. tl' = TlCount(tl, "disconnected")
    BY <1>9 DEF TlReturned, TlTelemetryDone
  <2>2. /\ tl' \in TlActor /\ tl'.counter = tl.counter /\ tl'.last = tl.last
        /\ tl'.stats.seen = tl.stats.seen
        /\ tl'.stats.sent = tl.stats.sent
        /\ tl'.stats.disconnected = tl.stats.disconnected + 1
        /\ tl'.stats.limited = tl.stats.limited
        /\ tl'.stats.tx_seen = tl.stats.tx_seen
        /\ tl'.stats.tx_rejected = tl.stats.tx_rejected
        /\ tl'.stats.tx_attempts = tl.stats.tx_attempts
        /\ tl'.stats.tx_ok = tl.stats.tx_ok
        /\ tl'.stats.tx_failed = tl.stats.tx_failed
    BY <1>1, <1>2, <1>5, <2>1, TlCounts DEF TlOne
  <2>3. TlTypes' BY <1>0, <1>3, <2>2 DEF TlTypes
  <2>4. TlCounted'
    <3>1. /\ tlNow'.step # "client" /\ tlNow'.step # "OK"
          /\ tlNow.step # "client" /\ tlNow.step # "OK"
      BY <1>6, <1>9
    <3> QED BY <1>0, <1>1, <1>2, <1>3, <1>6, <1>7, <1>9, <2>2, <3>1 DEF TlCounted
  <2>5. TlAged'
    <3>1. ASSUME NEW k \in TlKinds PROVE ~(tlNow.step = "OK" /\ tlNow.for = k)
      BY <1>9, TlSizes
    <3> QED BY <1>0, <1>3, <1>6, <2>2, <3>1 DEF TlAged
  <2> QED BY <1>6, <2>3, <2>4, <2>5 DEF TlInv
<1>10. CASE tlNow.for = "tx" /\ tlNow.step = "OK"
  <2>1. tl' = TlCount(tl, "tx_ok")
    BY <1>10 DEF TlReturned, TlTelemetryDone
  <2>2. /\ tl' \in TlActor /\ tl'.counter = tl.counter /\ tl'.last = tl.last
        /\ tl'.stats.seen = tl.stats.seen
        /\ tl'.stats.sent = tl.stats.sent
        /\ tl'.stats.disconnected = tl.stats.disconnected
        /\ tl'.stats.limited = tl.stats.limited
        /\ tl'.stats.tx_seen = tl.stats.tx_seen
        /\ tl'.stats.tx_rejected = tl.stats.tx_rejected
        /\ tl'.stats.tx_attempts = tl.stats.tx_attempts
        /\ tl'.stats.tx_ok = tl.stats.tx_ok + 1
        /\ tl'.stats.tx_failed = tl.stats.tx_failed
    BY <1>1, <1>2, <1>5, <2>1, TlCounts DEF TlOne
  <2>3. TlTypes' BY <1>0, <1>3, <2>2 DEF TlTypes
  <2>4. TlCounted'
    <3>1. /\ tlNow'.step # "client" /\ tlNow'.step # "OK"
          /\ tlNow.step # "client" /\ tlNow.step = "OK"
      BY <1>6, <1>10
    <3>2. /\ tl.stats.seen = tl.stats.sent + tl.stats.disconnected + tl.stats.limited + 0
          /\ tl.stats.tx_seen = tl.stats.tx_rejected + tl.stats.tx_attempts
          /\ tl.stats.tx_attempts = tl.stats.tx_ok + tl.stats.tx_failed + 1
      BY <1>0, <1>7, <1>10 DEF TlCounted
    <3>3. /\ tlAdapter.attempts = tlAdapter.ok + tlAdapter.failed
          /\ tlAdapter.ok = tl.stats.sent + tl.stats.tx_ok + 1 /\ tlAccepted = tlAdapter.ok
      BY <1>0, <1>2, <3>1 DEF TlCounted
    <3> QED BY <1>2, <1>3, <1>6, <2>2, <3>1, <3>2, <3>3 DEF TlCounted
  <2>5. TlAged'
    <3>1. ASSUME NEW k \in TlKinds PROVE ~(tlNow.step = "OK" /\ tlNow.for = k)
      BY <1>10, TlSizes
    <3> QED BY <1>0, <1>3, <1>6, <2>2, <3>1 DEF TlAged
  <2> QED BY <1>6, <2>3, <2>4, <2>5 DEF TlInv
<1>11. CASE tlNow.for = "tx" /\ tlNow.step = "STATE"
  <2>1. tl' = TlCount(tl, "tx_failed")
    BY <1>11 DEF TlReturned, TlTelemetryDone
  <2>2. /\ tl' \in TlActor /\ tl'.counter = tl.counter /\ tl'.last = tl.last
        /\ tl'.stats.seen = tl.stats.seen
        /\ tl'.stats.sent = tl.stats.sent
        /\ tl'.stats.disconnected = tl.stats.disconnected
        /\ tl'.stats.limited = tl.stats.limited
        /\ tl'.stats.tx_seen = tl.stats.tx_seen
        /\ tl'.stats.tx_rejected = tl.stats.tx_rejected
        /\ tl'.stats.tx_attempts = tl.stats.tx_attempts
        /\ tl'.stats.tx_ok = tl.stats.tx_ok
        /\ tl'.stats.tx_failed = tl.stats.tx_failed + 1
    BY <1>1, <1>2, <1>5, <2>1, TlCounts DEF TlOne
  <2>3. TlTypes' BY <1>0, <1>3, <2>2 DEF TlTypes
  <2>4. TlCounted'
    <3>1. /\ tlNow'.step # "client" /\ tlNow'.step # "OK"
          /\ tlNow.step # "client" /\ tlNow.step # "OK"
      BY <1>6, <1>11
    <3> QED BY <1>0, <1>1, <1>2, <1>3, <1>6, <1>7, <1>11, <2>2, <3>1 DEF TlCounted
  <2>5. TlAged'
    <3>1. ASSUME NEW k \in TlKinds PROVE ~(tlNow.step = "OK" /\ tlNow.for = k)
      BY <1>11, TlSizes
    <3> QED BY <1>0, <1>3, <1>6, <2>2, <3>1 DEF TlAged
  <2> QED BY <1>6, <2>3, <2>4, <2>5 DEF TlInv
<1> QED BY <1>3, <1>8, <1>9, <1>10, <1>11

\* A refused command restarts the device.
LEMMA TlRestartInv == TlRestart => TlInv'
<1>1. TlRestart => TlInit' BY DEF TlRestart, TlInit
<1> QED BY <1>1, TlFresh, PTL

\* A kind is accepted again only when it is due, and limited only while it is not:
\* ev_network_telemetry_rate_limited across the wrap of the tick counter.
LEMMA TlSpacing == TlInv /\ [TlNext]_tlVars => [TlSpaced]_tlVars
<1> SUFFICES ASSUME TlInv, TlNext, NEW k \in TlKinds
             PROVE  /\ tlAge'[k] = 0 /\ tlAccepted' > tlAccepted /\ tlNow.for = k =>
                         tlAge[k] >= TlInterval \/ tl.last[k] = TlNever
                    /\ TlMeasured(k) /\ tl'.stats.limited > tl.stats.limited =>
                         tlAge[k] < TlInterval \/ tlAge[k] = TlMod
  BY DEF TlSpaced
<1>0. TlTypes /\ TlPlaces /\ TlCounted /\ TlAged BY DEF TlInv
<1>1. ASSUME tlAccepted' > tlAccepted, tlNow.for = k
      PROVE  tlAge[k] >= TlInterval \/ tl.last[k] = TlNever
  <2>1. tlNow.step = "client"
    <3>1. tlAccepted \in Nat BY <1>0 DEF TlTypes
    <3>2. CASE tlAccepted' = tlAccepted BY <1>1, <3>1, <3>2
    <3>3. CASE TlRestart
      <4>1. tlAccepted' = 0 BY <3>3 DEF TlRestart
      <4> QED BY <1>1, <3>1, <4>1
    <3>4. CASE TlClient BY <3>4 DEF TlClient
    <3> QED
      BY <3>2, <3>3, <3>4
      DEF TlNext, TlSessionChanges, TlFlagFollows, TlLinkHeard, TlTick, 
            TlMeasured, TlTransmit, TlSnapshot, TlReturned
  <2> QED BY <1>0, <1>1, <2>1 DEF TlAged
<1>2. ASSUME TlMeasured(k), tl'.stats.limited > tl.stats.limited
      PROVE  tlAge[k] < TlInterval \/ tlAge[k] = TlMod
  <2>0. tl \in TlActor /\ tlNow = TlIdle BY <1>0, <1>2 DEF TlTypes, TlMeasured
  <2>1. tl.stats.limited \in Nat BY <2>0, TlFieldsAre
  <2>2. "seen" \in TlNames /\ "disconnected" \in TlNames BY DEF TlNames
  <2>3. PICK c \in TlActor : c = TlCount(tl, "seen") BY <2>0, <2>2, TlCounts
  <2>4. c.stats.limited = tl.stats.limited BY <2>0, <2>1, <2>2, <2>3, TlCounts DEF TlOne
  <2>5. TlCount(c, "disconnected").stats.limited = tl.stats.limited
    BY <2>1, <2>2, <2>4, TlCounts DEF TlOne
  <2>6. TlLimited(k)
    <3>1. tl' # c BY <1>2, <2>1, <2>4
    <3>2. tl' # TlCount(c, "disconnected") BY <1>2, <2>1, <2>5
    <3> QED BY <1>2, <2>3, <3>1, <3>2 DEF TlMeasured
  <2> QED BY <2>0, <2>6, TlLimitedIs
<1> QED BY <1>1, <1>2

\* Every step keeps the invariant.
LEMMA TlStepInv == TlInv /\ [TlNext]_tlVars => TlInv'
  BY TlLinkInv, TlTickInv, TlGivenInv, TlAdapterInv, TlReturnedInv, TlRestartInv
  DEF TlNext

\* The counters as they are between two publications.
LEMMA TlAgreed == TlInv => TlReconciled
<1> SUFFICES ASSUME TlInv, tlNow.step \in {"idle", "failed"} PROVE TlReconciled
  BY DEF TlReconciled
<1>0. TlTypes /\ TlCounted BY DEF TlInv
<1>1. TlPublishing = 0 /\ TlPublishingTx = 0 BY DEF TlPublishing, TlPublishingTx, TlBusy
<1>2. tlNow.step # "client" /\ tlNow.step # "OK" OBVIOUS
<1>3. tl \in TlActor /\ tlAdapter \in [connected : BOOLEAN, attempts : Nat, ok : Nat, failed : Nat]
  BY <1>0 DEF TlTypes
<1> QED BY <1>0, <1>1, <1>2, <1>3, TlFieldsAre, TlAdapterIs DEF TlCounted, TlReconciled

\* The invariant of the publisher, in every state.
THEOREM TlInvHolds == TlInit /\ [][TlNext]_tlVars => []TlInv
  BY TlFresh, TlStepInv, PTL

\* Telemetry and transmit commands (ev_network_actor.c, ev_net_adapter.c): every
\* message is counted once, the actor, the adapter and the client agree on what got
\* through, and a kind is limited exactly while it is not due, whatever the
\* interval, the width of the tick counter and the kinds.
THEOREM TelemetryIsTold == Spec => TelemetryTellsTruth
<1>1. Init => TlInit BY DEF Init
<1>2. [Next]_servicesVars => [TlNext]_tlVars BY DEF Next, servicesVars
<1> QED
  BY <1>1, <1>2, TlInvHolds, TlAgreed, TlSpacing, PTL DEF Spec, TelemetryTellsTruth
-----------------------------------------------------------------------------
(* The stores: two rings indexed by sequence numbers that wrap. *)

\* The numbers of the rings.
LEMMA QuSizes ==
  /\ QuCapacity \in Nat /\ QuCapacity > 0 /\ QuSeqMod \in Nat /\ QuSeqMod > QuCapacity
  /\ QuSeqMod > 0 /\ QuSeqMod % QuCapacity = 0
  /\ FbCapacity \in Nat /\ FbCapacity > 0 /\ FbEmits \in Nat
  BY QuAssumption

\* A ring with these indices holds what is owed, at the low bits of the
\* sequence numbers from the read index on.
QuRingOf(ring, write, read, Items, owed) ==
  /\ ring \in [0 .. QuCapacity - 1 -> Items \cup {<< >>}]
  /\ read \in 0 .. QuSeqMod - 1
  /\ owed \in Seq(Items) /\ Len(owed) <= QuCapacity
  /\ write = (read + Len(owed)) % QuSeqMod
  /\ \A i \in 1 .. Len(owed) : owed[i] = ring[QuIndex((read + i - 1) % QuSeqMod)]

\* The low bits of a sequence number do not see that it wraps.
LEMMA QuIndexIs ==
  ASSUME NEW a \in Int
  PROVE  QuIndex(a % QuSeqMod) = a % QuCapacity
<1>1. PICK n, m : n = QuCapacity /\ m = QuSeqMod OBVIOUS
<1>2. n \in Nat /\ n > 0 /\ m \in Nat /\ m > 0 /\ m % n = 0 BY <1>1, QuSizes
<1>3. PICK k \in Int : k = m \div n BY <1>2, ModTurns
<1>4. m = k * n BY <1>2, <1>3, ModTurns
<1>5. PICK d \in Int : d = a \div m BY <1>2, ModTurns
<1>6. a % m \in Int /\ a = d * m + (a % m) BY <1>2, <1>5, ModTurns
<1>7. PICK q \in Int : q = d * k OBVIOUS
<1>8. d * m = q * n BY <1>2, <1>4, <1>7
<1>9. a = (a % m) + q * n BY <1>2, <1>6, <1>8
<1>10. PICK b \in Int : b = a % m BY <1>6
<1>11. a = b + q * n BY <1>9, <1>10
<1>12. (b + q * n) % n = b % n
  <2>1. n \in Nat /\ n > 0 BY <1>2
  <2> QED BY <2>1, ModShift, Zenon
<1> QED BY <1>1, <1>10, <1>11, <1>12 DEF QuIndex

\* Fewer numbers in a row than the ring has places do not collide.
LEMMA QuIndexDistinct ==
  ASSUME NEW a \in Int, NEW b \in Int, a < b, b < a + QuCapacity
  PROVE  a % QuCapacity # b % QuCapacity /\ a % QuCapacity \in 0 .. QuCapacity - 1
<1>1. PICK n : n = QuCapacity OBVIOUS
<1>2. n \in Nat /\ n > 0 /\ b < a + n BY <1>1, QuSizes
<1>3. PICK p \in Int, q \in Int : p = a \div n /\ q = b \div n BY <1>2, ModTurns
<1>4. PICK r \in 0 .. n - 1, s \in 0 .. n - 1 : r = a % n /\ s = b % n BY <1>2, ModTurns
<1>5. a = p * n + r /\ b = q * n + s BY <1>2, <1>3, <1>4, ModTurns
<1>6. ASSUME r = s PROVE FALSE
  <2>1. PICK d \in Int : d = q - p OBVIOUS
  <2>2. b - a = d * n BY <1>2, <1>5, <1>6, <2>1
  <2>3. 0 < d * n /\ d * n < n BY <1>2, <2>2
  <2>4. d > 0 /\ d < 1 BY <1>2, <2>3
  <2> QED BY <2>4
<1> QED BY <1>1, <1>4, <1>6

\* The ring holds what is owed, oldest first.
LEMMA QuHolds ==
  ASSUME NEW q, NEW Items, NEW owed, QuRingOf(q.ring, q.write, q.read, Items, owed)
  PROVE  QuPending(q) = Len(owed) /\ QuContents(q) = owed
<1>1. PICK r, n, m : r = q.read /\ n = Len(owed) /\ m = QuSeqMod OBVIOUS
<1>2. /\ owed \in Seq(Items) /\ n \in Nat /\ n <= QuCapacity
      /\ r \in 0 .. m - 1 /\ q.write = (r + n) % m
      /\ \A i \in 1 .. n : owed[i] = q.ring[QuIndex((r + i - 1) % m)]
  BY <1>1 DEF QuRingOf
<1>3. m \in Nat /\ m > 0 /\ n \in 0 .. m - 1 BY <1>1, <1>2, QuSizes
<1>4. QuPending(q) = n
  <2>1. q.write = IF r + n < m THEN r + n ELSE r + n - m BY <1>2, <1>3, ModSum
  <2>2. CASE r + n < m
    <3>1. PICK d \in Int : d = q.write - r BY <1>2, <1>3, <2>1, <2>2
    <3>2. d = 0 * m + n BY <1>2, <1>3, <2>1, <2>2, <3>1
    <3>3. d % m = n
      <4>1. m \in Nat /\ m > 0 /\ 0 \in Int /\ n \in 0 .. m - 1 BY <1>3
      <4> QED BY ONLY <3>2, <4>1, d \in Int, ModUnique, Zenon
    <3>4. (q.write - r) % m = n BY <3>1, <3>3
    <3> QED BY <1>1, <3>4 DEF QuPending
  <2>3. CASE ~(r + n < m)
    <3>1. PICK d \in Int : d = q.write - r BY <1>2, <1>3, <2>1, <2>3
    <3>2. PICK e \in Int : e = -1 OBVIOUS
    <3>3. d = e * m + n BY <1>2, <1>3, <2>1, <2>3, <3>1, <3>2
    <3>4. d % m = n
      <4>1. m \in Nat /\ m > 0 /\ n \in 0 .. m - 1 BY <1>3
      <4> QED BY ONLY <3>3, <4>1, d \in Int, e \in Int, ModUnique, Zenon
    <3>5. (q.write - r) % m = n BY <3>1, <3>4
    <3> QED BY <1>1, <3>5 DEF QuPending
  <2> QED BY <2>2, <2>3
<1>5. PICK c : c = QuContents(q) OBVIOUS
<1>6. c = [i \in 1 .. n |-> q.ring[QuIndex((r + i - 1) % m)]]
  BY <1>1, <1>4, <1>5 DEF QuContents
<1>7. c = [i \in 1 .. n |-> owed[i]] BY <1>2, <1>6
<1>8. owed = [i \in 1 .. n |-> owed[i]] BY <1>1, <1>2
<1> QED BY <1>1, <1>4, <1>5, <1>7, <1>8

\* One more is stored behind the newest; nothing that is owed is overwritten.
LEMMA QuPushed ==
  ASSUME NEW ring, NEW w, NEW r, NEW Items, NEW owed, QuRingOf(ring, w, r, Items, owed),
         Len(owed) < QuCapacity, NEW x \in Items
  PROVE  QuRingOf([ring EXCEPT ![QuIndex(w)] = x], (w + 1) % QuSeqMod, r, Items,
                  Append(owed, x))
<1>1. PICK n, m : n = Len(owed) /\ m = QuSeqMod OBVIOUS
<1>2. /\ ring \in [0 .. QuCapacity - 1 -> Items \cup {<< >>}]
      /\ owed \in Seq(Items) /\ n \in Nat /\ n < QuCapacity
      /\ r \in 0 .. m - 1 /\ r \in Int /\ w = (r + n) % m
      /\ \A i \in 1 .. n : owed[i] = ring[QuIndex((r + i - 1) % m)]
  BY <1>1 DEF QuRingOf
<1>3. m \in Nat /\ m > 0 /\ QuCapacity \in Nat BY <1>1, QuSizes
<1>4. PICK k : k = QuIndex(w) OBVIOUS
<1>5. k = (r + n) % QuCapacity BY <1>1, <1>2, <1>4, QuIndexIs
<1>6. k \in 0 .. QuCapacity - 1 BY <1>2, <1>5, QuSizes, ModTurns
<1>7. PICK s : s = [ring EXCEPT ![k] = x] OBVIOUS
<1>8. s \in [0 .. QuCapacity - 1 -> Items \cup {<< >>}] BY <1>2, <1>6, <1>7
<1>9. PICK o : o = Append(owed, x) OBVIOUS
<1>10. /\ o \in Seq(Items) /\ Len(o) = n + 1 /\ o[n + 1] = x
       /\ \A i \in 1 .. n : o[i] = owed[i]
  BY <1>1, <1>2, <1>9
<1>11. (w + 1) % m = (r + (n + 1)) % m
  <2>1. PICK a \in Int : a = r + n BY <1>2
  <2>2. ((a % m) + 1) % m = (a + 1) % m
    <3>1. m \in Nat /\ m > 0 /\ 1 \in Int BY <1>3
    <3> QED BY ONLY <3>1, a \in Int, ModReduced, Zenon
  <2>3. w = a % m /\ a + 1 = r + (n + 1) BY <1>2, <2>1
  <2> QED BY <2>2, <2>3
<1>12. ASSUME NEW i \in 1 .. n + 1 PROVE o[i] = s[QuIndex((r + i - 1) % m)]
  <2>1. r + i - 1 \in Int /\ (i \in 1 .. n \/ i = n + 1) BY <1>2
  <2>2. PICK j : j = QuIndex((r + i - 1) % m) OBVIOUS
  <2>3. j = (r + i - 1) % QuCapacity BY <1>1, <2>1, <2>2, QuIndexIs
  <2>4. j \in 0 .. QuCapacity - 1 BY <2>1, <2>3, QuSizes, ModTurns
  <2>5. CASE i = n + 1
    <3>1. r + i - 1 = r + n BY <1>2, <2>5
    <3>2. j = k BY <1>5, <2>3, <3>1
    <3> QED BY <1>2, <1>6, <1>7, <1>10, <2>2, <2>5, <3>2
  <2>6. CASE i \in 1 .. n
    <3>1. r + i - 1 < r + n /\ r + n < (r + i - 1) + QuCapacity BY <1>2, <1>3, <2>6
    <3>2. j # k
      <4>1. (r + i - 1) % QuCapacity # (r + n) % QuCapacity
        BY <1>2, <2>1, <3>1, QuIndexDistinct
      <4> QED BY <1>5, <2>3, <4>1
    <3>3. s[j] = ring[j] BY <1>2, <1>7, <2>4, <3>2
    <3> QED BY <1>2, <1>10, <2>2, <2>6, <3>3
  <2> QED BY <2>1, <2>5, <2>6
<1>13. Len(o) <= QuCapacity BY <1>2, <1>3, <1>10
<1>14. QuRingOf(s, (w + 1) % m, r, Items, o)
  BY <1>1, <1>2, <1>8, <1>10, <1>11, <1>12, <1>13 DEF QuRingOf
<1> QED BY <1>1, <1>4, <1>7, <1>9, <1>14

\* The oldest is taken.
LEMMA QuPopped ==
  ASSUME NEW ring, NEW w, NEW r, NEW Items, NEW owed, QuRingOf(ring, w, r, Items, owed),
         Len(owed) > 0
  PROVE  /\ QuRingOf(ring, w, (r + 1) % QuSeqMod, Items, Tail(owed))
         /\ owed[1] = ring[QuIndex(r)] /\ owed # << >>
<1>1. PICK n, m : n = Len(owed) /\ m = QuSeqMod OBVIOUS
<1>2. /\ ring \in [0 .. QuCapacity - 1 -> Items \cup {<< >>}]
      /\ owed \in Seq(Items) /\ n \in Nat /\ n > 0 /\ n <= QuCapacity
      /\ r \in 0 .. m - 1 /\ r \in Int /\ w = (r + n) % m
      /\ \A i \in 1 .. n : owed[i] = ring[QuIndex((r + i - 1) % m)]
  BY <1>1 DEF QuRingOf
<1>3. m \in Nat /\ m > 0 /\ QuCapacity \in Nat BY <1>1, QuSizes
<1>4. PICK o : o = Tail(owed) OBVIOUS
<1>5. owed # << >> BY <1>1, <1>2
<1>6. o \in Seq(Items) /\ Len(o) = n - 1 /\ \A i \in 1 .. n - 1 : o[i] = owed[i + 1]
  BY <1>1, <1>2, <1>4, <1>5, HeadTailProperties
<1>7. PICK s : s = (r + 1) % m OBVIOUS
<1>8. s \in 0 .. m - 1 BY <1>2, <1>3, <1>7, ModTurns
<1>9. ASSUME NEW i \in Int PROVE (s + i) % m = (r + 1 + i) % m
  <2>1. r + 1 \in Int BY <1>2
  <2> QED BY <1>3, <1>7, <2>1, ModReduced
<1>10. w = (s + Len(o)) % m
  <2>1. n - 1 \in Int /\ r + 1 + (n - 1) = r + n BY <1>2
  <2>2. (s + (n - 1)) % m = (r + n) % m BY <1>9, <2>1
  <2> QED BY <1>2, <1>6, <2>2
<1>11. ASSUME NEW i \in 1 .. n - 1 PROVE o[i] = ring[QuIndex((s + i - 1) % m)]
  <2>1. i + 1 \in 1 .. n /\ i - 1 \in Int /\ i \in Int BY <1>2
  <2>2. o[i] = ring[QuIndex((r + (i + 1) - 1) % m)] BY <1>2, <1>6, <2>1
  <2>3. s \in Int /\ s + i - 1 = s + (i - 1) BY <1>8, <2>1
  <2>4. r + 1 + (i - 1) = r + (i + 1) - 1 BY <1>2, <2>1
  <2>5. (s + i - 1) % m = (r + (i + 1) - 1) % m BY <1>9, <2>1, <2>3, <2>4
  <2> QED BY <2>2, <2>5
<1>12. owed[1] = ring[QuIndex(r)]
  <2>1. 1 \in 1 .. n /\ r + 1 - 1 = r BY <1>2
  <2>2. r % m = r
    <3>1. m \in Nat /\ m > 0 /\ 0 \in Int /\ r \in 0 .. m - 1 /\ r = 0 * m + r
      BY <1>2, <1>3
    <3> QED BY ONLY <3>1, r \in Int, ModUnique, Zenon
  <2> QED BY <1>2, <2>1, <2>2
<1>13. Len(o) <= QuCapacity BY <1>2, <1>3, <1>6
<1>14. QuRingOf(ring, w, s, Items, o)
  BY <1>1, <1>2, <1>6, <1>8, <1>10, <1>11, <1>13 DEF QuRingOf
<1> QED BY <1>1, <1>4, <1>5, <1>7, <1>12, <1>14

-----------------------------------------------------------------------------
(* The ingress ring. *)

InItems == {<<m>> : m \in QuItems}

InInv ==
  /\ ingress \in [ring : [0 .. QuCapacity - 1 -> InItems \cup {<< >>}],
                  write : Int, read : Int]
  /\ QuRingOf(ingress.ring, ingress.write, ingress.read, InItems, inOwed)

\* An empty ring owes nothing.
LEMMA QuEmpty ==
  ASSUME NEW Items, NEW ring, ring = [i \in 0 .. QuCapacity - 1 |-> << >>]
  PROVE  QuRingOf(ring, 0, 0, Items, << >>)
<1>1. 0 % QuSeqMod = 0 /\ 0 \in 0 .. QuSeqMod - 1 /\ 0 + 0 = 0 BY QuSizes
<1>2. << >> \in Seq(Items) /\ Len(<< >>) = 0 OBVIOUS
<1>3. ring \in [0 .. QuCapacity - 1 -> Items \cup {<< >>}] OBVIOUS
<1> QED BY <1>1, <1>2, <1>3, QuSizes DEF QuRingOf

\* ev_ingress_push, ev_ingress_pop
LEMMA InKeeps == ASSUME InInv, [InNext]_inVars PROVE InInv'
<1>1. PICK q, o : q = ingress /\ o = inOwed OBVIOUS
<1>2. /\ q \in [ring : [0 .. QuCapacity - 1 -> InItems \cup {<< >>}],
                write : Int, read : Int]
      /\ QuRingOf(q.ring, q.write, q.read, InItems, o)
      /\ QuPending(q) = Len(o) /\ Len(o) \in Nat
  <2>1. QuRingOf(q.ring, q.write, q.read, InItems, o) BY <1>1 DEF InInv
  <2>2. Len(o) \in Nat BY <2>1 DEF QuRingOf
  <2> QED BY <1>1, <2>1, <2>2, QuHolds DEF InInv
<1>3. CASE UNCHANGED inVars BY <1>3 DEF inVars, InInv
<1>4. CASE InPush
  <2>1. PICK m \in QuItems :
          IF QuPending(q) >= QuCapacity THEN UNCHANGED inVars
          ELSE /\ ingress' = [q EXCEPT !.ring[QuIndex(q.write)] = <<m>>,
                                       !.write = (@ + 1) % QuSeqMod]
               /\ inOwed' = Append(o, <<m>>)
    BY <1>1, <1>4 DEF InPush
  <2>2. CASE QuPending(q) >= QuCapacity BY <1>3, <2>1, <2>2
  <2>3. CASE ~(QuPending(q) >= QuCapacity)
    <3>1. Len(o) < QuCapacity BY <1>2, <2>3, QuSizes
    <3>2. PICK x \in InItems : x = <<m>> BY DEF InItems
    <3>3. PICK s, w : s = [q.ring EXCEPT ![QuIndex(q.write)] = x]
                      /\ w = (q.write + 1) % QuSeqMod
      OBVIOUS
    <3>4. ingress' = [q EXCEPT !.ring = s, !.write = w] BY <1>2, <2>1, <2>3, <3>2, <3>3
    <3>5. QuRingOf(s, w, q.read, InItems, Append(o, x)) BY <1>2, <3>1, <3>3, QuPushed
    <3>6. s \in [0 .. QuCapacity - 1 -> InItems \cup {<< >>}] BY <3>5 DEF QuRingOf
    <3>7. w \in Int BY <1>2, <3>3, QuSizes, ModTurns
    <3>8. /\ ingress' \in [ring : [0 .. QuCapacity - 1 -> InItems \cup {<< >>}],
                           write : Int, read : Int]
          /\ ingress'.ring = s /\ ingress'.write = w /\ ingress'.read = q.read
      BY <1>2, <3>4, <3>6, <3>7
    <3> QED BY <2>1, <2>3, <3>2, <3>5, <3>8 DEF InInv
  <2> QED BY <2>2, <2>3
<1>5. CASE InPop
  <2>1. /\ QuPending(q) > 0 /\ ingress' = [q EXCEPT !.read = (@ + 1) % QuSeqMod]
        /\ inOwed' = Tail(o)
    BY <1>1, <1>5 DEF InPop
  <2>2. Len(o) > 0 BY <1>2, <2>1
  <2>3. PICK r : r = (q.read + 1) % QuSeqMod OBVIOUS
  <2>4. QuRingOf(q.ring, q.write, r, InItems, Tail(o)) BY <1>2, <2>2, <2>3, QuPopped
  <2>5. r \in Int BY <1>2, <2>3, QuSizes, ModTurns
  <2>6. /\ ingress' \in [ring : [0 .. QuCapacity - 1 -> InItems \cup {<< >>}],
                         write : Int, read : Int]
        /\ ingress'.ring = q.ring /\ ingress'.write = q.write /\ ingress'.read = r
    BY <1>2, <2>1, <2>3, <2>5
  <2> QED BY <2>1, <2>4, <2>6 DEF InInv
<1> QED BY <1>3, <1>4, <1>5 DEF InNext

\* The ingress ring, in every state.
THEOREM InInvHolds == InInit /\ [][InNext]_inVars => []InInv
<1>1. InInit => InInv
  <2>1. SUFFICES ASSUME InInit PROVE InInv OBVIOUS
  <2>2. ingress \in [ring : [0 .. QuCapacity - 1 -> InItems \cup {<< >>}],
                     write : Int, read : Int]
    BY <2>1 DEF InInit
  <2> QED BY <2>1, <2>2, QuEmpty DEF InInit, InInv
<1>2. InInv /\ [InNext]_inVars => InInv' BY InKeeps
<1> QED BY <1>1, <1>2, PTL

-----------------------------------------------------------------------------
(* The outbox. *)

ObItems == ObCategories \X QuItems

\* The items of a category.
ObCount(s, c) == CountIn(s, {x \in ObItems : x[1] = c})

\* An outbox with these items, each counted for its category.
ObOf(o, owed) ==
  /\ o \in [ring : [0 .. QuCapacity - 1 -> ObItems \cup {<< >>}],
            write : Int, read : Int, queued : [ObCategories -> Nat]]
  /\ QuRingOf(o.ring, o.write, o.read, ObItems, owed)
  /\ \A c \in ObCategories : o.queued[c] = ObCount(owed, c)

ObInv == ObOf(outbox, obOwed)

\* What the pending count says.
LEMMA ObPending ==
  ASSUME NEW o, NEW owed, ObOf(o, owed)
  PROVE  QuPending(o) = Len(owed) /\ owed \in Seq(ObItems) /\ Len(owed) \in Nat
<1>1. QuRingOf(o.ring, o.write, o.read, ObItems, owed) BY DEF ObOf
<1>2. owed \in Seq(ObItems) BY <1>1 DEF QuRingOf
<1>3. Len(owed) \in Nat BY <1>2
<1>4. QuPending(o) = Len(owed) BY <1>1, QuHolds
<1> QED BY <1>2, <1>3, <1>4

\* ev_network_drop_head: the oldest goes and its category counts one less.
LEMMA ObDropKeeps ==
  ASSUME NEW o, NEW owed, ObOf(o, owed), QuPending(o) > 0
  PROVE  ObOf(ObDropHead(o), Tail(owed))
<1>1. Len(owed) > 0 /\ owed \in Seq(ObItems) BY ObPending
<1>2. /\ o \in [ring : [0 .. QuCapacity - 1 -> ObItems \cup {<< >>}],
                write : Int, read : Int, queued : [ObCategories -> Nat]]
      /\ QuRingOf(o.ring, o.write, o.read, ObItems, owed)
      /\ \A c \in ObCategories : o.queued[c] = ObCount(owed, c)
  BY DEF ObOf
<1>3. PICK r : r = (o.read + 1) % QuSeqMod OBVIOUS
<1>4. /\ QuRingOf(o.ring, o.write, r, ObItems, Tail(owed))
      /\ owed[1] = o.ring[QuIndex(o.read)] /\ owed # << >>
  BY <1>1, <1>2, <1>3, QuPopped
<1>5. PICK h : h = ObHeadCategory(o) OBVIOUS
<1>6. h = owed[1][1] BY <1>4, <1>5 DEF ObHeadCategory
<1>7. owed[1] \in ObItems BY <1>1, <1>4, CountTaken
<1>8. h \in ObCategories BY <1>6, <1>7 DEF ObItems
<1>9. \A c \in ObCategories :
        /\ ObCount(owed, c) \in Nat /\ (h = c => ObCount(owed, c) > 0)
        /\ ObCount(Tail(owed), c) = IF h = c THEN ObCount(owed, c) - 1 ELSE ObCount(owed, c)
  <2>1. SUFFICES ASSUME NEW c \in ObCategories
                 PROVE  /\ ObCount(owed, c) \in Nat /\ (h = c => ObCount(owed, c) > 0)
                        /\ ObCount(Tail(owed), c) =
                             IF h = c THEN ObCount(owed, c) - 1 ELSE ObCount(owed, c)
    OBVIOUS
  <2>2. PICK C : C = {x \in ObItems : x[1] = c} OBVIOUS
  <2>3. owed[1] \in C <=> h = c BY <1>6, <1>7, <2>2
  <2> QED BY <1>1, <1>4, <2>2, <2>3, CountTaken DEF ObCount
<1>10. PICK n \in Nat : n = IF o.queued[h] > 0 THEN o.queued[h] - 1 ELSE o.queued[h]
  BY <1>2, <1>8
<1>11. ObDropHead(o) = [o EXCEPT !.read = r, !.queued[h] = n]
  BY <1>2, <1>3, <1>5, <1>8, <1>10 DEF ObDropHead
<1>12. PICK f : f = [o.queued EXCEPT ![h] = n] OBVIOUS
<1>13. f \in [ObCategories -> Nat] BY <1>2, <1>8, <1>12
<1>14. ObDropHead(o) = [o EXCEPT !.read = r, !.queued = f] BY <1>2, <1>11, <1>12
<1>15. r \in Int
  <2>1. o.read + 1 \in Int BY <1>2
  <2> QED BY <1>3, <2>1, QuSizes, ModTurns
<1>16. PICK p : p = ObDropHead(o) OBVIOUS
<1>17. /\ p \in [ring : [0 .. QuCapacity - 1 -> ObItems \cup {<< >>}],
                 write : Int, read : Int, queued : [ObCategories -> Nat]]
       /\ p.ring = o.ring /\ p.write = o.write /\ p.read = r /\ p.queued = f
  BY <1>2, <1>13, <1>14, <1>15, <1>16
<1>18. ASSUME NEW c \in ObCategories PROVE f[c] = ObCount(Tail(owed), c)
  <2>1. o.queued[c] = ObCount(owed, c) /\ o.queued \in [ObCategories -> Nat] BY <1>2
  <2>2. CASE c = h
    <3>1. f[c] = n BY <1>12, <2>1, <2>2
    <3>2. n = ObCount(owed, c) - 1 BY <1>9, <1>10, <2>1, <2>2
    <3> QED BY <1>9, <2>2, <3>1, <3>2
  <2>3. CASE c # h
    <3>1. f[c] = o.queued[c] BY <1>12, <2>1, <2>3
    <3> QED BY <1>9, <2>1, <2>3, <3>1
  <2> QED BY <2>2, <2>3
<1> QED BY <1>4, <1>16, <1>17, <1>18 DEF ObOf

\* The store of ev_network_outbox_push: one more is counted and stored.
LEMMA ObStoreKeeps ==
  ASSUME NEW o, NEW owed, ObOf(o, owed), QuPending(o) < QuCapacity,
         NEW c \in ObCategories, NEW m \in QuItems, NEW p,
         p = [o EXCEPT !.ring[QuIndex(o.write)] = <<c, m>>,
                       !.write = (@ + 1) % QuSeqMod,
                       !.queued[c] = @ + 1]
  PROVE  ObOf(p, Append(owed, <<c, m>>))
<1>1. Len(owed) < QuCapacity /\ owed \in Seq(ObItems) BY ObPending
<1>2. /\ o \in [ring : [0 .. QuCapacity - 1 -> ObItems \cup {<< >>}],
                write : Int, read : Int, queued : [ObCategories -> Nat]]
      /\ QuRingOf(o.ring, o.write, o.read, ObItems, owed)
      /\ \A b \in ObCategories : o.queued[b] = ObCount(owed, b)
  BY DEF ObOf
<1>3. PICK x \in ObItems : x = <<c, m>> BY DEF ObItems
<1>4. x[1] = c BY <1>3
<1>5. PICK s, w, f : /\ s = [o.ring EXCEPT ![QuIndex(o.write)] = x]
                     /\ w = (o.write + 1) % QuSeqMod
                     /\ f = [o.queued EXCEPT ![c] = @ + 1]
  OBVIOUS
<1>6. p = [o EXCEPT !.ring = s, !.write = w, !.queued = f] BY <1>2, <1>3, <1>5
<1>7. QuRingOf(s, w, o.read, ObItems, Append(owed, x)) BY <1>1, <1>2, <1>5, QuPushed
<1>8. s \in [0 .. QuCapacity - 1 -> ObItems \cup {<< >>}] BY <1>7 DEF QuRingOf
<1>9. w \in Int
  <2>1. PICK a \in Int : a = o.write + 1 BY <1>2
  <2>2. a % QuSeqMod \in Int BY QuSizes, ModTurns
  <2> QED BY <1>5, <2>1, <2>2
<1>10. f \in [ObCategories -> Nat] BY <1>2, <1>5
<1>11. /\ p \in [ring : [0 .. QuCapacity - 1 -> ObItems \cup {<< >>}],
                 write : Int, read : Int, queued : [ObCategories -> Nat]]
       /\ p.ring = s /\ p.write = w /\ p.read = o.read /\ p.queued = f
  BY <1>2, <1>6, <1>8, <1>9, <1>10
<1>12. ASSUME NEW b \in ObCategories PROVE f[b] = ObCount(Append(owed, x), b)
  <2>1. o.queued[b] = ObCount(owed, b) /\ o.queued \in [ObCategories -> Nat] BY <1>2
  <2>2. f[b] = IF b = c THEN o.queued[b] + 1 ELSE o.queued[b] BY <1>5, <2>1
  <2>3. ObCount(Append(owed, x), b) = IF c = b THEN ObCount(owed, b) + 1 ELSE ObCount(owed, b)
    <3>1. PICK C : C = {y \in ObItems : y[1] = b} OBVIOUS
    <3>2. x \in C <=> c = b BY <1>4, <3>1
    <3> QED BY <1>1, <3>1, <3>2, CountAppended DEF ObCount
  <2> QED BY <2>1, <2>2, <2>3
<1> QED BY <1>3, <1>7, <1>11, <1>12 DEF ObOf

\* ev_network_outbox_push, ev_network_outbox_pop
LEMMA ObKeeps == ASSUME ObInv, [ObNext]_obVars PROVE ObInv'
<1>1. PICK o, owed : o = outbox /\ owed = obOwed OBVIOUS
<1>2. ObOf(o, owed) BY <1>1 DEF ObInv
<1>3. CASE UNCHANGED obVars BY <1>3 DEF obVars, ObInv
<1>4. CASE ObPush
  <2>1. PICK c \in ObCategories, m \in QuItems, drops \in BOOLEAN :
          LET room == IF drops THEN ObDropHead(o) ELSE o
          IN  /\ drops => QuPending(o) > 0
              /\ QuPending(room) < QuCapacity
              /\ outbox' = [room EXCEPT !.ring[QuIndex(room.write)] = <<c, m>>,
                                        !.write = (@ + 1) % QuSeqMod,
                                        !.queued[c] = @ + 1]
              /\ obOwed' = Append(IF drops THEN Tail(owed) ELSE owed, <<c, m>>)
    BY <1>1, <1>4 DEF ObPush
  <2>2. PICK room, rest : /\ room = IF drops THEN ObDropHead(o) ELSE o
                          /\ rest = IF drops THEN Tail(owed) ELSE owed
    OBVIOUS
  <2>3. ObOf(room, rest) BY <1>2, <2>1, <2>2, ObDropKeeps
  <2>4. PICK p : p = [room EXCEPT !.ring[QuIndex(room.write)] = <<c, m>>,
                                  !.write = (@ + 1) % QuSeqMod,
                                  !.queued[c] = @ + 1]
    OBVIOUS
  <2>5. QuPending(room) < QuCapacity /\ outbox' = p /\ obOwed' = Append(rest, <<c, m>>)
    BY <2>1, <2>2, <2>4
  <2>6. ObOf(p, Append(rest, <<c, m>>)) BY <2>3, <2>4, <2>5, ObStoreKeeps
  <2> QED BY <2>5, <2>6 DEF ObInv
<1>5. CASE ObPushRefused BY <1>3, <1>5 DEF ObPushRefused
<1>6. CASE ObPop
  <2>1. QuPending(o) > 0 /\ outbox' = ObDropHead(o) /\ obOwed' = Tail(owed)
    BY <1>1, <1>6 DEF ObPop
  <2>2. ObOf(ObDropHead(o), Tail(owed)) BY <1>2, <2>1, ObDropKeeps
  <2> QED BY <2>1, <2>2 DEF ObInv
<1> QED BY <1>3, <1>4, <1>5, <1>6 DEF ObNext

\* The outbox, in every state.
THEOREM ObInvHolds == ObInit /\ [][ObNext]_obVars => []ObInv
<1>1. ObInit => ObInv
  <2>1. SUFFICES ASSUME ObInit PROVE ObInv OBVIOUS
  <2>2. outbox \in [ring : [0 .. QuCapacity - 1 -> ObItems \cup {<< >>}],
                    write : Int, read : Int, queued : [ObCategories -> Nat]]
    BY <2>1 DEF ObInit
  <2>3. QuRingOf(outbox.ring, outbox.write, outbox.read, ObItems, obOwed)
    BY <2>1, QuEmpty DEF ObInit
  <2>4. ASSUME NEW c \in ObCategories PROVE outbox.queued[c] = ObCount(obOwed, c)
    <3>1. outbox.queued[c] = 0 /\ obOwed = << >> BY <2>1 DEF ObInit
    <3>2. << >> \in Seq(ObItems) OBVIOUS
    <3> QED BY <3>1, <3>2, CountSees DEF ObCount
  <2> QED BY <2>2, <2>3, <2>4 DEF ObInv, ObOf
<1>2. ObInv /\ [ObNext]_obVars => ObInv' BY ObKeeps
<1> QED BY <1>1, <1>2, PTL

-----------------------------------------------------------------------------
(* The fault registry. *)

FbRecords == [key : FbKeys, counter : Nat]

\* A record per key at most; what was emitted and not refused or handed out is
\* in the record of its key.
FbInv ==
  /\ faults \in Seq(FbRecords)
  /\ fbOut \in [emitted : [FbKeys -> Nat], gone : [FbKeys -> Nat]]
  /\ \A i, j \in 1 .. Len(faults) : faults[i].key = faults[j].key => i = j
  /\ \A i \in 1 .. Len(faults) :
       fbOut.emitted[faults[i].key] = fbOut.gone[faults[i].key] + faults[i].counter
  /\ \A k \in FbKeys : (\A i \in 1 .. Len(faults) : faults[i].key # k)
                         => fbOut.emitted[k] = fbOut.gone[k]

\* The sum over one place or none.
LEMMA FbSumOfOne ==
  ASSUME NEW f
  PROVE  FbSum({}, f) = 0 /\ \A x : f[x] \in Int => FbSum({x}, f) = f[x]
<1>1. \A S : FbSum(S, f) = SumOf(S, f)
  BY DEF FbSum, MapThenSumSet, MapThenFoldSet, SumOf
<1>2. SumOf({}, f) = 0
  <2>1. IsFiniteSet({}) BY FS_EmptySet
  <2>2. PICK g : SumsOver(SUBSET {}, f, g) /\ SumOf({}, f) = g[{}] BY <2>1, SumIsTaken
  <2> QED BY <2>2 DEF SumsOver
<1>3. ASSUME NEW x, f[x] \in Int PROVE SumOf({x}, f) = f[x]
  <2>1. PICK S : S = {x} OBVIOUS
  <2>2. IsFiniteSet(S) BY <2>1, FS_Singleton
  <2>3. PICK g : SumsOver(SUBSET S, f, g) /\ SumOf(S, f) = g[S] BY <2>2, SumIsTaken
  <2>4. PICK y : y = CHOOSE z \in S : TRUE OBVIOUS
  <2>5. y = x BY <2>1, <2>4
  <2>6. S \ {x} = {} /\ S # {} /\ {} \in SUBSET S /\ S \in SUBSET S BY <2>1
  <2>7. g[{}] = 0 BY <2>3, <2>6 DEF SumsOver
  <2>8. g[S] = f[y] + g[S \ {y}] BY <2>3, <2>4, <2>6 DEF SumsOver
  <2>9. S \ {y} = {} BY <2>5, <2>6
  <2>10. g[S] = f[x] + 0 BY <2>5, <2>7, <2>8, <2>9
  <2>11. f[x] + 0 = f[x] BY <1>3
  <2> QED BY <2>1, <2>3, <2>10, <2>11
<1> QED BY <1>1, <1>2, <1>3

\* What the first n records say of a key: its record's count, or nothing.
LEMMA FbCountedIs ==
  ASSUME faults \in Seq(FbRecords),
         \A i, j \in 1 .. Len(faults) : faults[i].key = faults[j].key => i = j,
         NEW n \in Nat, n <= Len(faults), NEW k
  PROVE  /\ (\A i \in 1 .. n : faults[i].key # k) => FbCounted(k, n) = 0
         /\ \A i \in 1 .. n : faults[i].key = k => FbCounted(k, n) = faults[i].counter
<1>1. PICK P, f : /\ P = {i \in 1 .. n : faults[i].key = k}
                  /\ f = [i \in 1 .. n |-> faults[i].counter]
  OBVIOUS
<1>2. FbCounted(k, n) = FbSum(P, f) BY <1>1 DEF FbCounted
<1>3. \A i \in 1 .. n : i \in 1 .. Len(faults) OBVIOUS
<1>4. ASSUME \A i \in 1 .. n : faults[i].key # k PROVE FbCounted(k, n) = 0
  <2>1. P = {} BY <1>1, <1>4
  <2> QED BY <1>2, <2>1, FbSumOfOne
<1>5. ASSUME NEW i \in 1 .. n, faults[i].key = k PROVE FbCounted(k, n) = faults[i].counter
  <2>1. \A j \in 1 .. n : faults[j].key = k <=> j = i BY <1>3, <1>5
  <2>2. P = {i} BY <1>1, <2>1, Zenon
  <2>3. f[i] = faults[i].counter /\ faults[i] \in FbRecords BY <1>1, <1>3
  <2>4. f[i] \in Int BY <2>3 DEF FbRecords
  <2>5. FbSum({i}, f) = f[i] BY <2>4, FbSumOfOne
  <2> QED BY <1>2, <2>2, <2>3, <2>5
<1> QED BY <1>4, <1>5

\* ev_fault_emit, ev_fault_drain, ev_fault_ack_all
LEMMA FbKeeps == ASSUME FbInv, [FbNext]_fbVars PROVE FbInv'
<1>1. PICK n, s, em, gn : /\ n = Len(faults) /\ s = faults
                          /\ em = fbOut.emitted /\ gn = fbOut.gone
  OBVIOUS
<1>2. /\ s \in Seq(FbRecords) /\ n \in Nat /\ n = Len(s)
      /\ fbOut \in [emitted : [FbKeys -> Nat], gone : [FbKeys -> Nat]]
      /\ em \in [FbKeys -> Nat] /\ gn \in [FbKeys -> Nat]
      /\ \A i, j \in 1 .. n : s[i].key = s[j].key => i = j
      /\ \A i \in 1 .. n : em[s[i].key] = gn[s[i].key] + s[i].counter
      /\ \A k \in FbKeys : (\A i \in 1 .. n : s[i].key # k) => em[k] = gn[k]
  <2>1. s \in Seq(FbRecords) BY <1>1 DEF FbInv
  <2>2. n \in Nat /\ n = Len(s) BY <1>1, <2>1
  <2>3. fbOut \in [emitted : [FbKeys -> Nat], gone : [FbKeys -> Nat]] BY DEF FbInv
  <2>4. em \in [FbKeys -> Nat] /\ gn \in [FbKeys -> Nat] BY <1>1, <2>3
  <2>5. \A i, j \in 1 .. n : s[i].key = s[j].key => i = j BY <1>1, Zenon DEF FbInv
  <2>6. \A i \in 1 .. n : em[s[i].key] = gn[s[i].key] + s[i].counter
    BY <1>1, Zenon DEF FbInv
  <2>7. \A k \in FbKeys : (\A i \in 1 .. n : s[i].key # k) => em[k] = gn[k]
    BY <1>1, Zenon DEF FbInv
  <2> QED BY <2>1, <2>2, <2>3, <2>4, <2>5, <2>6, <2>7
<1>3. \A i \in 1 .. n : s[i].key \in FbKeys /\ s[i].counter \in Nat /\ s[i] \in FbRecords
  <2>1. \A i \in 1 .. n : s[i] \in FbRecords BY <1>2
  <2>2. \A x \in FbRecords : x.key \in FbKeys /\ x.counter \in Nat BY DEF FbRecords
  <2> QED BY <2>1, <2>2
<1>4. CASE UNCHANGED fbVars BY <1>4 DEF fbVars, FbInv
<1>5. CASE FbEmit
  <2>1. PICK k \in FbKeys :
          LET set == {i \in 1 .. n : s[i].key = k}
          IN  /\ faults' = IF set # {}
                             THEN [s EXCEPT ![Min(set)].counter = @ + 1]
                           ELSE IF n >= FbCapacity THEN s
                           ELSE Append(s, [key |-> k, counter |-> 1])
              /\ fbOut' = [emitted |-> [em EXCEPT ![k] = @ + 1],
                           gone |-> IF set = {} /\ n >= FbCapacity
                                      THEN [gn EXCEPT ![k] = @ + 1] ELSE gn]
    BY <1>1, <1>5 DEF FbEmit
  <2>2. PICK same : same = {i \in 1 .. n : s[i].key = k} OBVIOUS
  <2>3. /\ same = {i \in 1 .. n : s[i].key = k}
        /\ faults' = IF same # {}
                       THEN [s EXCEPT ![Min(same)].counter = @ + 1]
                     ELSE IF n >= FbCapacity THEN s
                     ELSE Append(s, [key |-> k, counter |-> 1])
        /\ fbOut' = [emitted |-> [em EXCEPT ![k] = @ + 1],
                     gone |-> IF same = {} /\ n >= FbCapacity
                                THEN [gn EXCEPT ![k] = @ + 1] ELSE gn]
    BY <2>1, <2>2
  <2>4. PICK em2 : em2 = [em EXCEPT ![k] = @ + 1] OBVIOUS
  <2>5. /\ em2 \in [FbKeys -> Nat] /\ em2[k] = em[k] + 1
        /\ \A c \in FbKeys : c # k => em2[c] = em[c]
    BY <1>2, <2>4
  <2>6. CASE same # {}
    <3>1. same \in SUBSET Nat BY <1>2, <2>3
    <3>2. PICK j : j = Min(same) OBVIOUS
    <3>3. j \in same BY <2>6, <3>1, <3>2, MinIsLeast
    <3>4. j \in 1 .. n /\ s[j].key = k BY <2>3, <3>3
    <3>5. PICK y \in FbRecords : y = s[j] BY <1>3, <3>4
    <3>6. y.counter + 1 \in Nat /\ y.key = k BY <3>4, <3>5 DEF FbRecords
    <3>7. [y EXCEPT !.counter = @ + 1] \in FbRecords BY <3>6 DEF FbRecords
    <3>8. PICK x \in FbRecords : x = [y EXCEPT !.counter = @ + 1] BY <3>7
    <3>9. x.key = k /\ x.counter = s[j].counter + 1 BY <3>5, <3>6, <3>8 DEF FbRecords
    <3>10. PICK t : t = [s EXCEPT ![j] = x] OBVIOUS
    <3>11. faults' = t /\ fbOut' = [emitted |-> em2, gone |-> gn]
      BY <2>3, <2>4, <2>6, <3>2, <3>5, <3>8, <3>10
    <3>12. t \in Seq(FbRecords) /\ Len(t) = n BY <1>2, <3>4, <3>10
    <3>13. \A i \in 1 .. n : t[i] = IF i = j THEN x ELSE s[i] BY <1>2, <3>4, <3>10
    <3>14. \A i \in 1 .. n : t[i].key = s[i].key BY <3>4, <3>9, <3>13
    <3>15. \A i, l \in 1 .. n : t[i].key = t[l].key => i = l BY <1>2, <3>14
    <3>16. ASSUME NEW i \in 1 .. n PROVE em2[t[i].key] = gn[t[i].key] + t[i].counter
      <4>1. CASE i = j
        <5>1. em[k] = gn[k] + s[j].counter BY <1>2, <3>4
        <5>2. t[i].key = k /\ t[i].counter = s[j].counter + 1 BY <3>9, <3>13, <4>1
        <5>3. gn[k] \in Nat /\ s[j].counter \in Nat BY <1>2, <1>3, <3>4
        <5> QED BY <2>5, <5>1, <5>2, <5>3
      <4>2. CASE i # j
        <5>1. t[i] = s[i] /\ s[i].key # k BY <1>2, <3>4, <3>13, <4>2
        <5> QED BY <1>2, <1>3, <2>5, <5>1
      <4> QED BY <4>1, <4>2
    <3>17. ASSUME NEW c \in FbKeys, \A i \in 1 .. n : t[i].key # c PROVE em2[c] = gn[c]
      <4>1. c # k BY <3>4, <3>14, <3>17
      <4>2. \A i \in 1 .. n : s[i].key # c BY <3>14, <3>17
      <4>3. em[c] = gn[c] BY <1>2, <4>2
      <4> QED BY <2>5, <4>1, <4>3
    <3>18. /\ fbOut' \in [emitted : [FbKeys -> Nat], gone : [FbKeys -> Nat]]
           /\ fbOut'.emitted = em2 /\ fbOut'.gone = gn
      BY <1>2, <2>5, <3>11
    <3> QED BY <3>11, <3>12, <3>15, <3>16, <3>17, <3>18 DEF FbInv
  <2>7. CASE same = {}
    <3>1. \A i \in 1 .. n : s[i].key # k BY <2>3, <2>7
    <3>2. em[k] = gn[k] BY <1>2, <3>1
    <3>3. CASE n >= FbCapacity
      <4>1. PICK gn2 : gn2 = [gn EXCEPT ![k] = @ + 1] OBVIOUS
      <4>2. /\ gn2 \in [FbKeys -> Nat] /\ gn2[k] = gn[k] + 1
            /\ \A c \in FbKeys : c # k => gn2[c] = gn[c]
        BY <1>2, <4>1
      <4>3. faults' = s /\ fbOut' = [emitted |-> em2, gone |-> gn2]
        BY <2>3, <2>4, <2>7, <3>3, <4>1
      <4>4. /\ fbOut' \in [emitted : [FbKeys -> Nat], gone : [FbKeys -> Nat]]
            /\ fbOut'.emitted = em2 /\ fbOut'.gone = gn2
        BY <2>5, <4>2, <4>3
      <4>5. ASSUME NEW i \in 1 .. n PROVE em2[s[i].key] = gn2[s[i].key] + s[i].counter
        BY <1>2, <1>3, <2>5, <3>1, <4>2
      <4>6. ASSUME NEW c \in FbKeys, \A i \in 1 .. n : s[i].key # c PROVE em2[c] = gn2[c]
        <5>1. em[c] = gn[c] BY <1>2, <4>6
        <5>2. CASE c = k BY <2>5, <4>2, <5>1, <5>2
        <5>3. CASE c # k BY <2>5, <4>2, <5>1, <5>3
        <5> QED BY <5>2, <5>3
      <4> QED BY <1>2, <4>3, <4>4, <4>5, <4>6 DEF FbInv
    <3>4. CASE ~(n >= FbCapacity)
      <4>1. PICK x \in FbRecords : x = [key |-> k, counter |-> 1] BY DEF FbRecords
      <4>2. x.key = k /\ x.counter = 1 BY <4>1
      <4>3. PICK t : t = Append(s, x) OBVIOUS
      <4>4. faults' = t /\ fbOut' = [emitted |-> em2, gone |-> gn]
        BY <2>3, <2>4, <2>7, <3>4, <4>1, <4>3
      <4>5. /\ t \in Seq(FbRecords) /\ Len(t) = n + 1 /\ t[n + 1] = x
            /\ \A i \in 1 .. n : t[i] = s[i]
        BY <1>2, <4>1, <4>3
      <4>6. \A i \in 1 .. n + 1 : i \in 1 .. n \/ i = n + 1 BY <1>2
      <4>7. \A i, l \in 1 .. n + 1 : t[i].key = t[l].key => i = l
        <5>1. \A i \in 1 .. n : t[i].key = s[i].key /\ t[i].key # k BY <3>1, <4>5
        <5>2. t[n + 1].key = k BY <4>2, <4>5
        <5>3. \A i, l \in 1 .. n : t[i].key = t[l].key => i = l BY <1>2, <5>1
        <5> QED BY <4>6, <5>1, <5>2, <5>3, Zenon
      <4>8. ASSUME NEW i \in 1 .. n + 1 PROVE em2[t[i].key] = gn[t[i].key] + t[i].counter
        <5>1. CASE i = n + 1
          <6>1. t[i].key = k /\ t[i].counter = 1 BY <4>2, <4>5, <5>1
          <6>2. em2[k] = gn[k] + 1 BY <2>5, <3>2
          <6> QED BY <6>1, <6>2
        <5>2. CASE i \in 1 .. n
          <6>1. t[i] = s[i] /\ s[i].key # k BY <3>1, <4>5, <5>2
          <6> QED BY <1>2, <1>3, <2>5, <5>2, <6>1
        <5> QED BY <4>6, <5>1, <5>2
      <4>9. ASSUME NEW c \in FbKeys, \A i \in 1 .. n + 1 : t[i].key # c PROVE em2[c] = gn[c]
        <5>1. n + 1 \in 1 .. n + 1 /\ \A i \in 1 .. n : i \in 1 .. n + 1 BY <1>2
        <5>2. c # k BY <4>2, <4>5, <4>9, <5>1
        <5>3. \A i \in 1 .. n : s[i].key # c BY <4>5, <4>9, <5>1
        <5> QED BY <1>2, <2>5, <5>2, <5>3
      <4>10. /\ fbOut' \in [emitted : [FbKeys -> Nat], gone : [FbKeys -> Nat]]
             /\ fbOut'.emitted = em2 /\ fbOut'.gone = gn
        BY <1>2, <2>5, <4>4
      <4> QED BY <4>4, <4>5, <4>7, <4>8, <4>9, <4>10 DEF FbInv
    <3> QED BY <3>3, <3>4
  <2> QED BY <2>6, <2>7
<1>6. CASE FbDrain
  <2>1. PICK d \in 1 .. n :
          /\ faults' = SubSeq(s, d + 1, n)
          /\ fbOut' = [fbOut EXCEPT !.gone = [k \in FbKeys |-> @[k] + FbCounted(k, d)]]
    BY <1>1, <1>6 DEF FbDrain
  <2>2. d \in Nat /\ d <= n /\ d + 1 \in Int /\ n \in Int BY <1>2, <2>1
  <2>3. PICK t : t = SubSeq(s, d + 1, n) OBVIOUS
  <2>4. \A i \in d + 1 .. n : s[i] \in FbRecords BY <1>3, <2>2
  <2>5. /\ t \in Seq(FbRecords)
        /\ Len(t) = IF d + 1 <= n THEN n - (d + 1) + 1 ELSE 0
        /\ \A i \in 1 .. n - (d + 1) + 1 : t[i] = s[d + 1 + i - 1]
    BY <2>2, <2>3, <2>4, SubSeqProperties
  <2>6. Len(t) = n - d BY <2>2, <2>5
  <2>7. \A i \in 1 .. n - d : t[i] = s[d + i] /\ d + i \in 1 .. n /\ ~(d + i \in 1 .. d)
    BY <1>2, <2>2, <2>5
  <2>8. \A i \in 1 .. n : i \in 1 .. d \/ (i - d \in 1 .. n - d /\ s[i] = t[i - d])
    <3>1. SUFFICES ASSUME NEW i \in 1 .. n, ~(i \in 1 .. d)
                   PROVE  i - d \in 1 .. n - d /\ s[i] = t[i - d]
      OBVIOUS
    <3>2. i - d \in 1 .. n - d /\ d + (i - d) = i BY <1>2, <2>2, <3>1
    <3> QED BY <2>7, <3>2
  <2>9. ASSUME NEW k \in FbKeys
        PROVE  /\ (\A i \in 1 .. d : s[i].key # k) => FbCounted(k, d) = 0
               /\ \A i \in 1 .. d : s[i].key = k => FbCounted(k, d) = s[i].counter
    BY <1>1, <1>2, <2>2, FbCountedIs
  <2>10. \A i \in 1 .. d : i \in 1 .. n BY <1>2, <2>2
  <2>11. ASSUME NEW k \in FbKeys PROVE FbCounted(k, d) \in Nat
    <3>1. CASE \A i \in 1 .. d : s[i].key # k BY <2>9, <3>1
    <3>2. CASE \E i \in 1 .. d : s[i].key = k BY <1>3, <2>9, <2>10, <3>2
    <3> QED BY <3>1, <3>2
  <2>12. PICK gn2 : gn2 = [k \in FbKeys |-> gn[k] + FbCounted(k, d)] OBVIOUS
  <2>13. gn2 \in [FbKeys -> Nat] BY <1>2, <2>11, <2>12
  <2>14. fbOut' = [fbOut EXCEPT !.gone = gn2] BY <1>1, <1>2, <2>1, <2>12
  <2>15. /\ fbOut' \in [emitted : [FbKeys -> Nat], gone : [FbKeys -> Nat]]
         /\ fbOut'.emitted = em /\ fbOut'.gone = gn2
    BY <1>1, <1>2, <2>13, <2>14
  <2>16. \A i, l \in 1 .. n - d : t[i].key = t[l].key => i = l
    <3>1. SUFFICES ASSUME NEW i \in 1 .. n - d, NEW l \in 1 .. n - d, t[i].key = t[l].key
                   PROVE  i = l
      OBVIOUS
    <3>2. d + i = d + l BY <1>2, <2>7, <3>1
    <3> QED BY <2>2, <3>2
  <2>17. ASSUME NEW i \in 1 .. n - d PROVE em[t[i].key] = gn2[t[i].key] + t[i].counter
    <3>1. PICK j : j = d + i OBVIOUS
    <3>2. j \in 1 .. n /\ ~(j \in 1 .. d) /\ t[i] = s[j] BY <2>7, <3>1
    <3>3. PICK k : k = s[j].key OBVIOUS
    <3>4. k \in FbKeys /\ s[j].counter \in Nat BY <1>3, <3>2, <3>3
    <3>5. \A l \in 1 .. d : s[l].key # k BY <1>2, <2>10, <3>2, <3>3
    <3>6. FbCounted(k, d) = 0 BY <2>9, <3>4, <3>5
    <3>7. gn2[k] = gn[k] BY <1>2, <2>12, <3>4, <3>6
    <3> QED BY <1>2, <3>2, <3>3, <3>7
  <2>18. ASSUME NEW k \in FbKeys, \A i \in 1 .. n - d : t[i].key # k PROVE em[k] = gn2[k]
    <3>1. gn2[k] = gn[k] + FbCounted(k, d) /\ gn[k] \in Nat BY <1>2, <2>12
    <3>2. CASE \E i \in 1 .. d : s[i].key = k
      <4>1. PICK i \in 1 .. d : s[i].key = k BY <3>2
      <4>2. FbCounted(k, d) = s[i].counter BY <2>9, <4>1
      <4>3. em[k] = gn[k] + s[i].counter BY <1>2, <2>10, <4>1
      <4> QED BY <3>1, <4>2, <4>3
    <3>3. CASE \A i \in 1 .. d : s[i].key # k
      <4>1. \A i \in 1 .. n : s[i].key # k BY <2>8, <2>18, <3>3
      <4>2. em[k] = gn[k] BY <1>2, <4>1
      <4>3. FbCounted(k, d) = 0 BY <2>9, <3>3
      <4> QED BY <3>1, <4>2, <4>3
    <3> QED BY <3>2, <3>3
  <2>19. faults' \in Seq(FbRecords) /\ Len(faults') = n - d /\ faults' = t
    BY <2>1, <2>3, <2>5, <2>6
  <2> QED BY <2>15, <2>16, <2>17, <2>18, <2>19 DEF FbInv
<1>7. CASE FbQuiet BY <1>4, <1>7 DEF FbQuiet
<1> QED BY <1>4, <1>5, <1>6, <1>7 DEF FbNext

\* The fault registry, in every state.
THEOREM FbInvHolds == FbInit /\ [][FbNext]_fbVars => []FbInv
<1>1. FbInit => FbInv
  <2>1. SUFFICES ASSUME FbInit PROVE FbInv OBVIOUS
  <2>2. /\ faults = << >>
        /\ fbOut = [emitted |-> [k \in FbKeys |-> 0], gone |-> [k \in FbKeys |-> 0]]
    BY <2>1 DEF FbInit
  <2>3. Len(faults) = 0 /\ faults \in Seq(FbRecords) BY <2>2
  <2>4. \A i \in 1 .. 0 : FALSE OBVIOUS
  <2>5. fbOut \in [emitted : [FbKeys -> Nat], gone : [FbKeys -> Nat]] BY <2>2
  <2>6. \A k \in FbKeys : fbOut.emitted[k] = fbOut.gone[k] BY <2>2
  <2> QED BY <2>3, <2>4, <2>5, <2>6 DEF FbInv
<1>2. FbInv /\ [FbNext]_fbVars => FbInv' BY FbKeeps
<1> QED BY <1>1, <1>2, PTL

-----------------------------------------------------------------------------
(* What the three stores promise together. *)

\* QueuesConserve follows from the three invariants.
LEMMA StoresConserve == ASSUME InInv, ObInv, FbInv PROVE QueuesConserve
<1>1. QuContents(ingress) = inOwed BY QuHolds DEF InInv
<1>2. QuContents(outbox) = obOwed BY QuHolds DEF ObInv, ObOf
<1>3. ASSUME NEW c \in ObCategories
      PROVE  outbox.queued[c] = Cardinality({i \in 1 .. Len(obOwed) : obOwed[i][1] = c})
  <2>1. obOwed \in Seq(ObItems) BY ObPending DEF ObInv
  <2>2. \A i \in 1 .. Len(obOwed) : obOwed[i] \in ObItems BY <2>1
  <2>3. PICK C : C = {x \in ObItems : x[1] = c} OBVIOUS
  <2>4. {i \in 1 .. Len(obOwed) : obOwed[i][1] = c} = {i \in 1 .. Len(obOwed) : obOwed[i] \in C}
    BY <2>2, <2>3
  <2> QED BY <2>3, <2>4 DEF ObInv, ObOf, ObCount, CountIn
<1>4. ASSUME NEW k \in FbKeys
      PROVE  /\ Cardinality({i \in 1 .. Len(faults) : faults[i].key = k}) <= 1
             /\ fbOut.emitted[k] = fbOut.gone[k] + FbCounted(k, Len(faults))
  <2>1. PICK n : n = Len(faults) OBVIOUS
  <2>2. /\ faults \in Seq(FbRecords) /\ n \in Nat /\ n <= Len(faults)
        /\ \A i, j \in 1 .. n : faults[i].key = faults[j].key => i = j
        /\ fbOut.gone[k] \in Nat
    BY <2>1 DEF FbInv
  <2>3. /\ (\A i \in 1 .. n : faults[i].key # k) => FbCounted(k, n) = 0
        /\ \A i \in 1 .. n : faults[i].key = k => FbCounted(k, n) = faults[i].counter
    BY <2>1, <2>2, FbCountedIs
  <2>4. PICK P : P = {i \in 1 .. n : faults[i].key = k} OBVIOUS
  <2>5. CASE \A i \in 1 .. n : faults[i].key # k
    <3>1. P = {} BY <2>4, <2>5
    <3>2. Cardinality(P) <= 1 BY <3>1, FS_EmptySet
    <3>3. fbOut.emitted[k] = fbOut.gone[k] BY <2>1, <2>5 DEF FbInv
    <3> QED BY <2>1, <2>2, <2>3, <2>4, <2>5, <3>2, <3>3
  <2>6. CASE \E i \in 1 .. n : faults[i].key = k
    <3>1. PICK i \in 1 .. n : faults[i].key = k BY <2>6
    <3>2. \A j \in 1 .. n : faults[j].key = k <=> j = i BY <2>2, <3>1
    <3>3. P = {i} BY <2>4, <3>2, Zenon
    <3>4. Cardinality(P) <= 1 BY <3>3, FS_Singleton
    <3>5. fbOut.emitted[k] = fbOut.gone[k] + faults[i].counter BY <2>1, <3>1 DEF FbInv
    <3> QED BY <2>1, <2>3, <2>4, <3>1, <3>4, <3>5
  <2> QED BY <2>5, <2>6
<1> QED BY <1>1, <1>2, <1>3, <1>4 DEF QueuesConserve

\* ev_ingress_service.c, ev_network_outbox.c, ev_fault_bus.c: nothing that was accepted
\* is lost, repeated or overtaken, and the counts the limits are judged by are right,
\* for every capacity, every limit and every width of the sequence numbers that the
\* capacity divides.
THEOREM StoresConserveAll == Spec => []QueuesConserve
<1>1. Init => InInit /\ ObInit /\ FbInit BY DEF Init
<1>2. [Next]_servicesVars => [InNext]_inVars /\ [ObNext]_obVars /\ [FbNext]_fbVars
  BY DEF Next, servicesVars
<1> QED BY <1>1, <1>2, InInvHolds, ObInvHolds, FbInvHolds, StoresConserve, PTL DEF Spec

-----------------------------------------------------------------------------
(* The payload slots of long messages. *)

NpMsgs == [slot : 0 .. NpSlotCount, generation : Nat]
NpSlotStates == [in_use : BOOLEAN, refcount : Nat, generation : Nat, filled : BOOLEAN]
NpStates == [slot : [NpSlots -> NpSlotStates], used : Nat]

\* The messages of a slot, and who holds one: the task, the main loop, the ring, the
\* two mailboxes.
NpOf(i) == {m \in NpMsgs : m.slot = i}
NpBit(m, i) == IF m.slot = i THEN 1 ELSE 0
NpBoxed(b, i) == CountIn(b["ACT_NETWORK"], NpOf(i)) + CountIn(b["ACT_COMMAND"], NpOf(i))
NpHeld(t, m, r, b) ==
  [i \in NpSlots |-> NpBit(t, i) + NpBit(m, i) + CountIn(r, NpOf(i)) + NpBoxed(b, i)]

\* One more, or one less, holds this message.
NpPlus(h, m) == [i \in NpSlots |-> h[i] + NpBit(m, i)]
NpMinus(h, m) == [i \in NpSlots |-> h[i] - NpBit(m, i)]

\* The slots are counted right.
NpAgrees(n, h) ==
  /\ n \in NpStates /\ h \in [NpSlots -> Nat]
  /\ \A i \in NpSlots : n.slot[i].refcount = h[i]
  /\ \A i \in NpSlots : n.slot[i].in_use <=> h[i] > 0
  /\ n.used = Cardinality({i \in NpSlots : n.slot[i].in_use})

\* A slot that is held is not given away or overwritten.
NpSame(n, k, h) ==
  \A i \in NpSlots : h[i] > 0 => /\ k.slot[i].generation = n.slot[i].generation
                                 /\ k.slot[i].filled = n.slot[i].filled

\* A message finds what it was sent with.
NpFits(n, m) ==
  m.slot # 0 => n.slot[m.slot].generation = m.generation /\ n.slot[m.slot].filled

NpPlaced(m, r, b, x) ==
  \/ x = m
  \/ \E j \in 1 .. Len(r) : x = r[j]
  \/ \E a \in NpActors : \E j \in 1 .. Len(b[a]) : x = b[a][j]

NpFitsAll(n, m, r, b) == \A x \in NpMsgs : NpPlaced(m, r, b, x) => NpFits(n, x)

NpTypes ==
  /\ npTask \in [do : {"idle", "fill", "push", "release"}, msg : NpMsgs]
  /\ npMain \in [do : {"idle", "dispose"} \cup NpActors, msg : NpMsgs]
  /\ npRing \in Seq(NpMsgs) /\ npBox \in [NpActors -> Seq(NpMsgs)]

\* The message the task is working on.
NpTaskFits(n, t) ==
  /\ t.msg.slot # 0 => /\ n.slot[t.msg.slot].generation = t.msg.generation
                       /\ n.slot[t.msg.slot].filled \/ t.do = "fill"
  /\ t.do = "fill" => t.msg.slot # 0

NpInv ==
  /\ NpTypes
  /\ NpAgrees(np, NpHeld(npTask.msg, npMain.msg, npRing, npBox))
  /\ NpFitsAll(np, npMain.msg, npRing, npBox)
  /\ NpTaskFits(np, npTask)

\* The numbers, and the two actors.
LEMMA NpSizes ==
  /\ NpSlotCount \in Nat /\ NpSlotCount > 0 /\ NpGenMod \in Nat /\ NpGenMod > 2
  /\ NpActors = {"ACT_NETWORK", "ACT_COMMAND"}
  /\ NpRoutes[1] = "ACT_NETWORK" /\ NpRoutes[2] = "ACT_COMMAND"
  /\ NpInline \in NpMsgs /\ NpInline.slot = 0 /\ \A i \in NpSlots : i \in Nat /\ i # 0
<1>1. /\ NpSlotCount \in Nat /\ NpSlotCount > 0 /\ NpGenMod \in Nat /\ NpGenMod > 2
  BY NpAssumption
<1>2. DOMAIN NpRoutes = {1, 2} /\ NpRoutes[1] = "ACT_NETWORK" /\ NpRoutes[2] = "ACT_COMMAND"
  BY DEF NpRoutes
<1>3. NpActors = {"ACT_NETWORK", "ACT_COMMAND"} BY <1>2 DEF NpActors
<1>4. NpInline \in NpMsgs /\ NpInline.slot = 0 BY <1>1 DEF NpInline, NpMsgs
<1>5. \A i \in NpSlots : i \in Nat /\ i # 0 BY <1>1 DEF NpSlots
<1> QED BY <1>1, <1>2, <1>3, <1>4, <1>5

\* The slots in use are finitely many.
LEMMA NpSlotsFinite ==
  ASSUME NEW T \in SUBSET NpSlots
  PROVE  IsFiniteSet(T) /\ Cardinality(T) \in Nat
  BY NpSizes, PlacesCounted DEF NpSlots

\* One slot changes, and with it the count of those in use.
LEMMA NpSlotChanges ==
  ASSUME NEW n, NEW h, NpAgrees(n, h), NEW j \in NpSlots, NEW x \in NpSlotStates,
         NEW k, k = [slot |-> [n.slot EXCEPT ![j] = x], used |-> k.used],
         NEW g \in [NpSlots -> Nat], \A i \in NpSlots : i # j => g[i] = h[i],
         x.refcount = g[j], x.in_use <=> g[j] > 0,
         k.used = CASE x.in_use /\ ~n.slot[j].in_use -> n.used + 1
                    [] ~x.in_use /\ n.slot[j].in_use -> n.used - 1
                    [] OTHER -> n.used
  PROVE  /\ NpAgrees(k, g) /\ k.slot[j] = x /\ \A i \in NpSlots : i # j => k.slot[i] = n.slot[i]
<1>1. /\ n \in NpStates /\ h \in [NpSlots -> Nat]
      /\ \A i \in NpSlots : n.slot[i].refcount = h[i]
      /\ \A i \in NpSlots : n.slot[i].in_use <=> h[i] > 0
      /\ n.used = Cardinality({i \in NpSlots : n.slot[i].in_use})
  BY DEF NpAgrees
<1>2. n.slot \in [NpSlots -> NpSlotStates] BY <1>1 DEF NpStates
<1>3. PICK s : s = [n.slot EXCEPT ![j] = x] OBVIOUS
<1>4. s \in [NpSlots -> NpSlotStates] /\ k.slot = s BY <1>2, <1>3
<1>5. s[j] = x /\ \A i \in NpSlots : i # j => s[i] = n.slot[i] BY <1>2, <1>3
<1>6. PICK A, B : A = {i \in NpSlots : n.slot[i].in_use} /\ B = {i \in NpSlots : s[i].in_use}
  OBVIOUS
<1>7. IsFiniteSet(A) /\ Cardinality(A) \in Nat /\ Cardinality(B) \in Nat
  BY <1>6, NpSlotsFinite
<1>8. (j \in A <=> n.slot[j].in_use) /\ (j \in B <=> x.in_use) BY <1>5, <1>6
<1>9. \A i \in NpSlots : i # j => (i \in A <=> i \in B) BY <1>5, <1>6
<1>10. A \subseteq NpSlots /\ B \subseteq NpSlots BY <1>6
<1>11. n.used = Cardinality(A) BY <1>1, <1>6
<1>12. k.used = Cardinality(B)
  <2>1. CASE x.in_use /\ ~n.slot[j].in_use
    <3>1. B = A \cup {j} /\ ~ j \in A BY <1>8, <1>9, <1>10, <2>1
    <3>2. Cardinality(B) = Cardinality(A) + 1 BY <1>7, <3>1, FS_AddElement
    <3>3. k.used = n.used + 1 BY <2>1
    <3> QED BY <1>11, <3>2, <3>3
  <2>2. CASE ~x.in_use /\ n.slot[j].in_use
    <3>1. B = A \ {j} /\ j \in A BY <1>8, <1>9, <1>10, <2>2
    <3>2. Cardinality(B) = Cardinality(A) - 1 BY <1>7, <3>1, FS_RemoveElement
    <3>3. k.used = n.used - 1 BY <2>2
    <3> QED BY <1>11, <3>2, <3>3
  <2>3. CASE x.in_use <=> n.slot[j].in_use
    <3>1. j \in A <=> j \in B BY <1>8, <2>3, Zenon
    <3>2. \A i \in NpSlots : i \in A <=> i \in B BY <1>9, <3>1, Zenon
    <3>3. B = A BY <1>10, <3>2, Zenon
    <3>4. k.used = n.used BY <2>3
    <3> QED BY <1>11, <3>3, <3>4
  <2> QED BY <2>1, <2>2, <2>3
<1>13. k \in NpStates BY <1>4, <1>7, <1>12 DEF NpStates
<1>14. \A i \in NpSlots : s[i].refcount = g[i] BY <1>1, <1>5
<1>15. \A i \in NpSlots : s[i].in_use <=> g[i] > 0
  <2>1. SUFFICES ASSUME NEW i \in NpSlots PROVE s[i].in_use <=> g[i] > 0 OBVIOUS
  <2>2. CASE i = j BY <1>5, <2>2
  <2>3. CASE i # j
    <3>1. s[i] = n.slot[i] /\ g[i] = h[i] BY <1>5, <2>3
    <3> QED BY <1>1, <3>1
  <2> QED BY <2>2, <2>3
<1>16. NpAgrees(k, g) BY <1>4, <1>6, <1>12, <1>13, <1>14, <1>15 DEF NpAgrees
<1> QED BY <1>4, <1>5, <1>16

\* ev_esp8266_net_acquire_payload_slot: a free slot has no holder, and gets one.
LEMMA NpAcquiredAgrees ==
  ASSUME NEW h, NpAgrees(np, h), NEW i \in NpFree
  PROVE  /\ i \in NpSlots /\ h[i] = 0
         /\ NpAcquired(i).slot[i].generation \in Nat
         /\ NpSame(np, NpAcquired(i), h)
         /\ \A g \in [NpSlots -> Nat] :
              g[i] = 1 /\ (\A l \in NpSlots : l # i => g[l] = h[l]) => NpAgrees(NpAcquired(i), g)
<1>1. /\ np \in NpStates /\ h \in [NpSlots -> Nat]
      /\ \A l \in NpSlots : np.slot[l].in_use <=> h[l] > 0
  BY DEF NpAgrees
<1>2. i \in NpSlots /\ ~np.slot[i].in_use BY DEF NpFree
<1>3. h[i] = 0 BY <1>1, <1>2
<1>4. np.slot \in [NpSlots -> NpSlotStates] BY <1>1 DEF NpStates
<1>5. np.slot[i].generation \in Nat BY <1>2, <1>4 DEF NpSlotStates
<1>6. PICK e : e = NpNextGeneration(np.slot[i].generation) OBVIOUS
<1>7. e \in Nat
  <2>1. PICK a \in Int : a = np.slot[i].generation + 1 BY <1>5
  <2>2. a % NpGenMod \in Nat
    <3>1. NpGenMod \in Nat /\ NpGenMod > 0 BY NpSizes
    <3>2. a % NpGenMod \in 0 .. NpGenMod - 1 BY <3>1, ModTurns
    <3> QED BY <3>2
  <2> QED BY <1>6, <2>1, <2>2 DEF NpNextGeneration
<1>8. PICK x \in NpSlotStates :
        x = [in_use |-> TRUE, refcount |-> 1, filled |-> FALSE, generation |-> e]
  BY <1>7 DEF NpSlotStates
<1>9. PICK k : k = NpAcquired(i) OBVIOUS
<1>10. k = [slot |-> [np.slot EXCEPT ![i] = x], used |-> np.used + 1]
  BY <1>2, <1>4, <1>6, <1>8, <1>9 DEF NpAcquired
<1>11. k.slot[i] = x /\ \A l \in NpSlots : l # i => k.slot[l] = np.slot[l]
  BY <1>2, <1>4, <1>10
<1>12. ASSUME NEW g \in [NpSlots -> Nat], g[i] = 1, \A l \in NpSlots : l # i => g[l] = h[l]
       PROVE  NpAgrees(k, g)
  <2>1. k = [slot |-> [np.slot EXCEPT ![i] = x], used |-> k.used] /\ k.used = np.used + 1
    BY <1>10
  <2>2. x.refcount = 1 /\ x.in_use BY <1>8
  <2>3. x.in_use <=> g[i] > 0 BY <1>12, <2>2
  <2>4. k.used = CASE x.in_use /\ ~np.slot[i].in_use -> np.used + 1
                   [] ~x.in_use /\ np.slot[i].in_use -> np.used - 1
                   [] OTHER -> np.used
    BY <1>2, <2>1, <2>2
  <2>5. x.refcount = g[i] BY <1>12, <2>2
  <2> QED BY <1>2, <1>12, <2>1, <2>3, <2>4, <2>5, NpSlotChanges
<1>13. NpSame(np, k, h) BY <1>3, <1>11 DEF NpSame
<1>14. k.slot[i].generation \in Nat BY <1>7, <1>8, <1>11
<1> QED BY <1>2, <1>3, <1>9, <1>12, <1>13, <1>14

\* ev_esp8266_net_payload_retain: who holds the message may share it.
LEMMA NpRetainedAgrees ==
  ASSUME NEW h, NpAgrees(np, h), NEW m \in NpMsgs, m.slot # 0 => h[m.slot] > 0
  PROVE  NpAgrees(NpRetained(m), NpPlus(h, m)) /\ NpSame(np, NpRetained(m), NpPlus(h, m))
<1>1. /\ np \in NpStates /\ h \in [NpSlots -> Nat]
      /\ \A l \in NpSlots : np.slot[l].refcount = h[l]
      /\ \A l \in NpSlots : np.slot[l].in_use <=> h[l] > 0
  BY DEF NpAgrees
<1>2. np.slot \in [NpSlots -> NpSlotStates] BY <1>1 DEF NpStates
<1>3. CASE m.slot = 0
  <2>1. \A i \in NpSlots : NpBit(m, i) = 0 BY <1>3, NpSizes DEF NpBit
  <2>2. NpPlus(h, m) = h BY <1>1, <2>1 DEF NpPlus
  <2>3. NpRetained(m) = np BY <1>3 DEF NpRetained
  <2> QED BY <2>2, <2>3 DEF NpSame
<1>4. CASE m.slot # 0
  <2>1. PICK j \in NpSlots : j = m.slot BY <1>4, NpSizes DEF NpMsgs, NpSlots
  <2>2. h[j] > 0 /\ h[j] \in Nat BY <1>1, <1>4, <2>1
  <2>3. PICK y \in NpSlotStates : y = np.slot[j] BY <1>2
  <2>4. y.refcount = h[j] /\ y.in_use BY <1>1, <2>2, <2>3
  <2>5. [y EXCEPT !.refcount = @ + 1] \in NpSlotStates BY <2>2, <2>4 DEF NpSlotStates
  <2>6. PICK x \in NpSlotStates : x = [y EXCEPT !.refcount = @ + 1] BY <2>5
  <2>7. /\ x.refcount = h[j] + 1 /\ x.in_use
        /\ x.generation = y.generation /\ x.filled = y.filled
    BY <2>3, <2>4, <2>6 DEF NpSlotStates
  <2>8. PICK k : k = NpRetained(m) OBVIOUS
  <2>9. k = [np EXCEPT !.slot = [np.slot EXCEPT ![j] = x]]
    BY <1>1, <1>2, <1>4, <2>1, <2>3, <2>6, <2>8 DEF NpRetained, NpStates
  <2>10. k = [slot |-> [np.slot EXCEPT ![j] = x], used |-> np.used]
    BY <1>1, <2>9 DEF NpStates
  <2>11. PICK g : g = NpPlus(h, m) OBVIOUS
  <2>12. /\ g \in [NpSlots -> Nat] /\ g[j] = h[j] + 1
         /\ \A l \in NpSlots : l # j => g[l] = h[l]
    BY <1>1, <2>1, <2>11 DEF NpPlus, NpBit
  <2>13. x.in_use <=> g[j] > 0 BY <2>2, <2>7, <2>12
  <2>14. k.used = CASE x.in_use /\ ~np.slot[j].in_use -> np.used + 1
                    [] ~x.in_use /\ np.slot[j].in_use -> np.used - 1
                    [] OTHER -> np.used
    BY <2>3, <2>4, <2>7, <2>10
  <2>15. k = [slot |-> [np.slot EXCEPT ![j] = x], used |-> k.used] BY <2>10
  <2>16. x.refcount = g[j] BY <2>7, <2>12
  <2>17. NpAgrees(k, g) /\ k.slot[j] = x /\ \A l \in NpSlots : l # j => k.slot[l] = np.slot[l]
    BY <2>12, <2>13, <2>14, <2>15, <2>16, NpSlotChanges
  <2>18. NpSame(np, k, g) BY <2>3, <2>7, <2>17 DEF NpSame
  <2> QED BY <2>8, <2>11, <2>17, <2>18
<1> QED BY <1>3, <1>4

\* ev_esp8266_net_payload_release: the last holder's release frees the slot.
LEMMA NpReleasedAgrees ==
  ASSUME NEW h, NpAgrees(np, h), NEW m \in NpMsgs, m.slot # 0 => h[m.slot] > 0
  PROVE  NpAgrees(NpReleased(m), NpMinus(h, m)) /\ NpSame(np, NpReleased(m), NpMinus(h, m))
<1>1. /\ np \in NpStates /\ h \in [NpSlots -> Nat]
      /\ \A l \in NpSlots : np.slot[l].refcount = h[l]
      /\ \A l \in NpSlots : np.slot[l].in_use <=> h[l] > 0
  BY DEF NpAgrees
<1>2. np.slot \in [NpSlots -> NpSlotStates] BY <1>1 DEF NpStates
<1>3. CASE m.slot = 0
  <2>1. \A i \in NpSlots : NpBit(m, i) = 0 BY <1>3, NpSizes DEF NpBit
  <2>2. NpMinus(h, m) = h BY <1>1, <2>1 DEF NpMinus
  <2>3. NpReleased(m) = np BY <1>3 DEF NpReleased
  <2> QED BY <2>2, <2>3 DEF NpSame
<1>4. CASE m.slot # 0
  <2>1. PICK j \in NpSlots : j = m.slot BY <1>4, NpSizes DEF NpMsgs, NpSlots
  <2>2. h[j] > 0 /\ h[j] \in Nat BY <1>1, <1>4, <2>1
  <2>3. PICK y \in NpSlotStates : y = np.slot[j] BY <1>2
  <2>4. y.refcount = h[j] /\ y.in_use BY <1>1, <2>2, <2>3
  <2>5. PICK k : k = NpReleased(m) OBVIOUS
  <2>6. PICK g : g = NpMinus(h, m) OBVIOUS
  <2>7. g[j] = h[j] - 1 /\ \A l \in NpSlots : l # j => g[l] = h[l]
    BY <1>1, <2>1, <2>6 DEF NpMinus, NpBit
  <2>8. g \in [NpSlots -> Nat]
    <3>1. \A l \in NpSlots : g[l] \in Nat BY <1>1, <2>2, <2>7
    <3> QED BY <2>6, <3>1 DEF NpMinus
  <2>9. CASE h[j] > 1
    <3>1. [y EXCEPT !.refcount = @ - 1] \in NpSlotStates BY <2>4, <2>9 DEF NpSlotStates
    <3>2. PICK x \in NpSlotStates : x = [y EXCEPT !.refcount = @ - 1] BY <3>1
    <3>3. /\ x.refcount = h[j] - 1 /\ x.in_use
          /\ x.generation = y.generation /\ x.filled = y.filled
      BY <2>3, <2>4, <3>2 DEF NpSlotStates
    <3>4. k = [np EXCEPT !.slot[j].refcount = @ - 1]
      BY <1>4, <2>1, <2>3, <2>4, <2>5, <2>9 DEF NpReleased
    <3>5. k = [np EXCEPT !.slot = [np.slot EXCEPT ![j] = x]]
      BY <1>1, <1>2, <2>3, <3>2, <3>4 DEF NpStates
    <3>6. k = [slot |-> [np.slot EXCEPT ![j] = x], used |-> np.used]
      BY <1>1, <3>5 DEF NpStates
    <3>7. x.in_use <=> g[j] > 0 BY <2>2, <2>7, <2>9, <3>3
    <3>8. k.used = CASE x.in_use /\ ~np.slot[j].in_use -> np.used + 1
                     [] ~x.in_use /\ np.slot[j].in_use -> np.used - 1
                     [] OTHER -> np.used
      BY <2>3, <2>4, <3>3, <3>6
    <3>9. k = [slot |-> [np.slot EXCEPT ![j] = x], used |-> k.used] BY <3>6
    <3>10. x.refcount = g[j] BY <2>7, <3>3
    <3>11. /\ NpAgrees(k, g) /\ k.slot[j] = x
           /\ \A l \in NpSlots : l # j => k.slot[l] = np.slot[l]
      BY <2>7, <2>8, <3>7, <3>8, <3>9, <3>10, NpSlotChanges
    <3>12. NpSame(np, k, g) BY <2>3, <3>3, <3>11 DEF NpSame
    <3> QED BY <2>5, <2>6, <3>11, <3>12
  <2>10. CASE ~(h[j] > 1)
    <3>1. h[j] = 1 /\ g[j] = 0 BY <2>2, <2>7, <2>10
    <3>2. PICK x : x = [y EXCEPT !.refcount = 0, !.in_use = FALSE, !.filled = FALSE] OBVIOUS
    <3>3. x \in NpSlotStates /\ x.refcount = 0 /\ x.in_use = FALSE
      BY <2>3, <3>2 DEF NpSlotStates
    <3>4. k = [slot |-> [np.slot EXCEPT ![j].refcount = 0, ![j].in_use = FALSE,
                                        ![j].filled = FALSE],
               used |-> np.used - 1]
      BY <1>4, <2>1, <2>3, <2>4, <2>5, <2>10 DEF NpReleased
    <3>5. k = [slot |-> [np.slot EXCEPT ![j] = x], used |-> np.used - 1]
      BY <1>2, <2>3, <3>2, <3>4
    <3>6. x.in_use <=> g[j] > 0 BY <3>1, <3>3
    <3>7. k.used = CASE x.in_use /\ ~np.slot[j].in_use -> np.used + 1
                     [] ~x.in_use /\ np.slot[j].in_use -> np.used - 1
                     [] OTHER -> np.used
      BY <2>3, <2>4, <3>3, <3>5
    <3>8. k = [slot |-> [np.slot EXCEPT ![j] = x], used |-> k.used] BY <3>5
    <3>9. x.refcount = g[j] BY <3>1, <3>3
    <3>10. /\ NpAgrees(k, g) /\ k.slot[j] = x
           /\ \A l \in NpSlots : l # j => k.slot[l] = np.slot[l]
      BY <2>7, <2>8, <3>3, <3>6, <3>7, <3>8, <3>9, NpSlotChanges
    <3>11. NpSame(np, k, g) BY <3>1, <3>10 DEF NpSame
    <3> QED BY <2>5, <2>6, <3>10, <3>11
  <2> QED BY <2>9, <2>10
<1> QED BY <1>3, <1>4

\* A queue that one more message enters.
LEMMA NpQueued ==
  ASSUME NEW s \in Seq(NpMsgs), NEW x \in NpMsgs
  PROVE  /\ Append(s, x) \in Seq(NpMsgs)
         /\ \A i : CountIn(s, NpOf(i)) \in Nat
         /\ \A i : CountIn(Append(s, x), NpOf(i)) = CountIn(s, NpOf(i)) + NpBit(x, i)
         /\ \A j \in 1 .. Len(Append(s, x)) :
              Append(s, x)[j] = x \/ (j \in 1 .. Len(s) /\ Append(s, x)[j] = s[j])
<1>1. ASSUME NEW i
      PROVE  /\ CountIn(s, NpOf(i)) \in Nat
             /\ CountIn(Append(s, x), NpOf(i)) = CountIn(s, NpOf(i)) + NpBit(x, i)
  <2>1. PICK C : C = NpOf(i) OBVIOUS
  <2>2. x \in C <=> x.slot = i BY <2>1 DEF NpOf
  <2>3. /\ CountIn(s, C) \in Nat
        /\ CountIn(Append(s, x), C) = IF x \in C THEN CountIn(s, C) + 1 ELSE CountIn(s, C)
    BY CountAppended
  <2>4. CASE x.slot = i
    <3>1. NpBit(x, i) = 1 BY <2>4 DEF NpBit
    <3> QED BY <2>1, <2>2, <2>3, <2>4, <3>1
  <2>5. CASE x.slot # i
    <3>1. NpBit(x, i) = 0 BY <2>5 DEF NpBit
    <3> QED BY <2>1, <2>2, <2>3, <2>5, <3>1
  <2> QED BY <2>4, <2>5
<1>2. ASSUME NEW j \in 1 .. Len(Append(s, x))
      PROVE  Append(s, x)[j] = x \/ (j \in 1 .. Len(s) /\ Append(s, x)[j] = s[j])
  OBVIOUS
<1> QED BY <1>1, <1>2

\* A queue that its oldest message leaves.
LEMMA NpDequeued ==
  ASSUME NEW s \in Seq(NpMsgs), s # << >>
  PROVE  /\ Head(s) \in NpMsgs /\ Tail(s) \in Seq(NpMsgs)
         /\ \A i : CountIn(Tail(s), NpOf(i)) \in Nat
         /\ \A i : CountIn(s, NpOf(i)) = CountIn(Tail(s), NpOf(i)) + NpBit(Head(s), i)
         /\ 1 \in 1 .. Len(s) /\ Head(s) = s[1]
         /\ \A j \in 1 .. Len(Tail(s)) : j + 1 \in 1 .. Len(s) /\ Tail(s)[j] = s[j + 1]
<1>1. Head(s) = s[1] /\ 1 \in 1 .. Len(s) /\ s[1] \in NpMsgs OBVIOUS
<1>2. /\ Tail(s) \in Seq(NpMsgs) /\ Len(Tail(s)) = Len(s) - 1
      /\ \A j \in 1 .. Len(Tail(s)) : Tail(s)[j] = s[j + 1]
  BY HeadTailProperties
<1>3. \A j \in 1 .. Len(Tail(s)) : j + 1 \in 1 .. Len(s) BY <1>2
<1>4. ASSUME NEW i
      PROVE  /\ CountIn(Tail(s), NpOf(i)) \in Nat
             /\ CountIn(s, NpOf(i)) = CountIn(Tail(s), NpOf(i)) + NpBit(s[1], i)
  <2>1. PICK C : C = NpOf(i) OBVIOUS
  <2>2. s[1] \in C <=> s[1].slot = i BY <1>1, <2>1 DEF NpOf
  <2>3. /\ CountIn(s, C) \in Nat
        /\ CountIn(Tail(s), C) = IF s[1] \in C THEN CountIn(s, C) - 1 ELSE CountIn(s, C)
    BY CountTaken
  <2>4. CountIn(Tail(s), C) \in Nat BY <1>2, CountSees
  <2>5. CASE s[1].slot = i
    <3>1. NpBit(s[1], i) = 1 BY <2>5 DEF NpBit
    <3> QED BY <2>1, <2>2, <2>3, <2>4, <2>5, <3>1
  <2>6. CASE s[1].slot # i
    <3>1. NpBit(s[1], i) = 0 BY <2>6 DEF NpBit
    <3> QED BY <2>1, <2>2, <2>3, <2>4, <2>6, <3>1
  <2> QED BY <2>5, <2>6
<1> QED BY <1>1, <1>2, <1>3, <1>4

\* Whoever is at a place is counted.
LEMMA NpSeen ==
  ASSUME NEW t \in NpMsgs, NEW m \in NpMsgs, NEW r \in Seq(NpMsgs),
         NEW b \in [NpActors -> Seq(NpMsgs)], NEW h, h = NpHeld(t, m, r, b)
  PROVE  /\ h \in [NpSlots -> Nat]
         /\ t.slot # 0 => t.slot \in NpSlots /\ h[t.slot] > 0
         /\ \A x \in NpMsgs : NpPlaced(m, r, b, x) /\ x.slot # 0
                                => x.slot \in NpSlots /\ h[x.slot] > 0
<1>1. PICK p, q : p = b["ACT_NETWORK"] /\ q = b["ACT_COMMAND"] OBVIOUS
<1>2. p \in Seq(NpMsgs) /\ q \in Seq(NpMsgs) BY <1>1, NpSizes
<1>3. ASSUME NEW i \in NpSlots
      PROVE  /\ CountIn(r, NpOf(i)) \in Nat /\ CountIn(p, NpOf(i)) \in Nat
             /\ CountIn(q, NpOf(i)) \in Nat /\ NpBit(t, i) \in Nat /\ NpBit(m, i) \in Nat
             /\ h[i] = NpBit(t, i) + NpBit(m, i) + CountIn(r, NpOf(i))
                         + CountIn(p, NpOf(i)) + CountIn(q, NpOf(i))
  <2>1. /\ CountIn(r, NpOf(i)) \in Nat /\ CountIn(p, NpOf(i)) \in Nat
        /\ CountIn(q, NpOf(i)) \in Nat
    BY <1>2, CountSees
  <2>2. NpBit(t, i) \in Nat /\ NpBit(m, i) \in Nat BY DEF NpBit
  <2>3. h[i] = NpBit(t, i) + NpBit(m, i) + CountIn(r, NpOf(i))
                 + CountIn(p, NpOf(i)) + CountIn(q, NpOf(i))
    BY <1>1, <2>1, <2>2 DEF NpHeld, NpBoxed
  <2> QED BY <2>1, <2>2, <2>3
<1>4. h \in [NpSlots -> Nat]
  <2>1. \A i \in NpSlots : h[i] \in Nat BY <1>3
  <2> QED BY <2>1 DEF NpHeld
<1>5. \A x \in NpMsgs : x.slot # 0 => x.slot \in NpSlots BY NpSizes DEF NpMsgs, NpSlots
<1>6. ASSUME t.slot # 0 PROVE h[t.slot] > 0
  <2>1. t.slot \in NpSlots /\ NpBit(t, t.slot) = 1 BY <1>5, <1>6 DEF NpBit
  <2> QED BY <1>3, <2>1
<1>7. ASSUME NEW x \in NpMsgs, NpPlaced(m, r, b, x), x.slot # 0 PROVE h[x.slot] > 0
  <2>1. PICK i \in NpSlots : i = x.slot BY <1>5, <1>7
  <2>2. x \in NpOf(i) BY <2>1 DEF NpOf
  <2>3. CASE x = m
    <3>1. NpBit(m, i) = 1 BY <2>1, <2>3 DEF NpBit
    <3> QED BY <1>3, <2>1, <3>1
  <2>4. CASE \E j \in 1 .. Len(r) : x = r[j]
    <3>1. CountIn(r, NpOf(i)) > 0 BY <2>2, <2>4, CountSees
    <3> QED BY <1>3, <2>1, <3>1
  <2>5. CASE \E a \in NpActors : \E j \in 1 .. Len(b[a]) : x = b[a][j]
    <3>1. (\E j \in 1 .. Len(p) : x = p[j]) \/ (\E j \in 1 .. Len(q) : x = q[j])
      BY <1>1, <2>5, NpSizes
    <3>2. CountIn(p, NpOf(i)) > 0 \/ CountIn(q, NpOf(i)) > 0
      BY <1>2, <2>2, <3>1, CountSees
    <3> QED BY <1>3, <2>1, <3>2
  <2> QED BY <1>7, <2>3, <2>4, <2>5 DEF NpPlaced
<1> QED BY <1>4, <1>5, <1>6, <1>7

\* Slots that are held keep what they hold.
LEMMA NpStay ==
  ASSUME NEW n, NEW k, NEW h, NEW m, NEW r, NEW b, NpFitsAll(n, m, r, b), NpSame(n, k, h),
         \A x \in NpMsgs : NpPlaced(m, r, b, x) /\ x.slot # 0
                             => x.slot \in NpSlots /\ h[x.slot] > 0
  PROVE  NpFitsAll(k, m, r, b)
<1>1. SUFFICES ASSUME NEW x \in NpMsgs, NpPlaced(m, r, b, x), x.slot # 0
               PROVE  k.slot[x.slot].generation = x.generation /\ k.slot[x.slot].filled
  BY DEF NpFitsAll, NpFits
<1>2. n.slot[x.slot].generation = x.generation /\ n.slot[x.slot].filled
  BY <1>1 DEF NpFitsAll, NpFits
<1>3. x.slot \in NpSlots /\ h[x.slot] > 0 BY <1>1
<1> QED BY <1>2, <1>3 DEF NpSame

\* What each place adds to the count of a slot.
LEMMA NpTerms ==
  ASSUME NEW t, NEW m, NEW r \in Seq(NpMsgs), NEW b \in [NpActors -> Seq(NpMsgs)]
  PROVE  \A i \in NpSlots :
           /\ NpBit(t, i) \in Nat /\ NpBit(m, i) \in Nat /\ CountIn(r, NpOf(i)) \in Nat
           /\ NpBoxed(b, i) \in Nat
           /\ NpHeld(t, m, r, b)[i] =
                NpBit(t, i) + NpBit(m, i) + CountIn(r, NpOf(i)) + NpBoxed(b, i)
<1>1. SUFFICES ASSUME NEW i \in NpSlots
               PROVE  /\ NpBit(t, i) \in Nat /\ NpBit(m, i) \in Nat
                      /\ CountIn(r, NpOf(i)) \in Nat
                      /\ NpBoxed(b, i) \in Nat
  BY DEF NpHeld
<1>2. NpBit(t, i) \in Nat /\ NpBit(m, i) \in Nat BY DEF NpBit
<1>3. b["ACT_NETWORK"] \in Seq(NpMsgs) /\ b["ACT_COMMAND"] \in Seq(NpMsgs) BY NpSizes
<1>4. NpBoxed(b, i) \in Nat BY <1>3, CountSees DEF NpBoxed
<1> QED BY <1>2, <1>4, CountSees

\* The invariant, by places.
LEMMA NpKnown ==
  ASSUME NpInv, NEW h, h = NpHeld(npTask.msg, npMain.msg, npRing, npBox)
  PROVE  /\ npTask \in [do : {"idle", "fill", "push", "release"}, msg : NpMsgs]
         /\ npMain \in [do : {"idle", "dispose"} \cup NpActors, msg : NpMsgs]
         /\ npTask.msg \in NpMsgs /\ npMain.msg \in NpMsgs
         /\ npRing \in Seq(NpMsgs) /\ npBox \in [NpActors -> Seq(NpMsgs)]
         /\ NpAgrees(np, h) /\ h \in [NpSlots -> Nat]
         /\ NpFitsAll(np, npMain.msg, npRing, npBox) /\ NpTaskFits(np, npTask)
<1>1. NpTypes BY DEF NpInv
<1>2. /\ npTask \in [do : {"idle", "fill", "push", "release"}, msg : NpMsgs]
      /\ npMain \in [do : {"idle", "dispose"} \cup NpActors, msg : NpMsgs]
      /\ npRing \in Seq(NpMsgs) /\ npBox \in [NpActors -> Seq(NpMsgs)]
  BY <1>1 DEF NpTypes
<1>3. NpAgrees(np, h) BY DEF NpInv
<1>4. h \in [NpSlots -> Nat] BY <1>3 DEF NpAgrees
<1> QED BY <1>2, <1>3, <1>4 DEF NpInv

\* A message comes in.
LEMMA NpReceiveKeeps == ASSUME NpInv, NpReceive PROVE NpInv'
<1>1. PICK h : h = NpHeld(npTask.msg, npMain.msg, npRing, npBox) OBVIOUS
<1>2. /\ npMain \in [do : {"idle", "dispose"} \cup NpActors, msg : NpMsgs]
      /\ npMain.msg \in NpMsgs
      /\ npRing \in Seq(NpMsgs) /\ npBox \in [NpActors -> Seq(NpMsgs)]
      /\ NpAgrees(np, h) /\ h \in [NpSlots -> Nat]
      /\ NpFitsAll(np, npMain.msg, npRing, npBox)
  BY <1>1, NpKnown
<1>3. /\ npTask = NpIdle /\ npMain' = npMain /\ npRing' = npRing /\ npBox' = npBox
  BY DEF NpReceive
<1>4. npTask.msg = NpInline /\ NpInline \in NpMsgs /\ NpInline.slot = 0
  BY <1>3, NpSizes DEF NpIdle
<1>5. CASE npTask' = [do |-> "push", msg |-> NpInline] /\ UNCHANGED np
  <2>1. npTask' \in [do : {"idle", "fill", "push", "release"}, msg : NpMsgs]
    BY <1>4, <1>5
  <2>2. npTask'.msg = NpInline /\ npTask'.do = "push" BY <1>5
  <2>3. NpTypes' BY <1>2, <1>3, <2>1 DEF NpTypes
  <2>4. NpHeld(npTask'.msg, npMain.msg, npRing, npBox) = h BY <1>1, <1>4, <2>2
  <2>5. NpTaskFits(np, npTask') BY <1>4, <2>2 DEF NpTaskFits
  <2>6. np' = np BY <1>5
  <2> QED BY <1>2, <1>3, <2>3, <2>4, <2>5, <2>6 DEF NpInv
<1>6. CASE /\ NpFree # {}
           /\ LET i == Min(NpFree)
              IN  /\ np' = NpAcquired(i)
                  /\ npTask' = [do |-> "fill",
                                msg |-> [slot |-> i, generation |-> np'.slot[i].generation]]
  <2>1. NpFree \in SUBSET Nat BY NpSizes DEF NpFree
  <2>2. PICK i : i = Min(NpFree) OBVIOUS
  <2>3. i \in NpFree BY <1>6, <2>1, <2>2, MinIsLeast
  <2>4. PICK k : k = NpAcquired(i) OBVIOUS
  <2>5. np' = k /\ npTask' = [do |-> "fill", msg |-> [slot |-> i,
                                                      generation |-> k.slot[i].generation]]
    BY <1>6, <2>2, <2>4
  <2>6. /\ i \in NpSlots /\ h[i] = 0 /\ k.slot[i].generation \in Nat
        /\ NpSame(np, k, h)
        /\ \A g \in [NpSlots -> Nat] :
             g[i] = 1 /\ (\A l \in NpSlots : l # i => g[l] = h[l]) => NpAgrees(k, g)
    BY <1>2, <2>3, <2>4, NpAcquiredAgrees
  <2>7. PICK x : x = [slot |-> i, generation |-> k.slot[i].generation] OBVIOUS
  <2>8. x \in NpMsgs /\ x.slot = i /\ i # 0 /\ x.generation = k.slot[i].generation
    <3>1. i \in 0 .. NpSlotCount /\ i # 0 BY <2>6, NpSizes DEF NpSlots
    <3> QED BY <2>6, <2>7, <3>1 DEF NpMsgs
  <2>9. /\ npTask' \in [do : {"idle", "fill", "push", "release"}, msg : NpMsgs]
        /\ npTask'.msg = x /\ npTask'.do = "fill"
    BY <2>5, <2>7, <2>8
  <2>10. PICK g : g = NpHeld(x, npMain.msg, npRing, npBox) OBVIOUS
  <2>11. g \in [NpSlots -> Nat] BY <1>2, <2>8, <2>10, NpSeen
  <2>12. ASSUME NEW l \in NpSlots PROVE g[l] = IF l = i THEN h[l] + 1 ELSE h[l]
    <3>1. NpBit(NpInline, l) = 0 BY <1>4, NpSizes DEF NpBit
    <3>2. NpBit(x, l) = IF l = i THEN 1 ELSE 0 BY <2>8 DEF NpBit
    <3>3. PICK c \in Nat, d \in Nat, e \in Nat :
            c = NpBit(npMain.msg, l) /\ d = CountIn(npRing, NpOf(l)) /\ e = NpBoxed(npBox, l)
      BY <1>2, NpTerms
    <3>4. h[l] = 0 + c + d + e BY <1>1, <1>2, <1>4, <3>1, <3>3, NpTerms
    <3>5. g[l] = NpBit(x, l) + c + d + e BY <1>2, <2>10, <3>3, NpTerms
    <3> QED BY <3>2, <3>4, <3>5
  <2>13. g[i] = 1 /\ \A l \in NpSlots : l # i => g[l] = h[l] BY <2>6, <2>12
  <2>14. NpAgrees(k, g) BY <2>6, <2>11, <2>13
  <2>15. \A y \in NpMsgs : NpPlaced(npMain.msg, npRing, npBox, y) /\ y.slot # 0
                             => y.slot \in NpSlots /\ h[y.slot] > 0
    BY <1>1, <1>2, <1>4, NpSeen
  <2>16. NpFitsAll(k, npMain.msg, npRing, npBox) BY <1>2, <2>6, <2>15, NpStay
  <2>17. NpTaskFits(k, npTask') BY <2>8, <2>9 DEF NpTaskFits
  <2>18. NpTypes' BY <1>2, <1>3, <2>9 DEF NpTypes
  <2> QED BY <1>3, <2>5, <2>9, <2>10, <2>14, <2>16, <2>17, <2>18 DEF NpInv
<1> QED BY <1>5, <1>6 DEF NpReceive

\* Its slot is filled.
LEMMA NpFillKeeps == ASSUME NpInv, NpFill PROVE NpInv'
<1>1. PICK h : h = NpHeld(npTask.msg, npMain.msg, npRing, npBox) OBVIOUS
<1>2. /\ npTask \in [do : {"idle", "fill", "push", "release"}, msg : NpMsgs]
      /\ npMain \in [do : {"idle", "dispose"} \cup NpActors, msg : NpMsgs]
      /\ npTask.msg \in NpMsgs /\ npMain.msg \in NpMsgs
      /\ npRing \in Seq(NpMsgs) /\ npBox \in [NpActors -> Seq(NpMsgs)]
      /\ NpAgrees(np, h) /\ h \in [NpSlots -> Nat]
      /\ NpFitsAll(np, npMain.msg, npRing, npBox) /\ NpTaskFits(np, npTask)
  BY <1>1, NpKnown
<1>3. /\ npTask.do = "fill" /\ np' = [np EXCEPT !.slot[npTask.msg.slot].filled = TRUE]
      /\ npTask' = [npTask EXCEPT !.do = "push"]
      /\ npMain' = npMain /\ npRing' = npRing /\ npBox' = npBox
  BY DEF NpFill
<1>4. npTask.msg.slot # 0 BY <1>2, <1>3 DEF NpTaskFits
<1>5. PICK j \in NpSlots : j = npTask.msg.slot
  BY <1>2, <1>4, NpSizes DEF NpMsgs, NpSlots
<1>6. np \in NpStates /\ np.slot \in [NpSlots -> NpSlotStates]
  BY <1>2 DEF NpAgrees, NpStates
<1>7. PICK y \in NpSlotStates : y = np.slot[j] BY <1>6
<1>8. PICK x : x = [y EXCEPT !.filled = TRUE] OBVIOUS
<1>9. /\ x \in NpSlotStates /\ x.refcount = y.refcount /\ x.in_use = y.in_use
      /\ x.generation = y.generation /\ x.filled = TRUE
  BY <1>7, <1>8 DEF NpSlotStates
<1>10. PICK k : k = np' OBVIOUS
<1>11. k = [slot |-> [np.slot EXCEPT ![j] = x], used |-> np.used]
  <2>1. k = [np EXCEPT !.slot = [np.slot EXCEPT ![j] = x]]
    BY <1>3, <1>5, <1>6, <1>7, <1>8, <1>10 DEF NpStates
  <2> QED BY <1>6, <2>1 DEF NpStates
<1>12. NpAgrees(k, h) /\ k.slot[j] = x /\ \A l \in NpSlots : l # j => k.slot[l] = np.slot[l]
  <2>1. y.refcount = h[j] /\ (y.in_use <=> h[j] > 0) BY <1>2, <1>5, <1>7 DEF NpAgrees
  <2>2. x.refcount = h[j] BY <1>9, <2>1
  <2>3. x.in_use <=> h[j] > 0 BY <1>9, <2>1
  <2>4. k.used = CASE x.in_use /\ ~np.slot[j].in_use -> np.used + 1
                   [] ~x.in_use /\ np.slot[j].in_use -> np.used - 1
                   [] OTHER -> np.used
    <3>1. k.used = np.used BY <1>11
    <3>2. x.in_use = np.slot[j].in_use BY <1>7, <1>9
    <3> QED BY <3>1, <3>2
  <2>5. k = [slot |-> [np.slot EXCEPT ![j] = x], used |-> k.used] BY <1>11
  <2>6. PICK g \in [NpSlots -> Nat] : g = h BY <1>2
  <2>7. (\A l \in NpSlots : l # j => g[l] = h[l]) /\ x.refcount = g[j] BY <2>2, <2>6
  <2>8. x.in_use <=> g[j] > 0 BY <2>3, <2>6
  <2>9. /\ NpAgrees(k, g) /\ k.slot[j] = x
        /\ \A l \in NpSlots : l # j => k.slot[l] = np.slot[l]
    <3>1. NpAgrees(np, h) /\ x \in NpSlotStates BY <1>2, <1>9
    <3> QED BY <2>4, <2>5, <2>7, <2>8, <3>1, NpSlotChanges
  <2> QED BY <2>6, <2>9
<1>13. \A l \in NpSlots : /\ k.slot[l].generation = np.slot[l].generation
                          /\ np.slot[l].filled => k.slot[l].filled
  BY <1>7, <1>9, <1>12
<1>14. \A z \in NpMsgs : z.slot # 0 => z.slot \in NpSlots BY NpSizes DEF NpMsgs, NpSlots
<1>15. NpFitsAll(k, npMain.msg, npRing, npBox)
  BY <1>2, <1>13, <1>14 DEF NpFitsAll, NpFits
<1>16. /\ npTask' \in [do : {"idle", "fill", "push", "release"}, msg : NpMsgs]
       /\ npTask'.msg = npTask.msg /\ npTask'.do = "push"
  BY <1>2, <1>3
<1>17. NpTaskFits(k, npTask')
  <2>1. k.slot[j].generation = npTask.msg.generation
    BY <1>2, <1>4, <1>5, <1>13 DEF NpTaskFits
  <2>2. k.slot[j].filled BY <1>9, <1>12
  <2> QED BY <1>5, <1>16, <2>1, <2>2 DEF NpTaskFits
<1>18. NpTypes' BY <1>2, <1>3, <1>16 DEF NpTypes
<1>19. NpHeld(npTask'.msg, npMain', npRing', npBox')
         = NpHeld(npTask.msg, npMain, npRing, npBox)
  BY <1>3, <1>16
<1> QED BY <1>1, <1>3, <1>10, <1>12, <1>15, <1>16, <1>17, <1>18 DEF NpInv

\* It is pushed, or the ring is full and it stays with the task.
LEMMA NpPushKeeps == ASSUME NpInv, NpPush PROVE NpInv'
<1>1. PICK h : h = NpHeld(npTask.msg, npMain.msg, npRing, npBox) OBVIOUS
<1>2. /\ npTask \in [do : {"idle", "fill", "push", "release"}, msg : NpMsgs]
      /\ npMain \in [do : {"idle", "dispose"} \cup NpActors, msg : NpMsgs]
      /\ npTask.msg \in NpMsgs /\ npMain.msg \in NpMsgs
      /\ npRing \in Seq(NpMsgs) /\ npBox \in [NpActors -> Seq(NpMsgs)]
      /\ NpAgrees(np, h) /\ h \in [NpSlots -> Nat]
      /\ NpFitsAll(np, npMain.msg, npRing, npBox) /\ NpTaskFits(np, npTask)
  BY <1>1, NpKnown
<1>3. npTask.do = "push" /\ np' = np /\ npMain' = npMain /\ npBox' = npBox BY DEF NpPush
<1>4. PICK t : t = npTask.msg OBVIOUS
<1>5. NpFits(np, t) BY <1>2, <1>3, <1>4 DEF NpTaskFits, NpFits
<1>6. CASE npRing' = Append(npRing, t) /\ npTask' = NpIdle
  <2>1. PICK r : r = Append(npRing, t) OBVIOUS
  <2>2. /\ r \in Seq(NpMsgs)
        /\ \A i : CountIn(r, NpOf(i)) = CountIn(npRing, NpOf(i)) + NpBit(t, i)
        /\ \A j \in 1 .. Len(r) : r[j] = t \/ (j \in 1 .. Len(npRing) /\ r[j] = npRing[j])
    BY <1>2, <1>4, <2>1, NpQueued
  <2>3. /\ npTask' \in [do : {"idle", "fill", "push", "release"}, msg : NpMsgs]
        /\ npTask'.msg = NpInline /\ npTask'.do = "idle"
    BY <1>6, NpSizes DEF NpIdle
  <2>4. PICK g : g = NpHeld(NpInline, npMain.msg, r, npBox) OBVIOUS
  <2>5. ASSUME NEW l \in NpSlots PROVE g[l] = h[l]
    <3>1. NpBit(NpInline, l) = 0 BY NpSizes DEF NpBit
    <3>2. PICK c \in Nat, d \in Nat, e \in Nat, f \in Nat :
            /\ c = NpBit(npMain.msg, l) /\ d = CountIn(npRing, NpOf(l))
            /\ e = NpBoxed(npBox, l) /\ f = NpBit(t, l)
      BY <1>2, NpTerms
    <3>3. h[l] = f + c + d + e
      <4>1. PICK m : m = npMain.msg OBVIOUS
      <4>2. h = NpHeld(t, m, npRing, npBox) BY <1>1, <1>4, <4>1
      <4>3. h[l] = NpBit(t, l) + NpBit(m, l) + CountIn(npRing, NpOf(l)) + NpBoxed(npBox, l)
        BY <1>2, <4>2, NpTerms
      <4> QED BY <3>2, <4>1, <4>3
    <3>4. CountIn(r, NpOf(l)) = d + f BY <2>2, <3>2
    <3>5. g[l] = 0 + c + (d + f) + e
      <4>1. PICK m : m = npMain.msg OBVIOUS
      <4>2. g[l] = NpBit(NpInline, l) + NpBit(m, l) + CountIn(r, NpOf(l)) + NpBoxed(npBox, l)
        BY <1>2, <2>2, <2>4, <4>1, NpTerms
      <4> QED BY <3>1, <3>2, <3>4, <4>1, <4>2
    <3> QED BY <3>2, <3>3, <3>5
  <2>6. g = h
    <3>1. g \in [NpSlots -> Nat] BY <1>2, <2>2, <2>4, NpSeen, NpSizes
    <3> QED BY <1>2, <2>5, <3>1
  <2>7. NpFitsAll(np, npMain.msg, r, npBox)
    <3>1. \A x : NpPlaced(npMain.msg, r, npBox, x)
                   => x = t \/ NpPlaced(npMain.msg, npRing, npBox, x)
      BY <2>2 DEF NpPlaced
    <3> QED BY <1>2, <1>5, <3>1 DEF NpFitsAll
  <2>8. NpTaskFits(np, npTask') BY <2>3, NpSizes DEF NpTaskFits
  <2>9. npRing' = r BY <1>6, <2>1
  <2>10. NpTypes' BY <1>2, <1>3, <2>2, <2>3, <2>9 DEF NpTypes
  <2> QED BY <1>2, <1>3, <2>3, <2>4, <2>6, <2>7, <2>8, <2>9, <2>10 DEF NpInv
<1>7. CASE npTask' = [npTask EXCEPT !.do = "release"] /\ npRing' = npRing
  <2>1. /\ npTask' \in [do : {"idle", "fill", "push", "release"}, msg : NpMsgs]
        /\ npTask'.msg = npTask.msg /\ npTask'.do = "release"
    BY <1>2, <1>7
  <2>2. NpTaskFits(np, npTask') BY <1>2, <1>3, <2>1 DEF NpTaskFits
  <2>3. NpTypes' BY <1>2, <1>3, <1>7, <2>1 DEF NpTypes
  <2> QED BY <1>1, <1>2, <1>3, <1>7, <2>1, <2>2, <2>3 DEF NpInv
<1> QED BY <1>4, <1>6, <1>7 DEF NpPush

\* Only this mailbox changes.
NpOnly(a, b, c) ==
  /\ a \in NpActors /\ b \in [NpActors -> Seq(NpMsgs)] /\ c \in [NpActors -> Seq(NpMsgs)]
  /\ \A d \in NpActors : d # a => c[d] = b[d]

\* What the two hold then.
LEMMA NpBoxChanges ==
  ASSUME NEW a, NEW b, NEW c, NpOnly(a, b, c), NEW i
  PROVE  \E u, v, w \in Nat :
           /\ u = CountIn(b[a], NpOf(i)) /\ w = CountIn(c[a], NpOf(i))
           /\ NpBoxed(b, i) = u + v /\ NpBoxed(c, i) = w + v
<1>1. PICK p, q : p = "ACT_NETWORK" /\ q = "ACT_COMMAND" OBVIOUS
<1>2. p \in NpActors /\ q \in NpActors /\ p # q /\ (a = p \/ a = q)
  BY <1>1, NpSizes DEF NpOnly
<1>3. \A r \in Seq(NpMsgs) : CountIn(r, NpOf(i)) \in Nat BY CountSees
<1>4. PICK u \in Nat, v \in Nat, w \in Nat, z \in Nat :
        /\ u = CountIn(b[p], NpOf(i)) /\ v = CountIn(b[q], NpOf(i))
        /\ w = CountIn(c[p], NpOf(i)) /\ z = CountIn(c[q], NpOf(i))
  BY <1>2, <1>3 DEF NpOnly
<1>5. NpBoxed(b, i) = u + v /\ NpBoxed(c, i) = w + z BY <1>1, <1>4 DEF NpBoxed
<1>6. CASE a = p
  <2>1. u = CountIn(b[a], NpOf(i)) /\ w = CountIn(c[a], NpOf(i)) BY <1>4, <1>6
  <2>2. z = v BY <1>2, <1>4, <1>6 DEF NpOnly
  <2>3. NpBoxed(c, i) = w + v BY <1>5, <2>2
  <2> QED BY <1>4, <1>5, <2>1, <2>3, Zenon
<1>7. CASE a = q
  <2>1. v = CountIn(b[a], NpOf(i)) /\ z = CountIn(c[a], NpOf(i)) BY <1>4, <1>7
  <2>2. w = u BY <1>2, <1>4, <1>7 DEF NpOnly
  <2>3. NpBoxed(b, i) = v + u /\ NpBoxed(c, i) = z + u BY <1>4, <1>5, <2>2
  <2> QED BY <1>4, <2>1, <2>3, Zenon
<1> QED BY <1>2, <1>6, <1>7

\* It takes one message in.
LEMMA NpBoxGrows ==
  ASSUME NEW a, NEW b, NEW c, NpOnly(a, b, c), NEW i,
         NEW x, CountIn(c[a], NpOf(i)) = CountIn(b[a], NpOf(i)) + NpBit(x, i)
  PROVE  NpBoxed(c, i) = NpBoxed(b, i) + NpBit(x, i)
<1>1. PICK u \in Nat, v \in Nat, w \in Nat :
        /\ u = CountIn(b[a], NpOf(i)) /\ w = CountIn(c[a], NpOf(i))
        /\ NpBoxed(b, i) = u + v /\ NpBoxed(c, i) = w + v
  BY NpBoxChanges
<1>2. PICK z \in Nat : z = NpBit(x, i) BY DEF NpBit
<1>3. w = u + z BY <1>1, <1>2
<1> QED BY <1>1, <1>2, <1>3

\* The ring was full: the task gives the slot back.
LEMMA NpGiveUpKeeps == ASSUME NpInv, NpGiveUp PROVE NpInv'
<1>1. PICK t, m, h : /\ t = npTask.msg /\ m = npMain.msg
                     /\ h = NpHeld(npTask.msg, npMain.msg, npRing, npBox)
  OBVIOUS
<1>2. /\ npMain \in [do : {"idle", "dispose"} \cup NpActors, msg : NpMsgs]
      /\ t \in NpMsgs /\ m \in NpMsgs
      /\ npRing \in Seq(NpMsgs) /\ npBox \in [NpActors -> Seq(NpMsgs)]
      /\ NpAgrees(np, h) /\ h \in [NpSlots -> Nat]
      /\ NpFitsAll(np, m, npRing, npBox)
  BY <1>1, NpKnown
<1>3. /\ np' = NpReleased(t) /\ npTask' = NpIdle
      /\ npMain' = npMain /\ npRing' = npRing /\ npBox' = npBox
  BY <1>1 DEF NpGiveUp
<1>4. h = NpHeld(t, m, npRing, npBox) BY <1>1
<1>5. t.slot # 0 => h[t.slot] > 0 BY <1>2, <1>4, NpSeen
<1>6. PICK k, g : k = NpReleased(t) /\ g = NpHeld(NpInline, m, npRing, npBox) OBVIOUS
<1>7. NpAgrees(k, NpMinus(h, t)) /\ NpSame(np, k, NpMinus(h, t))
  BY <1>2, <1>5, <1>6, NpReleasedAgrees
<1>8. g = NpMinus(h, t)
  <2>1. ASSUME NEW l \in NpSlots PROVE g[l] = h[l] - NpBit(t, l)
    <3>1. NpBit(NpInline, l) = 0 BY NpSizes DEF NpBit
    <3>2. PICK c \in Nat, d \in Nat, e \in Nat, f \in Nat :
            /\ c = NpBit(m, l) /\ d = CountIn(npRing, NpOf(l))
            /\ e = NpBoxed(npBox, l) /\ f = NpBit(t, l)
      BY <1>2, NpTerms
    <3>3. h[l] = f + c + d + e
      <4>1. h[l] = NpBit(t, l) + NpBit(m, l) + CountIn(npRing, NpOf(l)) + NpBoxed(npBox, l)
        BY <1>2, <1>4, NpTerms
      <4> QED BY <3>2, <4>1
    <3>4. g[l] = 0 + c + d + e
      <4>1. g[l] = NpBit(NpInline, l) + NpBit(m, l) + CountIn(npRing, NpOf(l)) + NpBoxed(npBox, l)
        BY <1>2, <1>6, NpTerms
      <4> QED BY <3>1, <3>2, <4>1
    <3> QED BY <3>2, <3>3, <3>4
  <2>2. g \in [NpSlots -> Nat] BY <1>2, <1>6, NpSeen, NpSizes
  <2> QED BY <2>1, <2>2 DEF NpMinus
<1>9. \A y \in NpMsgs : NpPlaced(m, npRing, npBox, y) /\ y.slot # 0
                          => y.slot \in NpSlots /\ g[y.slot] > 0
  BY <1>2, <1>6, NpSeen, NpSizes
<1>10. NpFitsAll(k, m, npRing, npBox)
  <2>1. NpFitsAll(np, m, npRing, npBox) /\ NpSame(np, k, g) BY <1>2, <1>7, <1>8
  <2> QED BY <1>9, <2>1, NpStay
<1>11. /\ npTask' \in [do : {"idle", "fill", "push", "release"}, msg : NpMsgs]
       /\ npTask'.msg = NpInline /\ npTask'.do = "idle"
  BY <1>3, NpSizes DEF NpIdle
<1>12. NpTaskFits(k, npTask') BY <1>11, NpSizes DEF NpTaskFits
<1>13. NpTypes' BY <1>2, <1>3, <1>11 DEF NpTypes
<1>14. np' = k /\ npMain'.msg = m /\ npRing' = npRing /\ npBox' = npBox
  BY <1>1, <1>3, <1>6
<1>15. NpAgrees(k, g) BY <1>7, <1>8
<1> QED BY <1>6, <1>10, <1>11, <1>12, <1>13, <1>14, <1>15 DEF NpInv

\* The main loop's envelope is disposed of.
LEMMA NpDisposeKeeps == ASSUME NpInv, NpDispose PROVE NpInv'
<1>1. PICK t, m, h : /\ t = npTask.msg /\ m = npMain.msg
                     /\ h = NpHeld(npTask.msg, npMain.msg, npRing, npBox)
  OBVIOUS
<1>2. /\ npTask \in [do : {"idle", "fill", "push", "release"}, msg : NpMsgs]
      /\ t \in NpMsgs /\ m \in NpMsgs
      /\ npRing \in Seq(NpMsgs) /\ npBox \in [NpActors -> Seq(NpMsgs)]
      /\ NpAgrees(np, h) /\ h \in [NpSlots -> Nat]
      /\ NpFitsAll(np, m, npRing, npBox) /\ NpTaskFits(np, npTask)
  BY <1>1, NpKnown
<1>3. /\ np' = NpReleased(m) /\ npMain' = NpIdle
      /\ npTask' = npTask /\ npRing' = npRing /\ npBox' = npBox
  BY <1>1 DEF NpDispose
<1>4. h = NpHeld(t, m, npRing, npBox) BY <1>1
<1>5. m.slot # 0 => h[m.slot] > 0
  <2>1. NpPlaced(m, npRing, npBox, m) BY DEF NpPlaced
  <2> QED BY <1>2, <1>4, <2>1, NpSeen
<1>6. PICK k, g : k = NpReleased(m) /\ g = NpHeld(t, NpInline, npRing, npBox) OBVIOUS
<1>7. NpAgrees(k, NpMinus(h, m)) /\ NpSame(np, k, NpMinus(h, m))
  BY <1>2, <1>5, <1>6, NpReleasedAgrees
<1>8. g = NpMinus(h, m)
  <2>1. ASSUME NEW l \in NpSlots PROVE g[l] = h[l] - NpBit(m, l)
    <3>1. NpBit(NpInline, l) = 0 BY NpSizes DEF NpBit
    <3>2. PICK c \in Nat, d \in Nat, e \in Nat, f \in Nat :
            /\ c = NpBit(m, l) /\ d = CountIn(npRing, NpOf(l))
            /\ e = NpBoxed(npBox, l) /\ f = NpBit(t, l)
      BY <1>2, NpTerms
    <3>3. h[l] = f + c + d + e
      <4>1. h[l] = NpBit(t, l) + NpBit(m, l) + CountIn(npRing, NpOf(l)) + NpBoxed(npBox, l)
        BY <1>2, <1>4, NpTerms
      <4> QED BY <3>2, <4>1
    <3>4. g[l] = f + 0 + d + e
      <4>1. g[l] = NpBit(t, l) + NpBit(NpInline, l) + CountIn(npRing, NpOf(l)) + NpBoxed(npBox, l)
        BY <1>2, <1>6, NpTerms
      <4> QED BY <3>1, <3>2, <4>1
    <3> QED BY <3>2, <3>3, <3>4
  <2>2. g \in [NpSlots -> Nat] BY <1>2, <1>6, NpSeen, NpSizes
  <2> QED BY <2>1, <2>2 DEF NpMinus
<1>9. /\ t.slot # 0 => t.slot \in NpSlots /\ g[t.slot] > 0
      /\ \A y \in NpMsgs : NpPlaced(NpInline, npRing, npBox, y) /\ y.slot # 0
                             => y.slot \in NpSlots /\ g[y.slot] > 0
  BY <1>2, <1>6, NpSeen, NpSizes
<1>10. NpSame(np, k, g) /\ NpAgrees(k, g) BY <1>7, <1>8
<1>11. NpFitsAll(k, NpInline, npRing, npBox)
  <2>1. \A x : NpPlaced(NpInline, npRing, npBox, x)
                 => x = NpInline \/ NpPlaced(m, npRing, npBox, x)
    BY DEF NpPlaced
  <2>2. NpFits(np, NpInline) BY NpSizes DEF NpFits
  <2>3. NpFitsAll(np, NpInline, npRing, npBox) BY <1>2, <2>1, <2>2 DEF NpFitsAll
  <2> QED BY <1>9, <1>10, <2>3, NpStay
<1>12. NpTaskFits(k, npTask) BY <1>1, <1>2, <1>9, <1>10 DEF NpTaskFits, NpSame
<1>13. /\ npMain' \in [do : {"idle", "dispose"} \cup NpActors, msg : NpMsgs]
       /\ npMain'.msg = NpInline
  BY <1>3, NpSizes DEF NpIdle
<1>14. NpTypes' BY <1>2, <1>3, <1>13 DEF NpTypes
<1>15. /\ np' = k /\ npTask' = npTask /\ npTask'.msg = t
       /\ npRing' = npRing /\ npBox' = npBox
  BY <1>1, <1>3, <1>6
<1> QED BY <1>6, <1>10, <1>11, <1>12, <1>13, <1>14, <1>15 DEF NpInv

\* The main loop takes a message from the ring.
LEMMA NpPollKeeps == ASSUME NpInv, NpPoll PROVE NpInv'
<1>1. PICK t, m, h : /\ t = npTask.msg /\ m = npMain.msg
                     /\ h = NpHeld(npTask.msg, npMain.msg, npRing, npBox)
  OBVIOUS
<1>2. /\ npTask \in [do : {"idle", "fill", "push", "release"}, msg : NpMsgs]
      /\ t \in NpMsgs /\ m \in NpMsgs
      /\ npRing \in Seq(NpMsgs) /\ npBox \in [NpActors -> Seq(NpMsgs)]
      /\ NpAgrees(np, h) /\ h \in [NpSlots -> Nat]
      /\ NpFitsAll(np, m, npRing, npBox) /\ NpTaskFits(np, npTask)
  BY <1>1, NpKnown
<1>3. /\ npMain = NpIdle /\ npRing # << >>
      /\ npMain' = [do |-> NpRoutes[1], msg |-> Head(npRing)] /\ npRing' = Tail(npRing)
      /\ np' = np /\ npTask' = npTask /\ npBox' = npBox
  BY DEF NpPoll
<1>4. PICK x, r : x = Head(npRing) /\ r = Tail(npRing) OBVIOUS
<1>5. /\ x \in NpMsgs /\ r \in Seq(NpMsgs)
      /\ \A i : CountIn(r, NpOf(i)) \in Nat
      /\ \A i : CountIn(npRing, NpOf(i)) = CountIn(r, NpOf(i)) + NpBit(x, i)
      /\ 1 \in 1 .. Len(npRing) /\ x = npRing[1]
      /\ \A j \in 1 .. Len(r) : j + 1 \in 1 .. Len(npRing) /\ r[j] = npRing[j + 1]
  BY <1>2, <1>3, <1>4, NpDequeued
<1>6. m = NpInline BY <1>1, <1>3 DEF NpIdle
<1>7. PICK g : g = NpHeld(t, x, r, npBox) OBVIOUS
<1>8. g = h
  <2>1. ASSUME NEW l \in NpSlots PROVE g[l] = h[l]
    <3>1. NpBit(m, l) = 0 BY <1>6, NpSizes DEF NpBit
    <3>2. PICK c \in Nat, d \in Nat, e \in Nat, f \in Nat :
            /\ c = NpBit(x, l) /\ d = CountIn(r, NpOf(l))
            /\ e = NpBoxed(npBox, l) /\ f = NpBit(t, l)
      BY <1>2, <1>5, NpTerms
    <3>3. CountIn(npRing, NpOf(l)) = d + c BY <1>5, <3>2
    <3>4. h = NpHeld(t, m, npRing, npBox) BY <1>1
    <3>5. h[l] = f + 0 + (d + c) + e
      <4>1. h[l] = NpBit(t, l) + NpBit(m, l) + CountIn(npRing, NpOf(l)) + NpBoxed(npBox, l)
        BY <1>2, <3>4, NpTerms
      <4> QED BY <3>1, <3>2, <3>3, <4>1
    <3>6. g[l] = f + c + d + e
      <4>1. g[l] = NpBit(t, l) + NpBit(x, l) + CountIn(r, NpOf(l)) + NpBoxed(npBox, l)
        BY <1>2, <1>5, <1>7, NpTerms
      <4> QED BY <3>2, <4>1
    <3> QED BY <3>5, <3>6
  <2>2. g \in [NpSlots -> Nat] BY <1>2, <1>5, <1>7, NpSeen
  <2> QED BY <1>2, <2>1, <2>2
<1>9. NpFitsAll(np, x, r, npBox)
  <2>1. \A y : NpPlaced(x, r, npBox, y) => NpPlaced(m, npRing, npBox, y)
    BY <1>5 DEF NpPlaced
  <2> QED BY <1>2, <2>1 DEF NpFitsAll
<1>10. /\ npMain' \in [do : {"idle", "dispose"} \cup NpActors, msg : NpMsgs]
       /\ npMain'.msg = x
  BY <1>3, <1>4, <1>5, NpSizes
<1>11. NpTypes' BY <1>2, <1>3, <1>4, <1>5, <1>10 DEF NpTypes
<1>12. /\ np' = np /\ npTask' = npTask /\ npTask'.msg = t
       /\ npRing' = r /\ npBox' = npBox
  BY <1>1, <1>3, <1>4
<1> QED BY <1>2, <1>7, <1>8, <1>9, <1>10, <1>11, <1>12 DEF NpInv

\* An actor's next message goes to its handler.
LEMMA NpHandleKeeps == ASSUME NpInv, NEW a \in NpActors, NpHandle(a) PROVE NpInv'
<1>1. PICK t, m, h : /\ t = npTask.msg /\ m = npMain.msg
                     /\ h = NpHeld(npTask.msg, npMain.msg, npRing, npBox)
  OBVIOUS
<1>2. /\ npTask \in [do : {"idle", "fill", "push", "release"}, msg : NpMsgs]
      /\ t \in NpMsgs /\ m \in NpMsgs
      /\ npRing \in Seq(NpMsgs) /\ npBox \in [NpActors -> Seq(NpMsgs)]
      /\ NpAgrees(np, h) /\ h \in [NpSlots -> Nat]
      /\ NpFitsAll(np, m, npRing, npBox) /\ NpTaskFits(np, npTask)
  BY <1>1, NpKnown
<1>3. /\ npMain = NpIdle /\ npBox[a] # << >>
      /\ npMain' = [do |-> "dispose", msg |-> Head(npBox[a])]
      /\ npBox' = [npBox EXCEPT ![a] = Tail(@)]
      /\ np' = np /\ npTask' = npTask /\ npRing' = npRing
  BY DEF NpHandle
<1>4. PICK x, s : x = Head(npBox[a]) /\ s = Tail(npBox[a]) OBVIOUS
<1>5. /\ x \in NpMsgs /\ s \in Seq(NpMsgs)
      /\ \A i : CountIn(npBox[a], NpOf(i)) = CountIn(s, NpOf(i)) + NpBit(x, i)
      /\ 1 \in 1 .. Len(npBox[a]) /\ x = npBox[a][1]
      /\ \A j \in 1 .. Len(s) : j + 1 \in 1 .. Len(npBox[a]) /\ s[j] = npBox[a][j + 1]
  <2>1. npBox[a] \in Seq(NpMsgs) BY <1>2
  <2> QED BY <1>3, <1>4, <2>1, NpDequeued
<1>6. m = NpInline BY <1>1, <1>3 DEF NpIdle
<1>7. PICK b : b = [npBox EXCEPT ![a] = s] OBVIOUS
<1>8. /\ b \in [NpActors -> Seq(NpMsgs)] /\ b[a] = s
      /\ \A d \in NpActors : d # a => b[d] = npBox[d]
  BY <1>2, <1>5, <1>7
<1>9. PICK g : g = NpHeld(t, x, npRing, b) OBVIOUS
<1>10. g = h
  <2>1. ASSUME NEW l \in NpSlots PROVE g[l] = h[l]
    <3>1. NpBit(m, l) = 0 BY <1>6, NpSizes DEF NpBit
    <3>2. PICK c \in Nat, d \in Nat, e \in Nat, f \in Nat :
            /\ c = NpBit(x, l) /\ d = CountIn(npRing, NpOf(l))
            /\ e = NpBoxed(b, l) /\ f = NpBit(t, l)
      BY <1>2, <1>8, NpTerms
    <3>3. NpBoxed(npBox, l) = e + c
      <4>1. CountIn(npBox[a], NpOf(l)) = CountIn(s, NpOf(l)) + NpBit(x, l) BY <1>5
      <4>2. NpBoxed(npBox, l) = NpBoxed(b, l) + NpBit(x, l)
        <5>1. NpOnly(a, b, npBox) BY <1>2, <1>8 DEF NpOnly
        <5>2. CountIn(npBox[a], NpOf(l)) = CountIn(b[a], NpOf(l)) + NpBit(x, l)
          BY <1>8, <4>1
        <5> QED BY <5>1, <5>2, NpBoxGrows
      <4> QED BY <3>2, <4>2
    <3>4. h = NpHeld(t, m, npRing, npBox) BY <1>1
    <3>5. h[l] = f + 0 + d + (e + c)
      <4>1. h[l] = NpBit(t, l) + NpBit(m, l) + CountIn(npRing, NpOf(l)) + NpBoxed(npBox, l)
        BY <1>2, <3>4, NpTerms
      <4> QED BY <3>1, <3>2, <3>3, <4>1
    <3>6. g[l] = f + c + d + e
      <4>1. npRing \in Seq(NpMsgs) /\ b \in [NpActors -> Seq(NpMsgs)] BY <1>2, <1>8
      <4>2. g[l] = NpBit(t, l) + NpBit(x, l) + CountIn(npRing, NpOf(l)) + NpBoxed(b, l)
        BY <1>9, <4>1, NpTerms
      <4> QED BY <3>2, <4>2
    <3> QED BY <3>5, <3>6
  <2>2. g \in [NpSlots -> Nat] BY <1>2, <1>5, <1>8, <1>9, NpSeen
  <2> QED BY <1>2, <2>1, <2>2
<1>11. NpFitsAll(np, x, npRing, b)
  <2>1. ASSUME NEW y, NpPlaced(x, npRing, b, y) PROVE NpPlaced(m, npRing, npBox, y)
    <3>1. CASE y = x BY <1>5, <3>1 DEF NpPlaced
    <3>2. CASE \E j \in 1 .. Len(npRing) : y = npRing[j] BY <3>2 DEF NpPlaced
    <3>3. CASE \E d \in NpActors : \E j \in 1 .. Len(b[d]) : y = b[d][j]
      <4>1. PICK d \in NpActors : \E j \in 1 .. Len(b[d]) : y = b[d][j] BY <3>3
      <4>2. \E j \in 1 .. Len(npBox[d]) : y = npBox[d][j] BY <1>5, <1>8, <4>1
      <4> QED BY <4>2 DEF NpPlaced
    <3> QED BY <2>1, <3>1, <3>2, <3>3 DEF NpPlaced
  <2> QED BY <1>2, <2>1 DEF NpFitsAll
<1>12. /\ npMain' \in [do : {"idle", "dispose"} \cup NpActors, msg : NpMsgs]
       /\ npMain'.msg = x
  BY <1>3, <1>4, <1>5
<1>13. npBox' = b BY <1>3, <1>4, <1>7
<1>14. NpTypes' BY <1>2, <1>3, <1>8, <1>12, <1>13 DEF NpTypes
<1>15. np' = np /\ npTask' = npTask /\ npTask'.msg = t /\ npRing' = npRing BY <1>1, <1>3
<1> QED BY <1>2, <1>9, <1>10, <1>11, <1>12, <1>13, <1>14, <1>15 DEF NpInv

\* The published message is offered to the next actor.
LEMMA NpDeliverKeeps == ASSUME NpInv, NpDeliver PROVE NpInv'
<1>1. PICK t, m, a, h : /\ t = npTask.msg /\ m = npMain.msg /\ a = npMain.do
                        /\ h = NpHeld(npTask.msg, npMain.msg, npRing, npBox)
  OBVIOUS
<1>2. /\ npTask \in [do : {"idle", "fill", "push", "release"}, msg : NpMsgs]
      /\ npMain \in [do : {"idle", "dispose"} \cup NpActors, msg : NpMsgs]
      /\ t \in NpMsgs /\ m \in NpMsgs
      /\ npRing \in Seq(NpMsgs) /\ npBox \in [NpActors -> Seq(NpMsgs)]
      /\ NpAgrees(np, h) /\ h \in [NpSlots -> Nat]
      /\ NpFitsAll(np, m, npRing, npBox) /\ NpTaskFits(np, npTask)
  BY <1>1, NpKnown
<1>3. PICK accepted \in BOOLEAN, do \in {NpRoutes[2], "dispose"} :
        /\ a \in NpActors
        /\ np' = IF accepted THEN NpRetained(m) ELSE np
        /\ npBox' = IF accepted THEN [npBox EXCEPT ![a] = Append(@, m)] ELSE npBox
        /\ npMain' = [npMain EXCEPT !.do = do]
        /\ npTask' = npTask /\ npRing' = npRing
  BY <1>1 DEF NpDeliver
<1>4. /\ npMain' \in [do : {"idle", "dispose"} \cup NpActors, msg : NpMsgs]
      /\ npMain'.msg = m
  <2>1. do \in {"idle", "dispose"} \cup NpActors BY NpSizes
  <2> QED BY <1>1, <1>2, <1>3, <2>1
<1>5. CASE ~accepted
  <2>1. np' = np /\ npBox' = npBox BY <1>3, <1>5
  <2>2. NpTypes' BY <1>2, <1>3, <1>4, <2>1 DEF NpTypes
  <2> QED BY <1>1, <1>2, <1>3, <1>4, <2>1, <2>2 DEF NpInv
<1>6. CASE accepted
  <2>1. PICK s, b : s = Append(npBox[a], m) /\ b = [npBox EXCEPT ![a] = s] OBVIOUS
  <2>2. /\ s \in Seq(NpMsgs)
        /\ \A i : CountIn(s, NpOf(i)) = CountIn(npBox[a], NpOf(i)) + NpBit(m, i)
        /\ \A j \in 1 .. Len(s) :
             s[j] = m \/ (j \in 1 .. Len(npBox[a]) /\ s[j] = npBox[a][j])
    <3>1. npBox[a] \in Seq(NpMsgs) BY <1>2, <1>3
    <3> QED BY <1>2, <2>1, <3>1, NpQueued
  <2>3. /\ b \in [NpActors -> Seq(NpMsgs)] /\ b[a] = s
        /\ \A d \in NpActors : d # a => b[d] = npBox[d]
    BY <1>2, <1>3, <2>1, <2>2
  <2>4. PICK k, g : k = NpRetained(m) /\ g = NpHeld(t, m, npRing, b) OBVIOUS
  <2>5. np' = k /\ npBox' = b BY <1>3, <1>6, <2>1, <2>4
  <2>6. h = NpHeld(t, m, npRing, npBox) BY <1>1
  <2>7. m.slot # 0 => h[m.slot] > 0
    <3>1. NpPlaced(m, npRing, npBox, m) BY DEF NpPlaced
    <3> QED BY <1>2, <2>6, <3>1, NpSeen
  <2>8. NpAgrees(k, NpPlus(h, m)) /\ NpSame(np, k, NpPlus(h, m))
    BY <1>2, <2>4, <2>7, NpRetainedAgrees
  <2>9. g = NpPlus(h, m)
    <3>1. ASSUME NEW l \in NpSlots PROVE g[l] = h[l] + NpBit(m, l)
      <4>1. PICK c \in Nat, d \in Nat, e \in Nat, f \in Nat :
              /\ c = NpBit(m, l) /\ d = CountIn(npRing, NpOf(l))
              /\ e = NpBoxed(npBox, l) /\ f = NpBit(t, l)
        BY <1>2, NpTerms
      <4>2. NpBoxed(b, l) = e + c
        <5>1. CountIn(s, NpOf(l)) = CountIn(npBox[a], NpOf(l)) + NpBit(m, l) BY <2>2
        <5>2. NpBoxed(b, l) = NpBoxed(npBox, l) + NpBit(m, l)
          <6>1. NpOnly(a, npBox, b) BY <1>2, <1>3, <2>3 DEF NpOnly
          <6>2. CountIn(b[a], NpOf(l)) = CountIn(npBox[a], NpOf(l)) + NpBit(m, l)
            BY <2>3, <5>1
          <6> QED BY <6>1, <6>2, NpBoxGrows
        <5> QED BY <4>1, <5>2
      <4>3. h[l] = f + c + d + e
        <5>1. h[l] = NpBit(t, l) + NpBit(m, l) + CountIn(npRing, NpOf(l)) + NpBoxed(npBox, l)
          BY <1>2, <2>6, NpTerms
        <5> QED BY <4>1, <5>1
      <4>4. g[l] = f + c + d + (e + c)
        <5>1. g[l] = NpBit(t, l) + NpBit(m, l) + CountIn(npRing, NpOf(l)) + NpBoxed(b, l)
          BY <1>2, <2>3, <2>4, NpTerms
        <5> QED BY <4>1, <4>2, <5>1
      <4> QED BY <4>1, <4>3, <4>4
    <3>2. g \in [NpSlots -> Nat] BY <1>2, <2>3, <2>4, NpSeen
    <3> QED BY <3>1, <3>2 DEF NpPlus
  <2>10. /\ t.slot # 0 => t.slot \in NpSlots /\ g[t.slot] > 0
         /\ \A y \in NpMsgs : NpPlaced(m, npRing, b, y) /\ y.slot # 0
                                => y.slot \in NpSlots /\ g[y.slot] > 0
    BY <1>2, <2>3, <2>4, NpSeen
  <2>11. NpSame(np, k, g) /\ NpAgrees(k, g) BY <2>8, <2>9
  <2>12. NpFitsAll(np, m, npRing, b)
    <3>1. ASSUME NEW y, NpPlaced(m, npRing, b, y) PROVE NpPlaced(m, npRing, npBox, y)
      <4>1. CASE y = m BY <4>1 DEF NpPlaced
      <4>2. CASE \E j \in 1 .. Len(npRing) : y = npRing[j] BY <4>2 DEF NpPlaced
      <4>3. CASE \E d \in NpActors : \E j \in 1 .. Len(b[d]) : y = b[d][j]
        <5>1. PICK d \in NpActors : \E j \in 1 .. Len(b[d]) : y = b[d][j] BY <4>3
        <5>2. y = m \/ \E j \in 1 .. Len(npBox[d]) : y = npBox[d][j] BY <2>2, <2>3, <5>1
        <5> QED BY <5>2 DEF NpPlaced
      <4> QED BY <3>1, <4>1, <4>2, <4>3 DEF NpPlaced
    <3> QED BY <1>2, <3>1 DEF NpFitsAll
  <2>13. NpFitsAll(k, m, npRing, b) BY <2>10, <2>11, <2>12, NpStay
  <2>14. NpTaskFits(k, npTask) BY <1>1, <1>2, <2>10, <2>11 DEF NpTaskFits, NpSame
  <2>15. NpTypes' BY <1>2, <1>3, <1>4, <2>3, <2>5 DEF NpTypes
  <2>16. npTask' = npTask /\ npTask'.msg = t /\ npRing' = npRing BY <1>1, <1>3
  <2> QED BY <1>4, <2>4, <2>5, <2>11, <2>13, <2>14, <2>15, <2>16 DEF NpInv
<1> QED BY <1>5, <1>6

\* The slots start free.
LEMMA NpStarts == ASSUME NpInit PROVE NpInv
<1>1. /\ np = [slot |-> [i \in NpSlots |->
                 [in_use |-> FALSE, refcount |-> 0, generation |-> 0, filled |-> FALSE]],
               used |-> 0]
      /\ npTask = NpIdle /\ npRing = << >> /\ npMain = NpIdle
      /\ npBox = [a \in NpActors |-> << >>]
  BY DEF NpInit
<1>2. /\ npTask.msg = NpInline /\ npMain.msg = NpInline /\ npTask.do = "idle"
      /\ NpInline \in NpMsgs /\ NpInline.slot = 0
  BY <1>1, NpSizes DEF NpIdle
<1>3. << >> \in Seq(NpMsgs) OBVIOUS
<1>4. npRing \in Seq(NpMsgs) /\ npBox \in [NpActors -> Seq(NpMsgs)] BY <1>1, <1>3
<1>5. /\ npTask \in [do : {"idle", "fill", "push", "release"}, msg : NpMsgs]
      /\ npMain \in [do : {"idle", "dispose"} \cup NpActors, msg : NpMsgs]
  BY <1>1, <1>2 DEF NpIdle
<1>6. NpTypes BY <1>4, <1>5 DEF NpTypes
<1>7. PICK h : h = NpHeld(npTask.msg, npMain.msg, npRing, npBox) OBVIOUS
<1>8. ASSUME NEW i \in NpSlots PROVE h[i] = 0
  <2>1. NpBit(NpInline, i) = 0 BY NpSizes DEF NpBit
  <2>2. CountIn(<< >>, NpOf(i)) = 0 BY <1>3, CountSees
  <2>3. npBox["ACT_NETWORK"] = << >> /\ npBox["ACT_COMMAND"] = << >> BY <1>1, NpSizes
  <2>4. NpBoxed(npBox, i) = 0 BY <2>2, <2>3 DEF NpBoxed
  <2>5. h[i] = NpBit(npTask.msg, i) + NpBit(npMain.msg, i) + CountIn(npRing, NpOf(i))
                 + NpBoxed(npBox, i)
    BY <1>4, <1>7, NpTerms
  <2> QED BY <1>1, <1>2, <2>1, <2>2, <2>4, <2>5
<1>9. h \in [NpSlots -> Nat] BY <1>2, <1>4, <1>7, NpSeen
<1>10. NpAgrees(np, h)
  <2>1. PICK x \in NpSlotStates :
          x = [in_use |-> FALSE, refcount |-> 0, generation |-> 0, filled |-> FALSE]
    BY DEF NpSlotStates
  <2>2. np = [slot |-> [i \in NpSlots |-> x], used |-> 0] BY <1>1, <2>1
  <2>3. np \in NpStates /\ np.used = 0 /\ \A i \in NpSlots : np.slot[i] = x
    BY <2>2 DEF NpStates
  <2>4. x.in_use = FALSE /\ x.refcount = 0 BY <2>1
  <2>5. {i \in NpSlots : np.slot[i].in_use} = {} BY <2>3, <2>4
  <2>6. Cardinality({i \in NpSlots : np.slot[i].in_use}) = 0 BY <2>5, FS_EmptySet
  <2>7. \A i \in NpSlots : np.slot[i].refcount = h[i] BY <1>8, <2>3, <2>4
  <2>8. \A i \in NpSlots : np.slot[i].in_use <=> h[i] > 0 BY <1>8, <2>3, <2>4
  <2> QED BY <1>9, <2>3, <2>6, <2>7, <2>8 DEF NpAgrees
<1>11. NpFitsAll(np, npMain.msg, npRing, npBox)
  <2>1. \A x : NpPlaced(npMain.msg, npRing, npBox, x) => x = NpInline
    BY <1>1, <1>2 DEF NpPlaced
  <2> QED BY <1>2, <2>1 DEF NpFitsAll, NpFits
<1>12. NpTaskFits(np, npTask) BY <1>2 DEF NpTaskFits
<1> QED BY <1>6, <1>7, <1>10, <1>11, <1>12 DEF NpInv

\* Every step keeps the slots counted right.
LEMMA NpKeeps == ASSUME NpInv, [NpNext]_npVars PROVE NpInv'
<1>1. CASE NpReceive BY <1>1, NpReceiveKeeps
<1>2. CASE NpFill BY <1>2, NpFillKeeps
<1>3. CASE NpPush BY <1>3, NpPushKeeps
<1>4. CASE NpGiveUp BY <1>4, NpGiveUpKeeps
<1>5. CASE NpPoll BY <1>5, NpPollKeeps
<1>6. CASE NpDeliver BY <1>6, NpDeliverKeeps
<1>7. CASE NpDispose BY <1>7, NpDisposeKeeps
<1>8. CASE \E a \in NpActors : NpHandle(a) BY <1>8, NpHandleKeeps
<1>9. CASE UNCHANGED npVars
  <2>1. np' = np /\ npTask' = npTask /\ npRing' = npRing /\ npMain' = npMain /\ npBox' = npBox
    BY <1>9 DEF npVars
  <2> QED BY <2>1 DEF NpInv, NpTypes
<1> QED BY <1>1, <1>2, <1>3, <1>4, <1>5, <1>6, <1>7, <1>8, <1>9 DEF NpNext

\* Two sets with nothing in common.
LEMMA CountedApart ==
  ASSUME NEW A, NEW B, IsFiniteSet(A), IsFiniteSet(B), \A x \in A : ~ x \in B
  PROVE  /\ IsFiniteSet(A \cup B)
         /\ Cardinality(A \cup B) = Cardinality(A) + Cardinality(B)
<1>1. A \cap B = {} BY Zenon
<1>2. Cardinality(A \cap B) = 0 BY <1>1, FS_EmptySet
<1>3. Cardinality(A) \in Nat /\ Cardinality(B) \in Nat BY FS_CardinalityType
<1>4. /\ IsFiniteSet(A \cup B)
      /\ Cardinality(A \cup B) = Cardinality(A) + Cardinality(B) - Cardinality(A \cap B)
  BY FS_Union
<1> QED BY <1>2, <1>3, <1>4

\* The places of a queue that hold a member of C, under the queue's name.
Tagged(tag, s, C) == {<<tag, j, s[j]>> : j \in {k \in 1 .. Len(s) : s[k] \in C}}

\* They are as many as the queue counts.
LEMMA TaggedCount ==
  ASSUME NEW tag, NEW Items, NEW s \in Seq(Items), NEW C
  PROVE  /\ IsFiniteSet(Tagged(tag, s, C))
         /\ Cardinality(Tagged(tag, s, C)) = CountIn(s, C)
         /\ \A x \in Tagged(tag, s, C) : x[1] = tag
<1>1. PICK P, T : P = {k \in 1 .. Len(s) : s[k] \in C} /\ T = Tagged(tag, s, C) OBVIOUS
<1>2. T = {<<tag, j, s[j]>> : j \in P} BY <1>1 DEF Tagged
<1>3. IsFiniteSet(P)
  <2>1. Len(s) \in Nat /\ P \in SUBSET (1 .. Len(s)) BY <1>1
  <2> QED BY <2>1, PlacesCounted
<1>4. PICK g : g = [j \in P |-> <<tag, j, s[j]>>] OBVIOUS
<1>5. g \in [P -> T] BY <1>2, <1>4
<1>6. \A a, b \in P : g[a] = g[b] => a = b BY <1>4
<1>7. \A x \in T : \E j \in P : g[j] = x BY <1>2, <1>4
<1>8. g \in Injection(P, T) BY <1>5, <1>6 DEF Injection, IsInjective
<1>9. g \in Surjection(P, T) BY <1>5, <1>7 DEF Surjection
<1>10. ExistsBijection(P, T) BY <1>8, <1>9 DEF ExistsBijection, Bijection
<1>11. IsFiniteSet(T) /\ Cardinality(T) = Cardinality(P) BY <1>3, <1>10, FS_Bijection
<1>12. CountIn(s, C) = Cardinality(P) BY <1>1 DEF CountIn
<1>13. \A x \in T : x[1] = tag BY <1>2
<1> QED BY <1>1, <1>11, <1>12, <1>13

\* Whoever is at a place holds the slot, if the message has one.
Single(tag, m, i) == {x \in {<<tag, 1, m>>} : m.slot = i}

\* That is one holder, or none.
LEMMA SingleCount ==
  ASSUME NEW tag, NEW m, NEW i
  PROVE  /\ IsFiniteSet(Single(tag, m, i)) /\ Cardinality(Single(tag, m, i)) = NpBit(m, i)
         /\ \A x \in Single(tag, m, i) : x[1] = tag
<1>1. CASE m.slot = i
  <2>1. Single(tag, m, i) = {<<tag, 1, m>>} BY <1>1 DEF Single
  <2>2. NpBit(m, i) = 1 BY <1>1 DEF NpBit
  <2>3. \A x \in {<<tag, 1, m>>} : x[1] = tag OBVIOUS
  <2>4. IsFiniteSet({<<tag, 1, m>>}) /\ Cardinality({<<tag, 1, m>>}) = 1 BY FS_Singleton
  <2> QED BY <2>1, <2>2, <2>3, <2>4
<1>2. CASE m.slot # i
  <2>1. Single(tag, m, i) = {} BY <1>2 DEF Single
  <2>2. NpBit(m, i) = 0 BY <1>2 DEF NpBit
  <2> QED BY <2>1, <2>2, FS_EmptySet
<1> QED BY <1>1, <1>2

\* A queue's places, under its name.
Places(tag, s) == {<<tag, j, s[j]>> : j \in DOMAIN s}

\* Those with a message of the slot.
LEMMA PlacesOf ==
  ASSUME NEW tag, NEW s \in Seq(NpMsgs), NEW i
  PROVE  {x \in Places(tag, s) : x[3].slot = i} = Tagged(tag, s, NpOf(i))
<1>1. DOMAIN s = 1 .. Len(s) /\ \A j \in 1 .. Len(s) : s[j] \in NpMsgs OBVIOUS
<1>2. PICK D : D = 1 .. Len(s) OBVIOUS
<1>3. PICK T : T = Tagged(tag, s, NpOf(i)) OBVIOUS
<1>4. T = {<<tag, j, s[j]>> : j \in {k \in D : s[k] \in NpOf(i)}}
  BY <1>2, <1>3 DEF Tagged
<1>5. \A k \in D : s[k] \in NpOf(i) <=> s[k].slot = i BY <1>1, <1>2 DEF NpOf
<1>6. PICK P : P = Places(tag, s) OBVIOUS
<1>7. P = {<<tag, j, s[j]>> : j \in D} BY <1>1, <1>2, <1>6 DEF Places
<1>8. \A x \in P : x[3].slot = i => x \in T BY <1>4, <1>5, <1>7
<1>9. \A x \in T : x \in P /\ x[3].slot = i BY <1>4, <1>5, <1>7
<1> QED BY <1>3, <1>6, <1>8, <1>9

\* The holders of a slot, place by place.
LEMMA NpHeldBy ==
  ASSUME NpTypes, NEW i
  PROVE  {x \in NpHolders : x[3].slot = i}
           = Single("task", npTask.msg, i) \cup (Single("main", npMain.msg, i)
               \cup (Tagged("ring", npRing, NpOf(i))
               \cup (Tagged("ACT_NETWORK", npBox["ACT_NETWORK"], NpOf(i))
               \cup Tagged("ACT_COMMAND", npBox["ACT_COMMAND"], NpOf(i)))))
<1>1. npRing \in Seq(NpMsgs) /\ npBox \in [NpActors -> Seq(NpMsgs)] BY DEF NpTypes
<1>2. PICK p, q : p = npBox["ACT_NETWORK"] /\ q = npBox["ACT_COMMAND"] OBVIOUS
<1>3. p \in Seq(NpMsgs) /\ q \in Seq(NpMsgs) BY <1>1, <1>2, NpSizes
<1>4. PICK A, B, C, D, E : /\ A = {<<"task", 1, npTask.msg>>}
                           /\ B = {<<"main", 1, npMain.msg>>}
                           /\ C = Places("ring", npRing) /\ D = Places("ACT_NETWORK", p)
                           /\ E = Places("ACT_COMMAND", q)
  OBVIOUS
<1>5. NpHolders = A \cup (B \cup (C \cup (D \cup E)))
  <2>1. PICK U : U = UNION {{<<a, j, npBox[a][j]>> : j \in DOMAIN npBox[a]} : a \in NpActors}
    OBVIOUS
  <2>2. U = UNION {Places(a, npBox[a]) : a \in NpActors} BY <2>1 DEF Places
  <2>3. NpActors = {"ACT_NETWORK", "ACT_COMMAND"} BY NpSizes
  <2>4. U = D \cup E BY <1>2, <1>4, <2>2, <2>3
  <2>5. NpHolders = {<<"task", 1, npTask.msg>>, <<"main", 1, npMain.msg>>} \cup C \cup U
    BY <1>4, <2>1 DEF NpHolders, Places
  <2>6. NpHolders = A \cup B \cup C \cup U BY <1>4, <2>5
  <2> QED BY <2>4, <2>6, Zenon
<1>6. {x \in A : x[3].slot = i} = Single("task", npTask.msg, i)
  <2>1. \A x \in A : x[3] = npTask.msg BY <1>4
  <2> QED BY <1>4, <2>1 DEF Single
<1>7. {x \in B : x[3].slot = i} = Single("main", npMain.msg, i)
  <2>1. \A x \in B : x[3] = npMain.msg BY <1>4
  <2> QED BY <1>4, <2>1 DEF Single
<1>8. {x \in C : x[3].slot = i} = Tagged("ring", npRing, NpOf(i))
  BY <1>1, <1>4, PlacesOf
<1>9. {x \in D : x[3].slot = i} = Tagged("ACT_NETWORK", p, NpOf(i))
  BY <1>3, <1>4, PlacesOf
<1>10. {x \in E : x[3].slot = i} = Tagged("ACT_COMMAND", q, NpOf(i))
  BY <1>3, <1>4, PlacesOf
<1>11. {x \in NpHolders : x[3].slot = i}
         = {x \in A : x[3].slot = i} \cup ({x \in B : x[3].slot = i}
             \cup ({x \in C : x[3].slot = i} \cup ({x \in D : x[3].slot = i}
             \cup {x \in E : x[3].slot = i})))
  BY <1>5
<1> QED BY <1>2, <1>6, <1>7, <1>8, <1>9, <1>10, <1>11

\* There are as many holders of a slot as are counted.
LEMMA NpHeldIs ==
  ASSUME NpTypes, NEW i \in NpSlots, NEW H, H = {x \in NpHolders : x[3].slot = i}
  PROVE  /\ IsFiniteSet(H)
         /\ Cardinality(H) = NpHeld(npTask.msg, npMain.msg, npRing, npBox)[i]
<1>1. npRing \in Seq(NpMsgs) /\ npBox \in [NpActors -> Seq(NpMsgs)] BY DEF NpTypes
<1>2. PICK p, q : p = npBox["ACT_NETWORK"] /\ q = npBox["ACT_COMMAND"] OBVIOUS
<1>3. p \in Seq(NpMsgs) /\ q \in Seq(NpMsgs) BY <1>1, <1>2, NpSizes
<1>4. PICK A, B, C, D, E : /\ A = Single("task", npTask.msg, i)
                           /\ B = Single("main", npMain.msg, i)
                           /\ C = Tagged("ring", npRing, NpOf(i))
                           /\ D = Tagged("ACT_NETWORK", p, NpOf(i))
                           /\ E = Tagged("ACT_COMMAND", q, NpOf(i))
  OBVIOUS
<1>5. H = A \cup (B \cup (C \cup (D \cup E))) BY <1>2, <1>4, NpHeldBy
<1>6. /\ IsFiniteSet(A) /\ Cardinality(A) = NpBit(npTask.msg, i)
      /\ \A x \in A : x[1] = "task"
  BY <1>4, SingleCount
<1>7. /\ IsFiniteSet(B) /\ Cardinality(B) = NpBit(npMain.msg, i)
      /\ \A x \in B : x[1] = "main"
  BY <1>4, SingleCount
<1>8. /\ IsFiniteSet(C) /\ Cardinality(C) = CountIn(npRing, NpOf(i))
      /\ \A x \in C : x[1] = "ring"
  BY <1>1, <1>4, TaggedCount
<1>9. /\ IsFiniteSet(D) /\ Cardinality(D) = CountIn(p, NpOf(i))
      /\ \A x \in D : x[1] = "ACT_NETWORK"
  BY <1>3, <1>4, TaggedCount
<1>10. /\ IsFiniteSet(E) /\ Cardinality(E) = CountIn(q, NpOf(i))
       /\ \A x \in E : x[1] = "ACT_COMMAND"
  BY <1>3, <1>4, TaggedCount
<1>11. PICK F : F = D \cup E OBVIOUS
<1>12. IsFiniteSet(F) /\ Cardinality(F) = Cardinality(D) + Cardinality(E)
  <2>1. \A x \in D : ~ x \in E BY <1>9, <1>10
  <2> QED BY <1>9, <1>10, <1>11, <2>1, CountedApart
<1>13. PICK G : G = C \cup F OBVIOUS
<1>14. IsFiniteSet(G) /\ Cardinality(G) = Cardinality(C) + Cardinality(F)
  <2>1. \A x \in C : ~ x \in F BY <1>8, <1>9, <1>10, <1>11
  <2> QED BY <1>8, <1>12, <1>13, <2>1, CountedApart
<1>15. PICK K : K = B \cup G OBVIOUS
<1>16. IsFiniteSet(K) /\ Cardinality(K) = Cardinality(B) + Cardinality(G)
  <2>1. \A x \in B : ~ x \in G BY <1>7, <1>8, <1>9, <1>10, <1>11, <1>13
  <2> QED BY <1>7, <1>14, <1>15, <2>1, CountedApart
<1>17. IsFiniteSet(H) /\ Cardinality(H) = Cardinality(A) + Cardinality(K)
  <2>1. \A x \in A : ~ x \in K BY <1>6, <1>7, <1>8, <1>9, <1>10, <1>11, <1>13, <1>15
  <2>2. H = A \cup K BY <1>5, <1>11, <1>13, <1>15
  <2> QED BY <1>6, <1>16, <2>1, <2>2, CountedApart
<1>18. NpHeld(npTask.msg, npMain.msg, npRing, npBox)[i]
         = NpBit(npTask.msg, i) + NpBit(npMain.msg, i) + CountIn(npRing, NpOf(i))
             + NpBoxed(npBox, i)
  BY <1>1, NpTerms
<1>19. NpBoxed(npBox, i) = CountIn(p, NpOf(i)) + CountIn(q, NpOf(i)) BY <1>2 DEF NpBoxed
<1>20. /\ NpBit(npTask.msg, i) \in Nat /\ NpBit(npMain.msg, i) \in Nat
       /\ CountIn(npRing, NpOf(i)) \in Nat
       /\ CountIn(p, NpOf(i)) \in Nat /\ CountIn(q, NpOf(i)) \in Nat
  <2>1. NpBit(npTask.msg, i) \in Nat /\ NpBit(npMain.msg, i) \in Nat BY DEF NpBit
  <2> QED BY <1>1, <1>3, <2>1, CountSees
<1>21. PICK u \in Nat, v \in Nat, w \in Nat, y \in Nat, z \in Nat :
         /\ u = NpBit(npTask.msg, i) /\ v = NpBit(npMain.msg, i)
         /\ w = CountIn(npRing, NpOf(i))
         /\ y = CountIn(p, NpOf(i)) /\ z = CountIn(q, NpOf(i))
  BY <1>20
<1>22. Cardinality(H) = u + (v + (w + (y + z)))
  BY <1>6, <1>7, <1>8, <1>9, <1>10, <1>12, <1>14, <1>16, <1>17, <1>21
<1>23. NpHeld(npTask.msg, npMain.msg, npRing, npBox)[i] = u + v + w + (y + z)
  BY <1>18, <1>19, <1>21
<1> QED BY <1>17, <1>22, <1>23

\* The slots counted right are what the property asks for.
LEMMA NpShows == ASSUME NpInv PROVE PayloadIsHeld
<1>1. PICK h : h = NpHeld(npTask.msg, npMain.msg, npRing, npBox) OBVIOUS
<1>2. /\ NpTypes /\ NpAgrees(np, h) /\ NpFitsAll(np, npMain.msg, npRing, npBox)
      /\ NpTaskFits(np, npTask)
  BY <1>1 DEF NpInv
<1>3. ASSUME NEW i \in NpSlots, NEW H, H = {x \in NpHolders : x[3].slot = i}
      PROVE  /\ np.slot[i].refcount = Cardinality(H)
             /\ np.slot[i].in_use <=> H # {}
             /\ \A x \in H : /\ x[3].generation = np.slot[i].generation
                             /\ np.slot[i].filled \/ (x[1] = "task" /\ npTask.do = "fill")
  <2>1. IsFiniteSet(H) /\ Cardinality(H) = h[i] BY <1>1, <1>2, <1>3, NpHeldIs
  <2>2. np.slot[i].refcount = h[i] /\ (np.slot[i].in_use <=> h[i] > 0)
    BY <1>2 DEF NpAgrees
  <2>3. H # {} <=> Cardinality(H) > 0 BY <2>1, FS_EmptySet, FS_CardinalityType
  <2>4. np.slot[i].in_use <=> H # {} BY <2>1, <2>2, <2>3
  <2>5. ASSUME NEW x \in H
        PROVE  /\ x[3].generation = np.slot[i].generation
               /\ np.slot[i].filled \/ (x[1] = "task" /\ npTask.do = "fill")
    <3>1. i # 0 BY NpSizes
    <3>2. x \in NpHolders /\ x[3].slot = i BY <1>3
    <3>3. CASE x = <<"task", 1, npTask.msg>>
      <4>1. x[3] = npTask.msg /\ x[1] = "task" BY <3>3
      <4> QED BY <1>2, <3>1, <3>2, <4>1 DEF NpTaskFits
    <3>4. CASE x[3] \in NpMsgs /\ NpPlaced(npMain.msg, npRing, npBox, x[3])
      <4>1. PICK y \in NpMsgs : y = x[3] BY <3>4
      <4>2. NpFits(np, y) BY <1>2, <3>4, <4>1 DEF NpFitsAll
      <4> QED BY <3>1, <3>2, <4>1, <4>2 DEF NpFits
    <3>5. x = <<"task", 1, npTask.msg>> \/ NpPlaced(npMain.msg, npRing, npBox, x[3])
      <4>1. \/ x = <<"task", 1, npTask.msg>> \/ x = <<"main", 1, npMain.msg>>
            \/ \E j \in DOMAIN npRing : x = <<"ring", j, npRing[j]>>
            \/ \E a \in NpActors : \E j \in DOMAIN npBox[a] : x = <<a, j, npBox[a][j]>>
        BY <3>2 DEF NpHolders
      <4>2. /\ DOMAIN npRing = 1 .. Len(npRing)
            /\ \A a \in NpActors : DOMAIN npBox[a] = 1 .. Len(npBox[a])
        BY <1>2 DEF NpTypes
      <4>3. CASE x = <<"main", 1, npMain.msg>>
        <5>1. x[3] = npMain.msg BY <4>3
        <5> QED BY <5>1 DEF NpPlaced
      <4>4. CASE \E j \in DOMAIN npRing : x = <<"ring", j, npRing[j]>>
        <5>1. PICK j \in DOMAIN npRing : x = <<"ring", j, npRing[j]>> BY <4>4
        <5>2. x[3] = npRing[j] BY <5>1
        <5> QED BY <4>2, <5>1, <5>2 DEF NpPlaced
      <4>5. CASE \E a \in NpActors : \E j \in DOMAIN npBox[a] : x = <<a, j, npBox[a][j]>>
        <5>1. PICK a \in NpActors : \E j \in DOMAIN npBox[a] : x = <<a, j, npBox[a][j]>>
          BY <4>5
        <5>2. PICK j \in DOMAIN npBox[a] : x = <<a, j, npBox[a][j]>> BY <5>1
        <5>3. x[3] = npBox[a][j] BY <5>2
        <5> QED BY <4>2, <5>2, <5>3 DEF NpPlaced
      <4> QED BY <4>1, <4>3, <4>4, <4>5
    <3>6. NpPlaced(npMain.msg, npRing, npBox, x[3]) => x[3] \in NpMsgs
      BY <1>2 DEF NpPlaced, NpTypes
    <3> QED BY <3>3, <3>4, <3>5, <3>6
  <2> QED BY <2>1, <2>2, <2>4, <2>5
<1>4. np.used = Cardinality(NpSlots \ NpFree)
  <2>1. NpSlots \ NpFree = {i \in NpSlots : np.slot[i].in_use} BY DEF NpFree
  <2> QED BY <1>2, <2>1 DEF NpAgrees
<1> QED BY <1>3, <1>4 DEF PayloadIsHeld

\* From the start, for as long as the payload slots are used.
THEOREM NpInvHolds == NpInit /\ [][NpNext]_npVars => []NpInv
<1>1. NpInit => NpInv BY NpStarts
<1>2. NpInv /\ [NpNext]_npVars => NpInv' BY NpKeeps
<1> QED BY <1>1, <1>2, PTL

\* ev_net_adapter.c and the two routes of a long MQTT message: a payload slot is in use
\* exactly while somebody holds its message, with one reference for each, and whoever
\* may read finds its own message there; for every number of slots and generations,
\* every ring and mailbox, and whichever of the two tasks is preempted where.
THEOREM PayloadsAreHeld == Spec => []PayloadIsHeld
<1>1. Init => NpInit BY DEF Init
<1>2. [Next]_servicesVars => [NpNext]_npVars BY DEF Next, servicesVars
<1>3. NpInv => PayloadIsHeld BY NpShows
<1> QED BY <1>1, <1>2, <1>3, NpInvHolds, PTL DEF Spec

=============================================================================
