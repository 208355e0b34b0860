---------------------------- MODULE MailboxProofs ----------------------------
(* Proofs about the mailbox, for every capacity, event catalog and set of    *)
(* payloads and producers.                                                   *)
EXTENDS Mailbox, CommonLemmas, SequenceTheorems

-----------------------------------------------------------------------------
(* Places in a ring of n slots, k after h. *)

At(n, h, k) == IF h + k < n THEN h + k ELSE h + k - n

\* The code's modulo is one subtraction at most.
LEMMA ModIsAt ==
  ASSUME NEW n \in Nat \ {0}, NEW h \in 0 .. n - 1, NEW k \in 0 .. n
  PROVE  (h + k) % n = At(n, h, k) /\ At(n, h, k) \in 0 .. n - 1
<1>1. CASE h + k < n
  <2>1. (h + k) % n = h + k BY <1>1
  <2> QED BY <1>1, <2>1 DEF At
<1>2. CASE ~(h + k < n)
  <2>1. PICK r \in 0 .. n - 1 : r = h + k - n BY <1>2
  <2>2. r % n = r OBVIOUS
  <2>3. (r + n) % n = r BY <2>2
  <2>4. h + k = r + n BY <2>1
  <2> QED BY <1>2, <2>1, <2>3, <2>4 DEF At
<1> QED BY <1>1, <1>2

\* Places are slots.
LEMMA AtType ==
  ASSUME NEW n \in Nat \ {0}, NEW h \in 0 .. n - 1, NEW k \in 0 .. n
  PROVE  At(n, h, k) \in 0 .. n - 1
  BY DEF At

\* Two places less than a lap apart are different slots.
LEMMA AtInjective ==
  ASSUME NEW n \in Nat \ {0}, NEW h \in 0 .. n - 1,
         NEW j \in 0 .. n - 1, NEW k \in 0 .. n - 1, At(n, h, j) = At(n, h, k)
  PROVE  j = k
  BY DEF At

\* Places counted from the slot after h.
LEMMA AtNext ==
  ASSUME NEW n \in Nat \ {0}, NEW h \in 0 .. n - 1, NEW k \in 0 .. n - 1
  PROVE  /\ At(n, At(n, h, 1), k) = At(n, h, k + 1)
         /\ At(n, At(n, h, k), 1) = At(n, h, k + 1)
         /\ At(n, h, n) = h /\ At(n, h, 0) = h
  BY DEF At

-----------------------------------------------------------------------------
(* The ring and the sequence it stands for. *)

QueueOf(h, c, n, st) == [i \in 1 .. c |-> st[At(n, h, i - 1)]]

\* The ring's indices agree, and a slot that is not pending has no lease.
RingOf(n, h, t, c, st) ==
  /\ h \in 0 .. n - 1 /\ c \in 0 .. n /\ t = At(n, h, c)
  /\ st \in [0 .. n - 1 -> Msg]
  /\ \A k \in 0 .. n - 1 : k >= c => st[At(n, h, k)].storage # "EXTERNAL"

\* The pending messages are a sequence.
LEMMA QueueType ==
  ASSUME NEW n \in Nat \ {0}, NEW h, NEW t, NEW c, NEW st, RingOf(n, h, t, c, st)
  PROVE  /\ QueueOf(h, c, n, st) \in Seq(Msg) /\ Len(QueueOf(h, c, n, st)) = c
         /\ DOMAIN QueueOf(h, c, n, st) = 1 .. c
         /\ \A i \in 1 .. c : QueueOf(h, c, n, st)[i] = st[At(n, h, i - 1)]
<1>0. h \in 0 .. n - 1 /\ c \in 0 .. n /\ st \in [0 .. n - 1 -> Msg] BY DEF RingOf
<1>1. \A i \in 1 .. c : At(n, h, i - 1) \in 0 .. n - 1 BY <1>0 DEF At
<1>2. QueueOf(h, c, n, st) \in [1 .. c -> Msg] BY <1>0, <1>1 DEF QueueOf
<1>3. c \in Nat BY <1>0
<1>4. QueueOf(h, c, n, st) \in Seq(Msg) BY <1>2, <1>3, SeqDef
<1>5. DOMAIN QueueOf(h, c, n, st) = 1 .. c BY DEF QueueOf
<1>6. Len(QueueOf(h, c, n, st)) = c BY <1>3, <1>4, <1>5, LenProperties
<1> QED BY <1>4, <1>5, <1>6 DEF QueueOf

\* Names for the results, which a lemma's conclusion can be matched on.
Extended(q, m) == Append(q, m)
Shortened(q) == Tail(q)

\* A message is written at the tail of a ring with room.
LEMMA RingAppend ==
  ASSUME NEW n \in Nat \ {0}, NEW h, NEW t, NEW c, NEW st, RingOf(n, h, t, c, st),
         c < n, NEW m \in Msg
  PROVE  /\ RingOf(n, h, At(n, t, 1), c + 1, [st EXCEPT ![t] = m])
         /\ QueueOf(h, c + 1, n, [st EXCEPT ![t] = m]) = Extended(QueueOf(h, c, n, st), m)
         /\ t \in 0 .. n - 1 /\ st[t].storage # "EXTERNAL"
<1> DEFINE st2 == [st EXCEPT ![t] = m]
<1>0. /\ h \in 0 .. n - 1 /\ c \in 0 .. n - 1 /\ t = At(n, h, c)
      /\ st \in [0 .. n - 1 -> Msg] /\ c + 1 \in 0 .. n
  BY DEF RingOf
<1>1. t \in 0 .. n - 1 BY <1>0 DEF At
<1>2. At(n, t, 1) = At(n, h, c + 1) BY <1>0, AtNext
<1>3. st2 \in [0 .. n - 1 -> Msg] BY <1>0, <1>1
<1>4. ASSUME NEW k \in 0 .. n - 1, k # c PROVE st2[At(n, h, k)] = st[At(n, h, k)]
  <2>1. At(n, h, k) \in 0 .. n - 1 BY <1>0 DEF At
  <2>2. At(n, h, k) # t BY <1>0, <1>4, AtInjective
  <2> QED BY <1>0, <2>1, <2>2
<1>5. st2[t] = m BY <1>0, <1>1
<1> HIDE DEF st2
<1>6. \A k \in 0 .. n - 1 : k >= c + 1 => st2[At(n, h, k)].storage # "EXTERNAL"
  BY <1>0, <1>4 DEF RingOf
<1>7. RingOf(n, h, At(n, t, 1), c + 1, st2) BY <1>0, <1>2, <1>3, <1>6 DEF RingOf
<1>8. QueueOf(h, c + 1, n, st2) = Append(QueueOf(h, c, n, st), m)
  <2>1. /\ QueueOf(h, c, n, st) \in Seq(Msg) /\ Len(QueueOf(h, c, n, st)) = c
        /\ \A i \in 1 .. c : QueueOf(h, c, n, st)[i] = st[At(n, h, i - 1)]
    BY QueueType
  <2>2. PICK q \in Seq(Msg) : q = QueueOf(h, c, n, st) BY <2>1
  <2>3. /\ Append(q, m) \in Seq(Msg) /\ Len(Append(q, m)) = c + 1
        /\ \A i \in 1 .. c + 1 : Append(q, m)[i] = IF i = c + 1 THEN m ELSE q[i]
    BY <2>1, <2>2
  <2>4. /\ QueueOf(h, c + 1, n, st2) \in Seq(Msg) /\ Len(QueueOf(h, c + 1, n, st2)) = c + 1
        /\ \A i \in 1 .. c + 1 : QueueOf(h, c + 1, n, st2)[i] = st2[At(n, h, i - 1)]
    BY <1>7, QueueType
  <2>5. ASSUME NEW i \in 1 .. c + 1
        PROVE  QueueOf(h, c + 1, n, st2)[i] = Append(q, m)[i]
    <3>1. CASE i = c + 1 BY <1>0, <1>5, <2>3, <2>4, <3>1
    <3>2. CASE i # c + 1
      <4>1. i \in 1 .. c /\ i - 1 \in 0 .. n - 1 /\ i - 1 # c BY <1>0, <3>2
      <4>2. st2[At(n, h, i - 1)] = st[At(n, h, i - 1)] BY <1>4, <4>1
      <4> QED BY <2>1, <2>2, <2>3, <2>4, <3>2, <4>1, <4>2
    <3> QED BY <3>1, <3>2
  <2> QED BY <2>2, <2>3, <2>4, <2>5, SeqEqual
<1>9. st[t].storage # "EXTERNAL" BY <1>0 DEF RingOf
<1> QED BY <1>1, <1>7, <1>8, <1>9 DEF st2, Extended

\* The oldest message leaves.
LEMMA RingPop ==
  ASSUME NEW n \in Nat \ {0}, NEW h, NEW t, NEW c, NEW st, RingOf(n, h, t, c, st),
         c > 0, NEW m \in Msg, m.storage # "EXTERNAL"
  PROVE  /\ RingOf(n, At(n, h, 1), t, c - 1, [st EXCEPT ![h] = m])
         /\ QueueOf(At(n, h, 1), c - 1, n, [st EXCEPT ![h] = m])
              = Shortened(QueueOf(h, c, n, st))
<1> DEFINE st2 == [st EXCEPT ![h] = m]
           g == At(n, h, 1)
<1>0. /\ h \in 0 .. n - 1 /\ c \in 1 .. n /\ t = At(n, h, c)
      /\ st \in [0 .. n - 1 -> Msg] /\ c - 1 \in 0 .. n - 1
  BY DEF RingOf
<1>1. g \in 0 .. n - 1 BY <1>0 DEF At
<1>2. \A k \in 0 .. n - 1 : At(n, g, k) = At(n, h, k + 1) BY <1>0, AtNext
<1>3. st2 \in [0 .. n - 1 -> Msg] BY <1>0
<1> HIDE DEF g
<1>4. ASSUME NEW k \in 0 .. n - 2 PROVE st2[At(n, g, k)] = st[At(n, h, k + 1)]
  <2>1. k \in 0 .. n - 1 /\ k + 1 \in 0 .. n - 1 /\ k + 1 # 0 /\ 0 \in 0 .. n - 1 OBVIOUS
  <2>2. At(n, h, k + 1) \in 0 .. n - 1 BY <1>0, <2>1 DEF At
  <2>3. At(n, h, 0) = h BY <1>0, <2>1, AtNext
  <2>4. At(n, h, k + 1) # h BY <1>0, <2>1, <2>3, AtInjective
  <2> QED BY <1>0, <1>2, <2>1, <2>2, <2>4
<1>5. st2[At(n, g, n - 1)] = m
  <2>1. n - 1 \in 0 .. n - 1 /\ n - 1 + 1 = n OBVIOUS
  <2>2. At(n, g, n - 1) = h BY <1>0, <1>2, <2>1, AtNext
  <2> QED BY <1>0, <2>2
<1> HIDE DEF st2
<1>6. ASSUME NEW k \in 0 .. n - 1, k >= c - 1
      PROVE  st2[At(n, g, k)].storage # "EXTERNAL"
  <2>1. CASE k = n - 1 BY <1>5, <2>1
  <2>2. CASE k # n - 1
    <3>1. k \in 0 .. n - 2 /\ k + 1 \in 0 .. n - 1 /\ k + 1 >= c BY <1>0, <1>6, <2>2
    <3> QED BY <1>4, <3>1 DEF RingOf
  <2> QED BY <2>1, <2>2
<1>7. t = At(n, g, c - 1) BY <1>0, <1>2
<1>8. RingOf(n, g, t, c - 1, st2)
  <2>1. c - 1 \in 0 .. n BY <1>0
  <2> QED BY <1>0, <1>1, <1>3, <1>6, <1>7, <2>1 DEF RingOf
<1>9. QueueOf(g, c - 1, n, st2) = Tail(QueueOf(h, c, n, st))
  <2>1. /\ QueueOf(h, c, n, st) \in Seq(Msg) /\ Len(QueueOf(h, c, n, st)) = c
        /\ \A i \in 1 .. c : QueueOf(h, c, n, st)[i] = st[At(n, h, i - 1)]
    BY QueueType
  <2>2. PICK q \in Seq(Msg) : q = QueueOf(h, c, n, st) BY <2>1
  <2>3. q # << >> BY <1>0, <2>1, <2>2, EmptySeq
  <2>4. /\ Tail(q) \in Seq(Msg) /\ Len(Tail(q)) = c - 1
        /\ \A i \in 1 .. c - 1 : Tail(q)[i] = q[i + 1]
    BY <2>1, <2>2, <2>3, HeadTailProperties
  <2>5. /\ QueueOf(g, c - 1, n, st2) \in Seq(Msg) /\ Len(QueueOf(g, c - 1, n, st2)) = c - 1
        /\ \A i \in 1 .. c - 1 : QueueOf(g, c - 1, n, st2)[i] = st2[At(n, g, i - 1)]
    BY <1>8, QueueType
  <2>6. ASSUME NEW i \in 1 .. c - 1 PROVE QueueOf(g, c - 1, n, st2)[i] = Tail(q)[i]
    <3>1. i - 1 \in 0 .. n - 2 /\ i - 1 + 1 = i /\ i + 1 \in 1 .. c /\ i + 1 - 1 = i
      BY <1>0
    <3>2. st2[At(n, g, i - 1)] = st[At(n, h, i)] BY <1>4, <3>1
    <3>3. q[i + 1] = st[At(n, h, i)] BY <2>1, <2>2, <3>1
    <3> QED BY <2>4, <2>5, <3>2, <3>3
  <2> QED BY <2>2, <2>4, <2>5, <2>6, SeqEqual
<1> QED BY <1>8, <1>9 DEF st2, g, Shortened

\* A pending message is overwritten in its place.
LEMMA RingReplace ==
  ASSUME NEW n \in Nat \ {0}, NEW h, NEW t, NEW c, NEW st, RingOf(n, h, t, c, st),
         NEW k \in 0 .. c - 1, NEW m \in Msg
  PROVE  /\ RingOf(n, h, t, c, [st EXCEPT ![At(n, h, k)] = m])
         /\ QueueOf(h, c, n, [st EXCEPT ![At(n, h, k)] = m])
              = [QueueOf(h, c, n, st) EXCEPT ![k + 1] = m]
         /\ At(n, h, k) \in 0 .. n - 1
<1> DEFINE s == At(n, h, k)
           st2 == [st EXCEPT ![s] = m]
<1>0. /\ h \in 0 .. n - 1 /\ c \in 0 .. n /\ t = At(n, h, c)
      /\ st \in [0 .. n - 1 -> Msg] /\ k \in 0 .. n - 1
  BY DEF RingOf
<1>1. s \in 0 .. n - 1 BY <1>0 DEF At
<1>3. st2 \in [0 .. n - 1 -> Msg] BY <1>0, <1>1
<1>4. ASSUME NEW j \in 0 .. n - 1
      PROVE  st2[At(n, h, j)] = IF j = k THEN m ELSE st[At(n, h, j)]
  <2>1. At(n, h, j) \in 0 .. n - 1 BY <1>0 DEF At
  <2>2. j # k => At(n, h, j) # s BY <1>0, AtInjective
  <2> QED BY <1>0, <1>1, <2>1, <2>2
<1> HIDE DEF st2, s
<1>5. RingOf(n, h, t, c, st2)
  <2>1. \A j \in 0 .. n - 1 : j >= c => st2[At(n, h, j)].storage # "EXTERNAL"
    BY <1>0, <1>4 DEF RingOf
  <2> QED BY <1>0, <1>3, <2>1 DEF RingOf
<1>6. QueueOf(h, c, n, st2) = [QueueOf(h, c, n, st) EXCEPT ![k + 1] = m]
  <2>1. /\ QueueOf(h, c, n, st) \in Seq(Msg) /\ Len(QueueOf(h, c, n, st)) = c
        /\ \A i \in 1 .. c : QueueOf(h, c, n, st)[i] = st[At(n, h, i - 1)]
    BY QueueType
  <2>2. PICK q \in Seq(Msg) : q = QueueOf(h, c, n, st) BY <2>1
  <2>3. k + 1 \in 1 .. Len(q) BY <1>0, <2>1, <2>2
  <2>4. /\ [q EXCEPT ![k + 1] = m] \in Seq(Msg) /\ Len([q EXCEPT ![k + 1] = m]) = c
        /\ \A i \in 1 .. c : [q EXCEPT ![k + 1] = m][i] = IF i = k + 1 THEN m ELSE q[i]
    BY <2>1, <2>2, <2>3, ExceptSeq
  <2>5. /\ QueueOf(h, c, n, st2) \in Seq(Msg) /\ Len(QueueOf(h, c, n, st2)) = c
        /\ \A i \in 1 .. c : QueueOf(h, c, n, st2)[i] = st2[At(n, h, i - 1)]
    BY <1>5, QueueType
  <2>6. ASSUME NEW i \in 1 .. c
        PROVE  QueueOf(h, c, n, st2)[i] = [q EXCEPT ![k + 1] = m][i]
    <3>1. i - 1 \in 0 .. n - 1 /\ (i - 1 = k <=> i = k + 1) BY <1>0
    <3>2. st2[At(n, h, i - 1)] = IF i - 1 = k THEN m ELSE st[At(n, h, i - 1)]
      BY <1>4, <3>1
    <3> QED BY <2>1, <2>2, <2>4, <2>5, <3>1, <3>2
  <2> QED BY <2>2, <2>4, <2>5, <2>6, SeqEqual
<1> QED BY <1>1, <1>5, <1>6 DEF st2, s

-----------------------------------------------------------------------------
(* Shares. *)

Held(f, S, x) == Cardinality({j \in S : Leases(f[j], x)})
One(m, x) == IF Leases(m, x) THEN 1 ELSE 0
AgreeBut(f, g, S, i) == \A j \in S : j # i => g[j] = f[j]

\* One envelope is written over: its share goes and the new one's comes.
LEMMA HeldExcept ==
  ASSUME NEW S, IsFiniteSet(S), NEW f, NEW g, NEW i \in S, NEW x,
         AgreeBut(f, g, S, i)
  PROVE  /\ Held(f, S, x) \in Nat
         /\ Held(g, S, x) = Held(f, S, x) + One(g[i], x) - One(f[i], x)
<1> DEFINE A == {j \in S : Leases(f[j], x)}
           B == {j \in S : Leases(g[j], x)}
<1>2. IsFiniteSet(A) /\ IsFiniteSet(B) BY FS_Subset
<1>3. i \in A <=> Leases(f[i], x) OBVIOUS
<1>4. B = IF Leases(g[i], x) THEN A \cup {i} ELSE A \ {i} BY DEF AgreeBut
<1> HIDE DEF A, B
<1>5. Cardinality(A) \in Nat BY <1>2, FS_CardinalityType
<1>6. /\ Cardinality(A \cup {i}) = IF i \in A THEN Cardinality(A) ELSE Cardinality(A) + 1
      /\ Cardinality(A \ {i}) = IF i \in A THEN Cardinality(A) - 1 ELSE Cardinality(A)
  BY <1>2, FS_AddElement, FS_RemoveElement
<1>7. Cardinality(B) = Cardinality(A) + One(g[i], x) - One(f[i], x)
  BY <1>3, <1>4, <1>5, <1>6 DEF One
<1>8. Held(f, S, x) = Cardinality(A) /\ Held(g, S, x) = Cardinality(B) BY DEF Held, A, B
<1> QED BY <1>5, <1>7, <1>8

\* Envelopes without leases hold no shares.
LEMMA HeldNone ==
  ASSUME NEW f, NEW S, NEW x, \A j \in S : f[j].storage # "EXTERNAL"
  PROVE  Held(f, S, x) = 0
<1>1. {j \in S : Leases(f[j], x)} = {} BY DEF Leases
<1> QED BY <1>1, FS_EmptySet DEF Held

-----------------------------------------------------------------------------
(* The invariant. *)

MbInv ==
  /\ TypeOK
  /\ RingOf(Cap, head, tail, count, storage)
  /\ RefsConserved
  /\ handling \/ cur = Blank

Merging == {"COALESCED", "LATEST_ONLY"}

\* What the constants are.
LEMMA CapIs ==
  ASSUME TypeOK
  PROVE  /\ Cap \in Nat \ {0} /\ (kind \in {"MAILBOX_1", "COALESCED_FLAG"} => Cap = 1)
         /\ IsFiniteSet(Indices) /\ NoPayload \notin Payloads /\ IsFiniteSet(Producers)
<1>1. Cap \in Nat \ {0} /\ (kind \in {"MAILBOX_1", "COALESCED_FLAG"} => Cap = 1)
  BY RingCapacityAssumption DEF Cap, Capacity
<1>2. IsFiniteSet(0 .. (Cap - 1)) BY <1>1, FS_Interval
<1> QED BY <1>1, <1>2, FiniteAssumption DEF Indices

\* A blank envelope is a message without a lease.
LEMMA BlankIs == Blank \in Msg /\ Blank.storage = "NONE" /\ Blank.storage # "EXTERNAL"
  BY ZeroEventAssumption DEF Blank, Msg

\* Counting keeps the counters counters.
LEMMA CountedType ==
  ASSUME NEW st \in Counters, NEW f \in {"posted", "dropped", "replaced", "coalesced",
                                          "popped", "rejected"},
         NEW n \in Nat
  PROVE  /\ [st EXCEPT ![f] = @ + 1] \in Counters
         /\ WithHighWatermark(st, n) \in Counters
<1>1. st[f] + 1 \in Nat BY DEF Counters
<1>2. [st EXCEPT ![f] = @ + 1] \in Counters BY <1>1 DEF Counters
<1>3. (IF n > st.high_watermark THEN n ELSE st.high_watermark) \in Nat BY DEF Counters
<1>4. WithHighWatermark(st, n) \in Counters BY <1>3 DEF Counters, WithHighWatermark
<1> QED BY <1>2, <1>4

\* Retaining the new message and disposing the one it is written over keeps the
\* shares counted.
LEMMA RefsFollow ==
  ASSUME TypeOK, RefsConserved, NEW s \in Indices, NEW m,
         storage' = [storage EXCEPT ![s] = m], UNCHANGED <<kind, prod, cur>>,
         refs' = Disposed(RetainForQueue(refs, m), storage[s])
  PROVE  RefsConserved' /\ refs' \in [Payloads -> Nat]
<1>0. /\ refs \in [Payloads -> Nat] /\ DOMAIN storage = Indices /\ IsFiniteSet(Indices)
      /\ IsFiniteSet(Producers) /\ DOMAIN prod = Producers /\ Indices' = Indices
  BY CapIs DEF TypeOK, Indices, Cap
<1>1. ASSUME NEW x \in Payloads
      PROVE  /\ refs'[x] = Held(prod', Producers, x) + Held(storage', Indices, x) + One(cur', x)
             /\ refs'[x] \in Nat
  <2>1. refs'[x] = refs[x] + One(m, x) - One(storage[s], x)
    BY <1>0 DEF Disposed, RetainForQueue, One
  <2>2. /\ Held(storage, Indices, x) \in Nat
        /\ Held(storage', Indices, x) = Held(storage, Indices, x) + One(m, x)
                                          - One(storage[s], x)
    <3>1. storage'[s] = m BY <1>0
    <3>2. \A j \in Indices : j # s => storage'[j] = storage[j] BY <1>0
    <3>3. IsFiniteSet(Indices) BY <1>0
    <3>4. PICK f, g, S : f = storage /\ g = storage' /\ S = Indices OBVIOUS
    <3>5. s \in S /\ IsFiniteSet(S) /\ AgreeBut(f, g, S, s)
      BY <3>2, <3>3, <3>4 DEF AgreeBut
    <3>6. Held(f, S, x) \in Nat BY <3>5, HeldExcept
    <3>7. Held(g, S, x) = Held(f, S, x) + One(g[s], x) - One(f[s], x)
      BY <3>5, HeldExcept
    <3> QED BY <3>1, <3>4, <3>6, <3>7
  <2>3. refs[x] = Held(prod, Producers, x) + Held(storage, Indices, x) + One(cur, x)
    BY DEF RefsConserved, Held, One
  <2>4. Held(prod, Producers, x) \in Nat
    <3>1. IsFiniteSet({j \in Producers : Leases(prod[j], x)}) BY <1>0, FS_Subset
    <3> QED BY <3>1, FS_CardinalityType DEF Held
  <2>5. One(m, x) \in Nat /\ One(storage[s], x) \in Nat /\ One(cur, x) \in Nat
    BY DEF One
  <2>6. prod' = prod /\ cur' = cur OBVIOUS
  <2>7. Held(storage', Indices, x) \in Nat
    <3>1. IsFiniteSet({j \in Indices : Leases(storage'[j], x)}) BY <1>0, FS_Subset
    <3> QED BY <3>1, FS_CardinalityType DEF Held
  <2>8. refs'[x] = Held(prod', Producers, x) + Held(storage', Indices, x) + One(cur', x)
    BY <2>1, <2>2, <2>3, <2>4, <2>5, <2>6
  <2> QED BY <2>4, <2>5, <2>6, <2>7, <2>8
<1>2. RefsConserved' BY <1>0, <1>1 DEF RefsConserved, Held, One
<1>3. refs' = [x \in Payloads |-> refs'[x]] BY DEF Disposed
<1> QED BY <1>1, <1>2, <1>3

\* A slot without a lease gives nothing back.
LEMMA NothingToDispose ==
  ASSUME NEW r, NEW m, NEW b, b.storage # "EXTERNAL"
  PROVE  RetainForQueue(r, m) = Disposed(RetainForQueue(r, m), b)
  BY DEF Disposed, RetainForQueue, Leases

-----------------------------------------------------------------------------
(* Pushes.  Queue is the sequence the ring stands for. *)

Queue == QueueOf(head, count, Cap, storage)

\* The ring now holds what outcome o says, the shares are counted and the
\* counters and the report have their types.
Moved(o) ==
  /\ RingOf(Cap, head', tail', count', storage')
  /\ RefsConserved' /\ refs' \in [Payloads -> Nat]
  /\ stats' \in Counters /\ report'.slot \in 0 .. Cap
  /\ QueueOf(head', count', Cap, storage') = o.queue /\ report'.effect = o.effect

\* The parts of the invariant that the pushes use.
LEMMA MbParts ==
  ASSUME MbInv
  PROVE  /\ TypeOK /\ RefsConserved /\ RingOf(Cap, head, tail, count, storage)
         /\ Cap \in Nat \ {0} /\ Cap - 1 \in 0 .. Cap /\ Cap \in 0 .. Cap
         /\ head \in 0 .. Cap - 1 /\ tail \in 0 .. Cap - 1 /\ count \in 0 .. Cap
         /\ tail = At(Cap, head, count) /\ storage \in [0 .. Cap - 1 -> Msg]
         /\ stats \in Counters /\ refs \in [Payloads -> Nat] /\ kind \in Kinds
         /\ Queue \in Seq(Msg) /\ Len(Queue) = count /\ DOMAIN Queue = 1 .. count
         /\ \A i \in 1 .. count : Queue[i] = storage[At(Cap, head, i - 1)]
<1>1. TypeOK /\ RefsConserved /\ RingOf(Cap, head, tail, count, storage) BY DEF MbInv
<1>2. Cap \in Nat \ {0} BY <1>1, CapIs
<1>3. Cap - 1 \in 0 .. Cap /\ Cap \in 0 .. Cap BY <1>2
<1>4. /\ head \in 0 .. Cap - 1 /\ tail \in 0 .. Cap - 1 /\ count \in 0 .. Cap
      /\ tail = At(Cap, head, count) /\ storage \in [0 .. Cap - 1 -> Msg]
      /\ stats \in Counters /\ refs \in [Payloads -> Nat] /\ kind \in Kinds
  BY <1>1 DEF TypeOK, RingOf, Indices
<1>5. /\ Queue \in Seq(Msg) /\ Len(Queue) = count /\ DOMAIN Queue = 1 .. count
      /\ \A i \in 1 .. count : Queue[i] = storage[At(Cap, head, i - 1)]
  <2>1. PICK n, h, t, c, st : /\ n = Cap /\ h = head /\ t = tail /\ c = count
                                  /\ st = storage
    OBVIOUS
  <2>2. n \in Nat \ {0} /\ RingOf(n, h, t, c, st) BY <1>1, <1>2, <2>1
  <2>3. /\ QueueOf(h, c, n, st) \in Seq(Msg) /\ Len(QueueOf(h, c, n, st)) = c
        /\ DOMAIN QueueOf(h, c, n, st) = 1 .. c
        /\ \A i \in 1 .. c : QueueOf(h, c, n, st)[i] = st[At(n, h, i - 1)]
    BY <2>2, QueueType
  <2> QED BY <2>1, <2>3 DEF Queue
<1> QED BY <1>1, <1>2, <1>3, <1>4, <1>5

\* A push that changes neither ring nor shares.
LEMMA KeptMoved ==
  ASSUME MbInv, UNCHANGED <<ringVars, refs, kind, prod, cur>>, stats' \in Counters,
         report'.slot \in 0 .. Cap, NEW eff, report'.effect = eff
  PROVE  Moved(Outcome(Queue, eff))
<1>1. UNCHANGED <<storage, head, tail, count>> BY DEF ringVars
<1>2. /\ RingOf(Cap, head', tail', count', storage')
      /\ QueueOf(head', count', Cap, storage') = Queue
  BY <1>1, MbParts DEF Queue
<1>3. RefsConserved' BY <1>1, MbParts DEF RefsConserved, Indices, Cap
<1>4. refs' \in [Payloads -> Nat] BY MbParts
<1> QED BY <1>2, <1>3, <1>4 DEF Moved, Outcome

\* A message is written at the tail, with room for it.
LEMMA AppendMoved ==
  ASSUME MbInv, NEW m \in Msg, count < Cap, UNCHANGED <<head, kind, prod, cur>>,
         storage' = [storage EXCEPT ![tail] = m], tail' = At(Cap, tail, 1),
         count' = count + 1, refs' = RetainForQueue(refs, m),
         stats' \in Counters, report'.slot \in 0 .. Cap, NEW eff, report'.effect = eff
  PROVE  Moved(Outcome(Append(Queue, m), eff))
<1>1. /\ RingOf(Cap, head, At(Cap, tail, 1), count + 1, [storage EXCEPT ![tail] = m])
      /\ QueueOf(head, count + 1, Cap, [storage EXCEPT ![tail] = m]) = Append(Queue, m)
      /\ tail \in 0 .. Cap - 1 /\ storage[tail].storage # "EXTERNAL"
  <2>1. PICK n, h, t, c, st : /\ n = Cap /\ h = head /\ t = tail /\ c = count
                                  /\ st = storage
    OBVIOUS
  <2>2. n \in Nat \ {0} /\ RingOf(n, h, t, c, st) /\ c < n BY <2>1, MbParts
  <2>3. /\ RingOf(n, h, At(n, t, 1), c + 1, [st EXCEPT ![t] = m])
        /\ QueueOf(h, c + 1, n, [st EXCEPT ![t] = m]) = Extended(QueueOf(h, c, n, st), m)
        /\ t \in 0 .. n - 1 /\ st[t].storage # "EXTERNAL"
    BY <2>2, RingAppend
  <2> QED BY <2>1, <2>3 DEF Queue, Extended
<1>2. refs' = Disposed(RetainForQueue(refs, m), storage[tail]) BY <1>1, NothingToDispose
<1>3. tail \in Indices BY <1>1 DEF Indices
<1>4. RefsConserved' /\ refs' \in [Payloads -> Nat] BY <1>2, <1>3, MbParts, RefsFollow
<1>5. head' = head OBVIOUS
<1> QED BY <1>1, <1>4, <1>5 DEF Moved, Outcome

\* A message is written over the pending one at offset k.
LEMMA ReplaceMoved ==
  ASSUME MbInv, NEW m \in Msg, NEW k \in 0 .. count - 1,
         UNCHANGED <<head, tail, count, kind, prod, cur>>,
         storage' = [storage EXCEPT ![At(Cap, head, k)] = m],
         refs' = Disposed(RetainForQueue(refs, m), storage[At(Cap, head, k)]),
         stats' \in Counters, report'.slot \in 0 .. Cap, NEW eff, report'.effect = eff
  PROVE  Moved(Outcome([Queue EXCEPT ![k + 1] = m], eff))
<1>1. PICK s : s = At(Cap, head, k) OBVIOUS
<1>2. /\ RingOf(Cap, head, tail, count, [storage EXCEPT ![s] = m])
      /\ QueueOf(head, count, Cap, [storage EXCEPT ![s] = m]) = [Queue EXCEPT ![k + 1] = m]
      /\ s \in 0 .. Cap - 1
  <2>1. PICK n, h, t, c, st : /\ n = Cap /\ h = head /\ t = tail /\ c = count
                                  /\ st = storage
    OBVIOUS
  <2>2. n \in Nat \ {0} /\ RingOf(n, h, t, c, st) /\ k \in 0 .. c - 1 BY <2>1, MbParts
  <2>3. /\ RingOf(n, h, t, c, [st EXCEPT ![At(n, h, k)] = m])
        /\ QueueOf(h, c, n, [st EXCEPT ![At(n, h, k)] = m])
             = [QueueOf(h, c, n, st) EXCEPT ![k + 1] = m]
        /\ At(n, h, k) \in 0 .. n - 1
    BY <2>2, RingReplace
  <2> QED BY <1>1, <2>1, <2>3 DEF Queue
<1>3. s \in Indices BY <1>2 DEF Indices
<1>4. RefsConserved' /\ refs' \in [Payloads -> Nat] BY <1>1, <1>3, MbParts, RefsFollow
<1>5. UNCHANGED <<head, tail, count>> /\ storage' = [storage EXCEPT ![s] = m] BY <1>1
<1> QED BY <1>2, <1>4, <1>5 DEF Moved, Outcome

\* The ring's steps, without the code's modulo.
LEMMA StepsAre ==
  ASSUME NEW n \in Nat \ {0}, NEW t \in 0 .. n - 1
  PROVE  /\ (t + 1) % n = At(n, t, 1) /\ At(n, t, 1) \in 0 .. n - 1
         /\ (t + n - 1) % n \in 0 .. n - 1 /\ (At(n, t, 1) + n - 1) % n = t
         /\ n = 1 => (t + 1) % n = t /\ (t + n - 1) % n = t
<1>1. (t + 1) % n = At(n, t, 1) /\ At(n, t, 1) \in 0 .. n - 1
  <2>1. 1 \in 0 .. n OBVIOUS
  <2> QED BY <2>1, ModIsAt
<1>2. \A g \in 0 .. n - 1 : (g + n - 1) % n = At(n, g, n - 1) /\ At(n, g, n - 1) \in 0 .. n - 1
  <2>1. n - 1 \in 0 .. n OBVIOUS
  <2>2. \A g \in 0 .. n - 1 : g + n - 1 = g + (n - 1) OBVIOUS
  <2> QED BY <2>1, <2>2, ModIsAt
<1>3. At(n, At(n, t, 1), n - 1) = t
  <2>1. n - 1 \in 0 .. n - 1 /\ n - 1 + 1 = n OBVIOUS
  <2>2. At(n, At(n, t, 1), n - 1) = At(n, t, n - 1 + 1) BY <2>1, AtNext
  <2>3. At(n, t, n) = t BY <2>1, AtNext
  <2> QED BY <2>1, <2>2, <2>3
<1>4. n = 1 => At(n, t, 1) = t BY DEF At
<1>5. n = 1 => At(n, t, n - 1) = t BY DEF At
<1> QED BY <1>1, <1>2, <1>3, <1>4, <1>5

\* The mailbox's steps.
LEMMA MbSteps ==
  ASSUME MbInv
  PROVE  /\ Advance(tail) = At(Cap, tail, 1) /\ Advance(head) = At(Cap, head, 1)
         /\ PostedSlot(At(Cap, tail, 1)) = tail /\ PostedSlot(tail) \in 0 .. Cap
         /\ tail \in 0 .. Cap
         /\ Cap = 1 => Advance(head) = head /\ Advance(tail) = tail /\ PostedSlot(tail) = tail
<1>1. PICK n, h, t : n = Cap /\ h = head /\ t = tail OBVIOUS
<1>2. n \in Nat \ {0} /\ h \in 0 .. n - 1 /\ t \in 0 .. n - 1 BY <1>1, MbParts
<1>3. /\ (t + 1) % n = At(n, t, 1) /\ (h + 1) % n = At(n, h, 1)
      /\ (t + n - 1) % n \in 0 .. n - 1 /\ (At(n, t, 1) + n - 1) % n = t
      /\ n = 1 => /\ (t + 1) % n = t /\ (h + 1) % n = h /\ (t + n - 1) % n = t
  BY <1>2, StepsAre
<1>4. \A j \in 0 .. n - 1 : j \in 0 .. n BY <1>2
<1>5. (t + n - 1) % n \in 0 .. n /\ t \in 0 .. n BY <1>2, <1>3, <1>4
<1> QED BY <1>1, <1>3, <1>5 DEF Advance, PostedSlot

\* The policy of each kind (ev_mailbox_push).
LEMMA EnqueueIs ==
  ASSUME NEW q, NEW m
  PROVE  /\ Enqueue("FIFO", q, m) =
              IF Len(q) >= Capacity("FIFO") \/ ~Retainable(m) THEN Outcome(q, "REJECTED")
              ELSE Outcome(Append(q, m), "POSTED")
         /\ Enqueue("MAILBOX_1", q, m) =
              IF ~Retainable(m) THEN Outcome(q, "REJECTED") ELSE Outcome(<<m>>, "POSTED")
         /\ Enqueue("LOSSY_RING", q, m) =
              IF ~Retainable(m) THEN Outcome(q, "REJECTED")
              ELSE Outcome(Append(IF Len(q) >= Capacity("LOSSY_RING") THEN Tail(q) ELSE q, m),
                           "POSTED")
         /\ Enqueue("COALESCED_FLAG", q, m) =
              IF m.storage # "NONE" THEN Outcome(q, "REJECTED")
              ELSE IF q = <<>> THEN Outcome(<<m>>, "POSTED")
              ELSE Outcome(q, IF q[1].event = m.event THEN "POSTED" ELSE "REJECTED")
  BY DEF Enqueue

\* The counters a push may leave.
LEMMA StatsAfter ==
  ASSUME MbInv
  PROVE  \A f \in {"posted", "dropped", "replaced", "coalesced", "popped", "rejected"} :
           /\ Counted(f) \in Counters
           /\ \A n \in Nat : WithHighWatermark(Counted(f), n) \in Counters
<1>1. stats \in Counters BY MbParts
<1>2. 0 \in Nat OBVIOUS
<1>3. ASSUME NEW f \in {"posted", "dropped", "replaced", "coalesced", "popped", "rejected"}
      PROVE  Counted(f) \in Counters
  BY <1>1, <1>2, CountedType DEF Counted
<1> QED BY <1>3, CountedType

\* A refused push.
LEMMA RefusedMoved ==
  ASSUME MbInv, NEW m, Refused(m), UNCHANGED <<kind, prod, cur>>
  PROVE  Moved(Outcome(Queue, "REJECTED"))
<1>1. stats' \in Counters BY StatsAfter DEF Refused
<1>2. report'.slot = Cap /\ report'.effect = "REJECTED" BY DEF Refused, Reported, NoSlot
<1>3. UNCHANGED <<ringVars, refs, kind, prod, cur>> BY DEF Refused
<1> QED BY <1>1, <1>2, <1>3, MbParts, KeptMoved

\* ev_mailbox_push on a FIFO.
LEMMA FifoMoved ==
  ASSUME MbInv, NEW m \in Msg, PushFifo(m), UNCHANGED <<kind, prod, cur>>
  PROVE  Moved(Enqueue(kind, Queue, m))
<1>0. kind = "FIFO" /\ Len(Queue) = count /\ Cap = Capacity("FIFO")
  BY MbParts DEF PushFifo, Cap
<1>1. CASE Full \/ ~Retainable(m)
  <2>1. Refused(m) BY <1>1 DEF PushFifo
  <2>2. Enqueue(kind, Queue, m) = Outcome(Queue, "REJECTED")
    BY <1>0, <1>1, EnqueueIs DEF Full
  <2> QED BY <2>1, <2>2, RefusedMoved
<1>2. CASE ~(Full \/ ~Retainable(m))
  <2>0. count \in 0 .. Cap /\ Cap \in Nat BY MbParts
  <2>1. count < Cap /\ count + 1 \in Nat BY <1>2, <2>0 DEF Full
  <2>2. Enqueue(kind, Queue, m) = Outcome(Append(Queue, m), "POSTED")
    BY <1>0, <1>2, EnqueueIs DEF Full
  <2>3. /\ storage' = [storage EXCEPT ![tail] = m] /\ tail' = At(Cap, tail, 1)
        /\ count' = count + 1 /\ refs' = RetainForQueue(refs, m) /\ head' = head
    BY <1>2, MbSteps DEF PushFifo
  <2>4. stats' \in Counters
    <3>1. stats' = WithHighWatermark(Counted("posted"), count + 1) BY <1>2 DEF PushFifo
    <3> QED BY <2>1, <3>1, StatsAfter
  <2>5. report'.slot \in 0 .. Cap /\ report'.effect = "POSTED"
    BY <1>2, <2>3, MbSteps DEF PushFifo, Reported
  <2> QED BY <2>1, <2>2, <2>3, <2>4, <2>5, AppendMoved
<1> QED BY <1>1, <1>2

\* Sequences of one message.
LEMMA OneMessage ==
  ASSUME NEW m \in Msg, NEW q \in Seq(Msg)
  PROVE  /\ Len(q) = 0 => q = <<>> /\ Append(q, m) = <<m>>
         /\ Len(q) = 1 => [q EXCEPT ![1] = m] = <<m>> /\ q # <<>>
<1>1. <<m>> \in Seq(Msg) /\ Len(<<m>>) = 1 /\ <<m>>[1] = m OBVIOUS
<1>2. ASSUME Len(q) = 0 PROVE q = <<>> /\ Append(q, m) = <<m>>
  <2>1. q = <<>> BY <1>2, EmptySeq
  <2>2. Append(q, m) = <<m>> BY <2>1
  <2> QED BY <2>1, <2>2
<1>3. ASSUME Len(q) = 1 PROVE [q EXCEPT ![1] = m] = <<m>> /\ q # <<>>
  <2>1. 1 \in 1 .. Len(q) BY <1>3
  <2>2. PICK r : r = [q EXCEPT ![1] = m] OBVIOUS
  <2>3. r \in Seq(Msg) /\ Len(r) = 1 /\ r[1] = m BY <1>3, <2>1, <2>2, ExceptSeq
  <2>4. r = <<m>> BY <1>1, <2>3, SeqEqual
  <2>5. Len(<<>>) = 0 BY EmptySeq
  <2> QED BY <1>3, <2>2, <2>4, <2>5
<1> QED BY <1>2, <1>3

\* A mailbox with one slot has its indices at 0.
LEMMA OneSlot ==
  ASSUME MbInv, Cap = 1
  PROVE  /\ head = 0 /\ tail = 0 /\ count \in {0, 1} /\ At(Cap, head, 0) = 0
         /\ At(Cap, tail, 1) = 0
<1>1. head \in 0 .. 0 /\ tail \in 0 .. 0 /\ count \in 0 .. 1 BY MbParts
<1>2. head = 0 /\ tail = 0 BY <1>1
<1>3. count = 0 \/ count = 1 BY <1>1
<1> QED BY <1>2, <1>3 DEF At

\* ev_mailbox_push on a mailbox of one message.
LEMMA Mailbox1Moved ==
  ASSUME MbInv, NEW m \in Msg, PushMailbox1(m), UNCHANGED <<kind, prod, cur>>
  PROVE  Moved(Enqueue(kind, Queue, m))
<1>0. kind = "MAILBOX_1" /\ Queue \in Seq(Msg) /\ Len(Queue) = count
  BY MbParts DEF PushMailbox1
<1>1. CASE ~Retainable(m)
  <2>1. Refused(m) BY <1>1 DEF PushMailbox1
  <2>2. Enqueue(kind, Queue, m) = Outcome(Queue, "REJECTED") BY <1>0, <1>1, EnqueueIs
  <2> QED BY <2>1, <2>2, RefusedMoved
<1>2. CASE Retainable(m)
  <2>1. Cap = 1 BY <1>0, MbParts, CapIs
  <2>2. /\ head = 0 /\ tail = 0 /\ count \in {0, 1} /\ At(Cap, head, 0) = 0
        /\ At(Cap, tail, 1) = 0
    BY <2>1, OneSlot
  <2>3. Enqueue(kind, Queue, m) = Outcome(<<m>>, "POSTED") BY <1>0, <1>2, EnqueueIs
  <2>4. stats' \in Counters
    <3>1. stats' = WithHighWatermark(Counted("posted"), 1)
          \/ stats' = WithHighWatermark(Counted("replaced"), 1)
      BY <1>2 DEF PushMailbox1
    <3>2. 1 \in Nat OBVIOUS
    <3> QED BY <3>1, <3>2, StatsAfter
  <2>5. report'.slot \in 0 .. Cap /\ report'.effect = "POSTED"
    BY <1>2, MbSteps DEF PushMailbox1, Reported
  <2>6. storage' = [storage EXCEPT ![0] = m] /\ count' = 1 /\ UNCHANGED <<head, tail>>
    BY <1>2 DEF PushMailbox1
  <2>7. CASE count = 0
    <3>1. refs' = RetainForQueue(refs, m) BY <1>2, <2>7 DEF PushMailbox1
    <3>2. count < Cap /\ count' = count + 1 BY <2>1, <2>6, <2>7
    <3>3. tail' = At(Cap, tail, 1) /\ storage' = [storage EXCEPT ![tail] = m] /\ head' = head
      BY <2>2, <2>6
    <3>4. Append(Queue, m) = <<m>> BY <1>0, <2>7, OneMessage
    <3>5. Moved(Outcome(Append(Queue, m), "POSTED"))
      BY <2>4, <2>5, <3>1, <3>2, <3>3, AppendMoved
    <3> QED BY <2>3, <3>4, <3>5
  <2>8. CASE count = 1
    <3>1. refs' = Disposed(RetainForQueue(refs, m), storage[0])
      BY <1>2, <2>8 DEF PushMailbox1
    <3>2. 0 \in 0 .. count - 1 /\ count' = count BY <2>6, <2>8
    <3>3. /\ storage' = [storage EXCEPT ![At(Cap, head, 0)] = m]
          /\ refs' = Disposed(RetainForQueue(refs, m), storage[At(Cap, head, 0)])
      BY <2>2, <2>6, <3>1
    <3>4. [Queue EXCEPT ![0 + 1] = m] = <<m>> BY <1>0, <2>8, OneMessage
    <3>5. Moved(Outcome([Queue EXCEPT ![0 + 1] = m], "POSTED"))
      BY <2>4, <2>5, <2>6, <3>2, <3>3, ReplaceMoved
    <3> QED BY <2>3, <3>4, <3>5
  <2> QED BY <2>2, <2>7, <2>8
<1> QED BY <1>1, <1>2

\* The oldest message makes room for the new one in a full ring.
LEMMA RingOverwrite ==
  ASSUME NEW n, n \in Nat \ {0}, NEW h, NEW t, NEW c, NEW st, RingOf(n, h, t, c, st),
         c >= n, NEW m \in Msg
  PROVE  /\ RingOf(n, At(n, h, 1), At(n, t, 1), c, [st EXCEPT ![t] = m])
         /\ QueueOf(At(n, h, 1), c, n, [st EXCEPT ![t] = m])
              = Append(Tail(QueueOf(h, c, n, st)), m)
         /\ t = h /\ t \in 0 .. n - 1 /\ c = n
<1>0. h \in 0 .. n - 1 /\ t = At(n, h, c) /\ st \in [0 .. n - 1 -> Msg] /\ c = n
  BY DEF RingOf
<1>1. t = h BY <1>0 DEF At
<1>2. PICK b \in Msg : b.storage # "EXTERNAL" BY BlankIs
<1>3. PICK g, s1 : g = At(n, h, 1) /\ s1 = [st EXCEPT ![h] = b] OBVIOUS
<1>4. RingOf(n, g, t, c - 1, s1) /\ QueueOf(g, c - 1, n, s1) = Shortened(QueueOf(h, c, n, st))
  <2>1. n \in Nat \ {0} /\ RingOf(n, h, t, c, st) /\ c > 0 BY <1>0
  <2>2. RingOf(n, At(n, h, 1), t, c - 1, [st EXCEPT ![h] = b])
    BY ONLY <1>2, <2>1, RingPop
  <2>3. QueueOf(At(n, h, 1), c - 1, n, [st EXCEPT ![h] = b]) = Shortened(QueueOf(h, c, n, st))
    BY ONLY <1>2, <2>1, RingPop
  <2> QED BY <1>3, <2>2, <2>3
<1>5. /\ RingOf(n, g, At(n, t, 1), c, [s1 EXCEPT ![t] = m])
      /\ QueueOf(g, c, n, [s1 EXCEPT ![t] = m]) = Extended(QueueOf(g, c - 1, n, s1), m)
  <2>1. PICK d : d = c - 1 OBVIOUS
  <2>2. n \in Nat \ {0} /\ RingOf(n, g, t, d, s1) /\ d < n /\ m \in Msg
    BY <1>0, <1>4, <2>1
  <2>3. RingOf(n, g, At(n, t, 1), d + 1, [s1 EXCEPT ![t] = m])
    BY ONLY <2>2, RingAppend
  <2>4. QueueOf(g, d + 1, n, [s1 EXCEPT ![t] = m]) = Extended(QueueOf(g, d, n, s1), m)
    BY ONLY <2>2, RingAppend
  <2>5. d + 1 = c BY <1>0, <2>1
  <2> QED BY <2>1, <2>3, <2>4, <2>5
<1>6. [s1 EXCEPT ![t] = m] = [st EXCEPT ![t] = m] BY <1>0, <1>1, <1>3
<1> QED BY <1>0, <1>1, <1>3, <1>4, <1>5, <1>6 DEF Extended, Shortened

\* ev_mailbox_push on a lossy ring.
LEMMA LossyMoved ==
  ASSUME MbInv, NEW m \in Msg, PushLossy(m), UNCHANGED <<kind, prod, cur>>
  PROVE  Moved(Enqueue(kind, Queue, m))
<1>0. /\ kind = "LOSSY_RING" /\ Queue \in Seq(Msg) /\ Len(Queue) = count
      /\ Cap = Capacity("LOSSY_RING") /\ count \in 0 .. Cap /\ Cap \in Nat \ {0}
  BY MbParts DEF PushLossy, Cap
<1>1. CASE ~Retainable(m)
  <2>1. Refused(m) BY <1>1 DEF PushLossy
  <2>2. Enqueue(kind, Queue, m) = Outcome(Queue, "REJECTED") BY <1>0, <1>1, EnqueueIs
  <2> QED BY <2>1, <2>2, RefusedMoved
<1>2. CASE Retainable(m) /\ ~Full
  <2>1. count < Cap /\ count + 1 \in Nat BY <1>0, <1>2 DEF Full
  <2>2. Enqueue(kind, Queue, m) = Outcome(Append(Queue, m), "POSTED")
    BY <1>0, <1>2, EnqueueIs DEF Full
  <2>3. /\ storage' = [storage EXCEPT ![tail] = m] /\ tail' = At(Cap, tail, 1)
        /\ count' = count + 1 /\ refs' = RetainForQueue(refs, m) /\ head' = head
    BY <1>2, MbSteps DEF PushLossy
  <2>4. stats' \in Counters
    <3>1. stats' = WithHighWatermark([stats EXCEPT !["posted"] = @ + 1], count + 1)
      BY <1>2 DEF PushLossy
    <3> QED BY <2>1, <3>1, StatsAfter DEF Counted
  <2>5. report'.slot \in 0 .. Cap /\ report'.effect = "POSTED"
    BY <1>2, <2>3, MbSteps DEF PushLossy, Reported
  <2> QED BY <2>1, <2>2, <2>3, <2>4, <2>5, AppendMoved
<1>3. CASE Retainable(m) /\ Full
  <2>1. count = Cap BY <1>0, <1>3 DEF Full
  <2>2. Enqueue(kind, Queue, m) = Outcome(Append(Tail(Queue), m), "POSTED")
    BY <1>0, <1>3, EnqueueIs DEF Full
  <2>3. /\ storage' = [storage EXCEPT ![tail] = m] /\ tail' = At(Cap, tail, 1)
        /\ count' = Cap /\ head' = At(Cap, head, 1)
        /\ refs' = Disposed(RetainForQueue(refs, m), storage[head])
    <3>1. count - 1 + 1 = Cap BY <1>0, <2>1
    <3> QED BY <1>3, <3>1, MbSteps DEF PushLossy
  <2>4. stats' \in Counters
    <3>1. count - 1 + 1 \in Nat BY <1>0, <2>1
    <3>2. stats' = WithHighWatermark([Counted("dropped") EXCEPT !["posted"] = @ + 1], count - 1 + 1)
      BY <1>3 DEF PushLossy
    <3>3. Counted("dropped") \in Counters BY StatsAfter
    <3>4. [Counted("dropped") EXCEPT !["posted"] = @ + 1] \in Counters
      BY <3>1, <3>3, CountedType
    <3> QED BY <3>1, <3>2, <3>4, CountedType
  <2>5. report'.slot \in 0 .. Cap /\ report'.effect = "POSTED"
    BY <1>3, <2>3, MbSteps DEF PushLossy, Reported
  <2>6. /\ RingOf(Cap, head', tail', count', storage') /\ tail = head /\ tail \in 0 .. Cap - 1
        /\ QueueOf(head', count', Cap, storage') = Append(Tail(Queue), m)
    <3>1. PICK n, h, t, c, st : /\ n = Cap /\ h = head /\ t = tail /\ c = count
                                /\ st = storage
      OBVIOUS
    <3>2. n \in Nat \ {0} /\ RingOf(n, h, t, c, st) /\ c >= n /\ m \in Msg
      BY <2>1, <3>1, MbParts
    <3>3. /\ RingOf(n, At(n, h, 1), At(n, t, 1), c, [st EXCEPT ![t] = m])
          /\ QueueOf(At(n, h, 1), c, n, [st EXCEPT ![t] = m])
               = Append(Tail(QueueOf(h, c, n, st)), m)
          /\ t = h /\ t \in 0 .. n - 1 /\ c = n
      BY ONLY <3>2, RingOverwrite
    <3> QED BY <2>3, <3>1, <3>3 DEF Queue
  <2>7. RefsConserved' /\ refs' \in [Payloads -> Nat]
    <3>1. tail \in Indices BY <2>6 DEF Indices
    <3> QED BY <2>3, <2>6, <3>1, MbParts, RefsFollow
  <2> QED BY <2>2, <2>4, <2>5, <2>6, <2>7 DEF Moved, Outcome
<1> QED BY <1>1, <1>2, <1>3

\* ev_mailbox_push on a coalesced flag.
LEMMA FlagMoved ==
  ASSUME MbInv, NEW m \in Msg, PushFlag(m), UNCHANGED <<kind, prod, cur>>
  PROVE  Moved(Enqueue(kind, Queue, m))
<1>0. kind = "COALESCED_FLAG" /\ Queue \in Seq(Msg) /\ Len(Queue) = count
  BY MbParts DEF PushFlag
<1>1. Cap = 1 BY <1>0, MbParts, CapIs
<1>2. /\ head = 0 /\ tail = 0 /\ count \in {0, 1} /\ At(Cap, head, 0) = 0
      /\ At(Cap, tail, 1) = 0
  BY <1>1, OneSlot
<1>3. count = 1 => Queue # <<>> /\ Queue[1] = storage[0]
  <2>1. ASSUME count = 1 PROVE Queue[1] = storage[At(Cap, head, 0)]
    <3>1. 1 \in 1 .. count /\ 1 - 1 = 0 BY <2>1
    <3> QED BY <3>1, MbParts
  <2> QED BY <1>0, <1>2, <2>1, OneMessage
<1>4. count = 0 => Queue = <<>> BY <1>0, OneMessage
<1>5. CASE m.storage # "NONE" \/ (count # 0 /\ storage[0].event # m.event)
  <2>1. Refused(m) BY <1>5 DEF PushFlag
  <2>2. Enqueue(kind, Queue, m) = Outcome(Queue, "REJECTED")
    <3>1. CASE m.storage # "NONE" BY <1>0, <3>1, EnqueueIs
    <3>2. CASE m.storage = "NONE"
      <4>1. Queue # <<>> /\ Queue[1].event # m.event BY <1>2, <1>3, <1>5, <3>2
      <4> QED BY <1>0, <3>2, <4>1, EnqueueIs
    <3> QED BY <3>1, <3>2
  <2> QED BY <2>1, <2>2, RefusedMoved
<1>6. CASE ~(m.storage # "NONE" \/ (count # 0 /\ storage[0].event # m.event)) /\ count = 0
  <2>1. Enqueue(kind, Queue, m) = Outcome(Append(Queue, m), "POSTED")
    BY <1>0, <1>4, <1>6, EnqueueIs, OneMessage
  <2>2. /\ storage' = [storage EXCEPT ![0] = m] /\ count' = 1 /\ UNCHANGED <<head, tail, refs>>
        /\ stats' = WithHighWatermark(Counted("posted"), 1)
    BY <1>6 DEF PushFlag
  <2>3. stats' \in Counters
    <3>1. 1 \in Nat OBVIOUS
    <3> QED BY <2>2, <3>1, StatsAfter
  <2>4. report'.slot \in 0 .. Cap /\ report'.effect = "POSTED"
    BY <1>6, MbSteps DEF PushFlag, Reported
  <2>5. refs' = RetainForQueue(refs, m)
    <3>1. refs = [x \in Payloads |-> refs[x]] BY MbParts
    <3>2. \A x \in Payloads : ~Leases(m, x) BY <1>6 DEF Leases
    <3> QED BY <2>2, <3>1, <3>2 DEF RetainForQueue
  <2>6. count < Cap /\ count' = count + 1 BY <1>1, <1>6, <2>2
  <2>7. tail' = At(Cap, tail, 1) /\ storage' = [storage EXCEPT ![tail] = m] /\ head' = head
    BY <1>2, <2>2
  <2> QED BY <2>1, <2>3, <2>4, <2>5, <2>6, <2>7, AppendMoved
<1>7. CASE ~(m.storage # "NONE" \/ (count # 0 /\ storage[0].event # m.event)) /\ count # 0
  <2>1. Enqueue(kind, Queue, m) = Outcome(Queue, "POSTED")
    <3>1. Queue # <<>> /\ Queue[1].event = m.event BY <1>2, <1>3, <1>7
    <3> QED BY <1>0, <1>7, <3>1, EnqueueIs
  <2>2. stats' = Counted("coalesced") /\ UNCHANGED <<ringVars, refs>>
    BY <1>7 DEF PushFlag, ringVars
  <2>3. stats' \in Counters BY <2>2, StatsAfter
  <2>4. report'.slot \in 0 .. Cap /\ report'.effect = "POSTED"
    BY <1>7, MbSteps DEF PushFlag, Reported
  <2> QED BY <2>1, <2>2, <2>3, <2>4, KeptMoved
<1> QED BY <1>5, <1>6, <1>7

\* The places of the pending messages.
LEMMA PendingAt ==
  ASSUME MbInv, NEW k \in 0 .. count - 1
  PROVE  /\ PendingIndexAt(k) = At(Cap, head, k) /\ At(Cap, head, k) \in 0 .. Cap - 1
         /\ k + 1 \in 1 .. count /\ Queue[k + 1] = storage[At(Cap, head, k)]
<1>1. PICK n, h, c : n = Cap /\ h = head /\ c = count OBVIOUS
<1>2. n \in Nat \ {0} /\ h \in 0 .. n - 1 /\ c \in 0 .. n /\ k \in 0 .. c - 1
  BY <1>1, MbParts
<1>3. k \in 0 .. n /\ k + 1 \in 1 .. c /\ k + 1 - 1 = k BY <1>2
<1>4. (h + k) % n = At(n, h, k) /\ At(n, h, k) \in 0 .. n - 1 BY <1>2, <1>3, ModIsAt
<1> QED BY <1>1, <1>3, <1>4, MbParts DEF PendingIndexAt

\* ev_mailbox_find_event_slot finds a pending message of the event if there is
\* one, and the latest of them when asked to.
LEMMA FindSlot ==
  ASSUME MbInv, NEW e, NEW latest \in BOOLEAN
  PROVE  /\ Pending(Queue, e) = {} => FindEventSlot(e, latest) = Cap
         /\ Pending(Queue, e) # {} =>
              \E k \in 0 .. count - 1 :
                /\ k + 1 \in Pending(Queue, e) /\ FindEventSlot(e, latest) = At(Cap, head, k)
                /\ FindEventSlot(e, latest) # Cap
                /\ latest => \A j \in Pending(Queue, e) : j <= k + 1
<1> DEFINE P == Pending(Queue, e)
           same == SameEvent(e)
<1>0. count \in Nat /\ DOMAIN Queue = 1 .. count /\ Cap \in Nat BY MbParts
<1>1. ASSUME NEW k \in 0 .. count - 1
      PROVE  k \in same <=> k + 1 \in P
  BY <1>0, PendingAt DEF SameEvent, Offsets, Pending
<1>2. same \subseteq 0 .. count - 1 BY DEF SameEvent, Offsets
<1>3. \A j \in P : j - 1 \in 0 .. count - 1 /\ j - 1 + 1 = j BY <1>0 DEF Pending
<1>4. CASE P = {}
  <2>1. same = {} BY <1>1, <1>2, <1>4
  <2> QED BY <1>4, <2>1 DEF FindEventSlot, NoSlot
<1>5. CASE P # {}
  <2>1. same # {} BY <1>1, <1>3, <1>5
  <2> HIDE DEF same
  <2>2. \E k \in same : \A j \in same : IF latest THEN j <= k ELSE k <= j
    <3>1. same \in SUBSET Nat /\ count \in Nat /\ same \in SUBSET (0 .. count)
      BY <1>0, <1>2
    <3>2. \E z \in same : \A y \in same : z <= y BY <2>1, <3>1, LeastElement
    <3>3. \E z \in same : \A y \in same : y <= z BY <2>1, <3>1, GreatestElement
    <3> QED BY <3>2, <3>3
  <2>3. PICK k : k = CHOOSE i \in same : \A j \in same : IF latest THEN j <= i ELSE i <= j
    OBVIOUS
  <2>4. k \in same /\ \A j \in same : IF latest THEN j <= k ELSE k <= j BY <2>2, <2>3
  <2>5. FindEventSlot(e, latest) = PendingIndexAt(k)
    BY <2>1, <2>3 DEF FindEventSlot, same
  <2>6. k \in 0 .. count - 1 BY <1>2, <2>4
  <2>7. /\ FindEventSlot(e, latest) = At(Cap, head, k) /\ At(Cap, head, k) \in 0 .. Cap - 1
    BY <2>5, <2>6, PendingAt
  <2>8. FindEventSlot(e, latest) # Cap BY <1>0, <2>7
  <2>9. k + 1 \in P BY <1>1, <2>4, <2>6
  <2>10. ASSUME latest, NEW j \in P PROVE j <= k + 1
    <3>1. j - 1 \in same BY <1>1, <1>3
    <3>2. j - 1 <= k BY <2>4, <2>10, <3>1
    <3>3. j \in Nat /\ k \in Nat BY <1>0, <2>6 DEF Pending
    <3> QED BY <3>2, <3>3
  <2> QED BY <1>5, <2>6, <2>7, <2>8, <2>9, <2>10
<1> QED BY <1>4, <1>5

\* ev_mailbox_push
LEMMA PlainMoved ==
  ASSUME MbInv, NEW m \in Msg, PlainPush(m), UNCHANGED <<kind, prod, cur>>
  PROVE  Moved(Enqueue(kind, Queue, m))
  BY FifoMoved, Mailbox1Moved, LossyMoved, FlagMoved DEF PlainPush

\* A push dropped by its QoS.
LEMMA DropMoved ==
  ASSUME MbInv, NEW m, PolicyDrop(m), UNCHANGED <<kind, prod, cur>>
  PROVE  Moved(Outcome(Queue, "DROPPED"))
<1>1. stats' \in Counters BY StatsAfter DEF PolicyDrop
<1>2. report'.slot = Cap /\ report'.effect = "DROPPED"
  BY DEF PolicyDrop, Reported, NoSlot
<1>3. UNCHANGED <<ringVars, refs, kind, prod, cur>> BY DEF PolicyDrop
<1> QED BY <1>1, <1>2, <1>3, MbParts, KeptMoved

\* ev_mailbox_push_qos for a coalesced event.
LEMMA CoalescedMoved ==
  ASSUME MbInv, NEW m \in Msg, Valid(m), PushCoalesced(m), UNCHANGED <<kind, prod, cur>>
  PROVE  Moved(EnqueueQos(kind, Queue, m, "COALESCED"))
<1>0. Len(Queue) = count /\ Cap = Capacity(kind) BY MbParts DEF Cap
<1>1. CASE Pending(Queue, m.event) # {}
  <2>1. PICK k \in 0 .. count - 1 : /\ FindEventSlot(m.event, FALSE) = At(Cap, head, k)
                                    /\ FindEventSlot(m.event, FALSE) # Cap
    BY <1>1, FindSlot
  <2>2. /\ stats' = Counted("coalesced") /\ UNCHANGED <<ringVars, refs>>
        /\ report' = [effect |-> "COALESCED", slot |-> At(Cap, head, k), event |-> m.event]
    BY <2>1 DEF PushCoalesced, Reported, NoSlot
  <2>3. report'.slot \in 0 .. Cap /\ report'.effect = "COALESCED"
    <3>1. At(Cap, head, k) \in 0 .. Cap - 1 /\ Cap \in Nat BY PendingAt, MbParts
    <3>2. At(Cap, head, k) \in 0 .. Cap BY <3>1
    <3> QED BY <2>2, <3>2
  <2>4. stats' \in Counters BY <2>2, StatsAfter
  <2>5. EnqueueQos(kind, Queue, m, "COALESCED") = Outcome(Queue, "COALESCED")
    BY <1>1 DEF EnqueueQos
  <2> QED BY <2>2, <2>3, <2>4, <2>5, KeptMoved
<1>2. CASE Pending(Queue, m.event) = {}
  <2>1. FindEventSlot(m.event, FALSE) = NoSlot BY <1>2, FindSlot DEF NoSlot
  <2>2. CASE Full
    <3>1. PolicyDrop(m) BY <2>1, <2>2 DEF PushCoalesced
    <3>2. EnqueueQos(kind, Queue, m, "COALESCED") = Outcome(Queue, "DROPPED")
      BY <1>0, <1>2, <2>2 DEF EnqueueQos, Full
    <3> QED BY <3>1, <3>2, DropMoved
  <2>3. CASE ~Full
    <3>1. PlainPush(m) BY <2>1, <2>3 DEF PushCoalesced
    <3>2. EnqueueQos(kind, Queue, m, "COALESCED") = Enqueue(kind, Queue, m)
      BY <1>0, <1>2, <2>3 DEF EnqueueQos, Full
    <3> QED BY <3>1, <3>2, PlainMoved
  <2> QED BY <2>2, <2>3
<1> QED BY <1>1, <1>2

\* ev_mailbox_push_qos for an event of which the latest message counts.
LEMMA LatestMoved ==
  ASSUME MbInv, NEW m \in Msg, Valid(m), PushLatestOnly(m), UNCHANGED <<kind, prod, cur>>
  PROVE  Moved(EnqueueQos(kind, Queue, m, "LATEST_ONLY"))
<1>0. Len(Queue) = count /\ Cap = Capacity(kind) BY MbParts DEF Cap
<1>1. CASE Pending(Queue, m.event) # {}
  <2>1. PICK k \in 0 .. count - 1 : /\ k + 1 \in Pending(Queue, m.event)
                                    /\ FindEventSlot(m.event, TRUE) = At(Cap, head, k)
                                    /\ FindEventSlot(m.event, TRUE) # Cap
                                    /\ \A j \in Pending(Queue, m.event) : j <= k + 1
    BY <1>1, FindSlot
  <2>2. ReplaceSlot(m, At(Cap, head, k)) BY <2>1 DEF PushLatestOnly, NoSlot
  <2>3. At(Cap, head, k) \in 0 .. Cap
    <3>1. At(Cap, head, k) \in 0 .. Cap - 1 /\ Cap \in Nat BY PendingAt, MbParts
    <3> QED BY <3>1
  <2>4. CASE ~Retainable(m)
    <3>1. /\ stats' = Counted("rejected") /\ UNCHANGED <<ringVars, refs>>
          /\ report' = [effect |-> "REJECTED", slot |-> At(Cap, head, k), event |-> m.event]
      BY <2>2, <2>4 DEF ReplaceSlot, Reported
    <3>2. stats' \in Counters BY <3>1, StatsAfter
    <3>3. EnqueueQos(kind, Queue, m, "LATEST_ONLY") = Outcome(Queue, "REJECTED")
      BY <1>1, <2>4 DEF EnqueueQos
    <3>4. report'.slot \in 0 .. Cap /\ report'.effect = "REJECTED" BY <2>3, <3>1
    <3> QED BY <3>1, <3>2, <3>3, <3>4, KeptMoved
  <2>5. CASE Retainable(m)
    <3>1. /\ stats' = Counted("replaced") /\ UNCHANGED <<head, tail, count>>
          /\ storage' = [storage EXCEPT ![At(Cap, head, k)] = m]
          /\ refs' = Disposed(RetainForQueue(refs, m), storage[At(Cap, head, k)])
          /\ report' = [effect |-> "REPLACED", slot |-> At(Cap, head, k), event |-> m.event]
      BY <2>2, <2>5 DEF ReplaceSlot, Reported
    <3>2. stats' \in Counters BY <3>1, StatsAfter
    <3>3. k + 1 = CHOOSE last \in Pending(Queue, m.event) :
                    \A j \in Pending(Queue, m.event) : j <= last
      <4>1. \A i \in Pending(Queue, m.event) : i \in Nat BY MbParts DEF Pending
      <4>2. PICK i : i = CHOOSE last \in Pending(Queue, m.event) :
                           \A j \in Pending(Queue, m.event) : j <= last
        OBVIOUS
      <4>3. i \in Pending(Queue, m.event) /\ \A j \in Pending(Queue, m.event) : j <= i
        BY <2>1, <4>2
      <4>4. i <= k + 1 /\ k + 1 <= i BY <2>1, <4>3
      <4>5. i = k + 1 BY <2>1, <4>1, <4>3, <4>4
      <4> QED BY <4>2, <4>5
    <3>4. EnqueueQos(kind, Queue, m, "LATEST_ONLY")
            = Outcome([Queue EXCEPT ![k + 1] = m], "REPLACED")
      BY <1>1, <2>5, <3>3 DEF EnqueueQos
    <3>5. report'.slot \in 0 .. Cap /\ report'.effect = "REPLACED" BY <2>3, <3>1
    <3> QED BY <3>1, <3>2, <3>4, <3>5, ReplaceMoved
  <2> QED BY <2>4, <2>5
<1>2. CASE Pending(Queue, m.event) = {}
  <2>1. FindEventSlot(m.event, TRUE) = NoSlot BY <1>2, FindSlot DEF NoSlot
  <2>2. CASE Full
    <3>1. PolicyDrop(m) BY <2>1, <2>2 DEF PushLatestOnly
    <3>2. EnqueueQos(kind, Queue, m, "LATEST_ONLY") = Outcome(Queue, "DROPPED")
      BY <1>0, <1>2, <2>2 DEF EnqueueQos, Full
    <3> QED BY <3>1, <3>2, DropMoved
  <2>3. CASE ~Full
    <3>1. PlainPush(m) BY <2>1, <2>3 DEF PushLatestOnly
    <3>2. EnqueueQos(kind, Queue, m, "LATEST_ONLY") = Enqueue(kind, Queue, m)
      BY <1>0, <1>2, <2>3 DEF EnqueueQos, Full
    <3> QED BY <3>1, <3>2, PlainMoved
  <2> QED BY <2>2, <2>3
<1> QED BY <1>1, <1>2

\* ev_mailbox_push_qos
LEMMA PushMoved ==
  ASSUME MbInv, NEW p \in Producers, Push(p)
  PROVE  /\ Moved(EnqueueQos(kind, Queue, prod[p], EventQos[prod[p].event]))
         /\ prod[p] \in Msg /\ UNCHANGED <<kind, prod, cur, handling>>
<1>1. PICK m : m = prod[p] OBVIOUS
<1>2. m \in Msg BY <1>1, MbParts DEF TypeOK
<1>3. UNCHANGED <<kind, prod, cur, handling>> BY DEF Push
<1>4. PICK q : q = EventQos[m.event] OBVIOUS
<1>5. q \in {"CRITICAL", "COALESCED", "LATEST_ONLY"}
  <2>1. m.event \in Events BY <1>2 DEF Msg
  <2> QED BY <1>4, <2>1, CatalogAssumption DEF QosClasses
<1>6. Moved(EnqueueQos(kind, Queue, m, q))
  <2>1. CASE ~Valid(m)
    <3>1. Refused(m) BY <1>1, <2>1 DEF Push
    <3>2. EnqueueQos(kind, Queue, m, q) = Outcome(Queue, "REJECTED")
      BY <2>1 DEF EnqueueQos
    <3> QED BY <1>3, <3>1, <3>2, RefusedMoved
  <2>2. CASE Valid(m) /\ q = "COALESCED"
    <3>1. PushCoalesced(m) BY <1>1, <1>4, <2>2 DEF Push
    <3> QED BY <1>2, <1>3, <2>2, <3>1, CoalescedMoved
  <2>3. CASE Valid(m) /\ q = "LATEST_ONLY"
    <3>1. PushLatestOnly(m) BY <1>1, <1>4, <2>3 DEF Push
    <3> QED BY <1>2, <1>3, <2>3, <3>1, LatestMoved
  <2>4. CASE Valid(m) /\ q = "CRITICAL"
    <3>1. PlainPush(m) BY <1>1, <1>4, <2>4 DEF Push
    <3>2. EnqueueQos(kind, Queue, m, q) = Enqueue(kind, Queue, m) BY <2>4 DEF EnqueueQos
    <3> QED BY <1>2, <1>3, <3>1, <3>2, PlainMoved
  <2> QED BY <1>5, <2>1, <2>2, <2>3, <2>4
<1> QED BY <1>1, <1>2, <1>3, <1>4, <1>6

-----------------------------------------------------------------------------
(* The other steps. *)

\* The shares of a lease, as counts.
LEMMA SharesAre ==
  ASSUME TypeOK, RefsConserved, NEW x \in Payloads
  PROVE  /\ refs[x] = Held(prod, Producers, x) + Held(storage, Indices, x) + One(cur, x)
         /\ Held(prod, Producers, x) \in Nat /\ Held(storage, Indices, x) \in Nat
         /\ One(cur, x) \in Nat
<1>1. IsFiniteSet(Producers) /\ IsFiniteSet(Indices) BY CapIs
<1>2. /\ IsFiniteSet({j \in Producers : Leases(prod[j], x)})
      /\ IsFiniteSet({j \in Indices : Leases(storage[j], x)})
  BY <1>1, FS_Subset
<1>3. Held(prod, Producers, x) \in Nat /\ Held(storage, Indices, x) \in Nat
  BY <1>2, FS_CardinalityType DEF Held
<1>4. refs[x] = Held(prod, Producers, x) + Held(storage, Indices, x) + One(cur, x)
  BY DEF RefsConserved, Held, One
<1> QED BY <1>3, <1>4 DEF One

\* Counts that agree again are the invariant.
LEMMA SharesAgree ==
  ASSUME TypeOK, kind' = kind, refs' = [x \in Payloads |-> refs'[x]],
         \A x \in Payloads :
           refs'[x] = Held(prod', Producers, x) + Held(storage', Indices, x) + One(cur', x)
  PROVE  RefsConserved' /\ refs' \in [Payloads -> Nat]
<1>0. IsFiniteSet(Producers) /\ IsFiniteSet(Indices) /\ Indices' = Indices
  BY CapIs DEF Indices, Cap
<1>1. ASSUME NEW x \in Payloads PROVE refs'[x] \in Nat
  <2>1. /\ IsFiniteSet({j \in Producers : Leases(prod'[j], x)})
        /\ IsFiniteSet({j \in Indices : Leases(storage'[j], x)})
    BY <1>0, FS_Subset
  <2>2. Held(prod', Producers, x) \in Nat /\ Held(storage', Indices, x) \in Nat
    BY <2>1, FS_CardinalityType DEF Held
  <2>3. One(cur', x) \in Nat BY DEF One
  <2> QED BY <2>2, <2>3
<1>2. RefsConserved' BY <1>0 DEF RefsConserved, Held, One
<1> QED BY <1>1, <1>2

\* A slot is written over.
LEMMA SlotWritten ==
  ASSUME MbInv, NEW s \in Indices, NEW m, storage' = [storage EXCEPT ![s] = m], NEW x \in Payloads
  PROVE  Held(storage', Indices, x) = Held(storage, Indices, x) + One(m, x) - One(storage[s], x)
<1>1. PICK f, g, S : f = storage /\ g = storage' /\ S = Indices OBVIOUS
<1>2. storage'[s] = m /\ \A j \in Indices : j # s => storage'[j] = storage[j]
  BY MbParts DEF TypeOK
<1>3. s \in S /\ IsFiniteSet(S) /\ AgreeBut(f, g, S, s)
  BY <1>1, <1>2, MbParts, CapIs DEF AgreeBut
<1>4. Held(g, S, x) = Held(f, S, x) + One(g[s], x) - One(f[s], x) BY <1>3, HeldExcept
<1> QED BY <1>1, <1>2, <1>4

\* A producer's envelope is written over.
LEMMA EnvelopeWritten ==
  ASSUME MbInv, NEW p \in Producers, NEW m, prod' = [prod EXCEPT ![p] = m], NEW x \in Payloads
  PROVE  Held(prod', Producers, x) = Held(prod, Producers, x) + One(m, x) - One(prod[p], x)
<1>1. PICK f, g, S : f = prod /\ g = prod' /\ S = Producers OBVIOUS
<1>2. prod'[p] = m /\ \A j \in Producers : j # p => prod'[j] = prod[j]
  BY MbParts DEF TypeOK
<1>3. p \in S /\ IsFiniteSet(S) /\ AgreeBut(f, g, S, p)
  BY <1>1, <1>2, MbParts, CapIs DEF AgreeBut
<1>4. Held(g, S, x) = Held(f, S, x) + One(g[p], x) - One(f[p], x) BY <1>3, HeldExcept
<1> QED BY <1>1, <1>2, <1>4

\* The invariant after a step that leaves the ring as it was.
LEMMA RingKept ==
  ASSUME MbInv, UNCHANGED <<kind, storage, head, tail, count, stats, report, pushes>>,
         prod' \in [Producers -> Msg], cur' \in Msg, handling' \in BOOLEAN,
         refs' \in [Payloads -> Nat], RefsConserved', handling' \/ cur' = Blank
  PROVE  MbInv'
<1>1. TypeOK' BY MbParts DEF TypeOK, Indices, Cap
<1>2. RingOf(Cap, head, tail, count, storage)' BY MbParts DEF Cap
<1> QED BY <1>1, <1>2 DEF MbInv, Blank

\* The invariant after a push.
LEMMA PushKeeps == ASSUME MbInv, NEW p \in Producers, Push(p) PROVE MbInv'
<1>1. PICK o : Moved(o) /\ UNCHANGED <<kind, prod, cur, handling>> BY PushMoved
<1>2. /\ RingOf(Cap, head', tail', count', storage') /\ RefsConserved'
      /\ refs' \in [Payloads -> Nat] /\ stats' \in Counters /\ report'.slot \in 0 .. Cap
  BY <1>1 DEF Moved
<1>3. Cap' = Cap BY <1>1 DEF Cap
<1>4. pushes' \in Nat
  <2>1. pushes \in Nat /\ pushes' = pushes + 1 BY MbParts DEF Push, TypeOK
  <2> QED BY <2>1
<1>5. /\ head' \in 0 .. Cap - 1 /\ count' \in 0 .. Cap /\ storage' \in [0 .. Cap - 1 -> Msg]
      /\ tail' \in 0 .. Cap - 1
  <2>1. PICK n, h, t, c, st : n = Cap /\ h = head' /\ t = tail' /\ c = count' /\ st = storage'
    OBVIOUS
  <2>2. n \in Nat \ {0} /\ RingOf(n, h, t, c, st) BY <1>2, <2>1, MbParts
  <2>3. h \in 0 .. n - 1 /\ c \in 0 .. n /\ st \in [0 .. n - 1 -> Msg] /\ t = At(n, h, c)
    BY <2>2 DEF RingOf
  <2>4. At(n, h, c) \in 0 .. n - 1 BY <2>2, <2>3, AtType
  <2> QED BY <2>1, <2>3, <2>4
<1>6. TypeOK' BY <1>1, <1>2, <1>3, <1>4, <1>5, MbParts DEF TypeOK, Indices
<1>7. handling' \/ cur' = Blank BY <1>1 DEF MbInv
<1> QED BY <1>2, <1>3, <1>6, <1>7 DEF MbInv, Blank

\* ev_mailbox_pop: the envelope takes over the slot's share, and the sequence
\* loses its head.
LEMMA PopKeeps ==
  ASSUME MbInv, Pop
  PROVE  /\ MbInv' /\ kind' = kind /\ report' = report
         /\ Queue # <<>> /\ QueueOf(head', count', Cap, storage') = Tail(Queue)
<1>0. /\ handling = FALSE /\ count # 0 /\ handling' = TRUE /\ count' = count - 1
      /\ stats' = Counted("popped") /\ UNCHANGED <<kind, tail, refs, prod, report, pushes>>
  BY MbParts DEF Pop, TypeOK
<1>1. /\ cur' = storage[head] /\ storage' = [storage EXCEPT ![head] = Blank]
      /\ head' = At(Cap, head, 1)
  <2>1. CASE kind \in {"FIFO", "LOSSY_RING"} BY <2>1, MbSteps DEF Pop, PoppedStorage
  <2>2. CASE kind \notin {"FIFO", "LOSSY_RING"}
    <3>1. kind \in {"MAILBOX_1", "COALESCED_FLAG"} BY <2>2, MbParts DEF Kinds
    <3>2. Cap = 1 BY <3>1, MbParts, CapIs
    <3>3. head = 0 /\ Advance(head) = head BY <3>2, OneSlot, MbSteps
    <3> QED BY <2>2, <3>3, MbSteps DEF Pop, PoppedStorage
  <2> QED BY <2>1, <2>2
<1>2. cur = Blank BY <1>0 DEF MbInv
<1>3. Cap' = Cap /\ Indices' = Indices /\ head \in Indices
  BY <1>0, MbParts DEF Cap, Indices
<1>4. /\ RingOf(Cap, head', tail', count', storage')
      /\ QueueOf(head', count', Cap, storage') = Tail(Queue)
  <2>1. PICK n, h, t, c, st, b : /\ n = Cap /\ h = head /\ t = tail /\ c = count
                                 /\ st = storage /\ b = Blank
    OBVIOUS
  <2>2. /\ n \in Nat \ {0} /\ RingOf(n, h, t, c, st) /\ c \in 0 .. n /\ c # 0
        /\ b \in Msg /\ b.storage # "EXTERNAL"
    BY <1>0, <2>1, MbParts, BlankIs
  <2>3. c > 0 BY <2>2
  <2>4. /\ RingOf(n, At(n, h, 1), t, c - 1, [st EXCEPT ![h] = b])
        /\ QueueOf(At(n, h, 1), c - 1, n, [st EXCEPT ![h] = b]) = Shortened(QueueOf(h, c, n, st))
    BY <2>2, <2>3, RingPop
  <2> QED BY <1>0, <1>1, <2>1, <2>4 DEF Queue, Shortened
<1>5. Queue # <<>>
  <2>1. Len(Queue) # 0 BY <1>0, MbParts
  <2>2. Len(<<>>) = 0 BY EmptySeq
  <2> QED BY <2>1, <2>2
<1>6. RefsConserved'
  <2>1. ASSUME NEW x \in Payloads
        PROVE  refs'[x] = Held(prod', Producers, x) + Held(storage', Indices, x) + One(cur', x)
    <3>1. Held(storage', Indices, x) = Held(storage, Indices, x) + One(Blank, x)
                                         - One(storage[head], x)
      BY <1>1, <1>3, SlotWritten
    <3>2. /\ refs[x] = Held(prod, Producers, x) + Held(storage, Indices, x) + One(cur, x)
          /\ Held(prod, Producers, x) \in Nat /\ Held(storage, Indices, x) \in Nat
      BY MbParts, SharesAre
    <3>3. One(Blank, x) = 0 BY BlankIs DEF One, Leases
    <3>4. One(storage[head], x) \in Nat BY DEF One
    <3>5. cur' = storage[head] /\ refs' = refs /\ prod' = prod BY <1>0, <1>1
    <3> QED BY <1>2, <3>1, <3>2, <3>3, <3>4, <3>5
  <2>2. refs' = [x \in Payloads |-> refs'[x]] BY <1>0, MbParts
  <2> QED BY <1>0, <2>1, <2>2, MbParts, SharesAgree
<1>7. TypeOK'
  <2>1. head' \in Indices BY <1>1, <1>3, <1>4 DEF RingOf, Indices
  <2>2. count' \in 0 .. Cap /\ storage' \in [Indices -> Msg] BY <1>4 DEF RingOf, Indices
  <2>3. stats' \in Counters BY <1>0, StatsAfter
  <2>4. cur' \in Msg BY <1>1, MbParts
  <2>5. handling' \in BOOLEAN BY <1>0
  <2> QED BY <1>0, <1>3, <2>1, <2>2, <2>3, <2>4, <2>5, MbParts DEF TypeOK
<1> QED BY <1>0, <1>3, <1>4, <1>5, <1>6, <1>7 DEF MbInv

\* The runtime disposes the handled envelope.
LEMMA ConsumedKeeps == ASSUME MbInv, Consumed PROVE MbInv'
<1>0. /\ refs' = Disposed(refs, cur) /\ cur' = Blank /\ handling' = FALSE
      /\ UNCHANGED <<kind, storage, head, tail, count, stats, prod, report, pushes>>
  BY DEF Consumed, ringVars
<1>1. ASSUME NEW x \in Payloads
      PROVE  refs'[x] = Held(prod', Producers, x) + Held(storage', Indices, x) + One(cur', x)
  <2>1. refs'[x] = refs[x] - One(cur, x)
    <3>1. refs[x] \in Nat BY MbParts
    <3> QED BY <1>0, <3>1 DEF Disposed, One
  <2>2. /\ refs[x] = Held(prod, Producers, x) + Held(storage, Indices, x) + One(cur, x)
        /\ Held(prod, Producers, x) \in Nat /\ Held(storage, Indices, x) \in Nat
        /\ One(cur, x) \in Nat
    BY MbParts, SharesAre
  <2>3. One(cur', x) = 0 BY <1>0, BlankIs DEF One, Leases
  <2>4. storage' = storage /\ prod' = prod BY <1>0
  <2> QED BY <2>1, <2>2, <2>3, <2>4
<1>2. refs' = [x \in Payloads |-> refs'[x]] BY <1>0 DEF Disposed
<1>3. RefsConserved' /\ refs' \in [Payloads -> Nat]
  BY <1>0, <1>1, <1>2, MbParts, SharesAgree
<1>4. cur' \in Msg /\ handling' \in BOOLEAN /\ prod' \in [Producers -> Msg]
  BY <1>0, MbParts, BlankIs DEF TypeOK
<1> QED BY <1>0, <1>3, <1>4, RingKept

\* A producer's envelope is filled or disposed: its share comes or goes.
LEMMA EnvelopeKeeps ==
  ASSUME MbInv, NEW p \in Producers, NEW m \in Msg, prod' = [prod EXCEPT ![p] = m],
         UNCHANGED <<kind, storage, head, tail, count, stats, cur, handling, report, pushes>>,
         refs' = [x \in Payloads |-> refs'[x]],
         \A x \in Payloads : refs'[x] = refs[x] + One(m, x) - One(prod[p], x)
  PROVE  MbInv'
<1>1. ASSUME NEW x \in Payloads
      PROVE  refs'[x] = Held(prod', Producers, x) + Held(storage', Indices, x) + One(cur', x)
  <2>1. Held(prod', Producers, x) = Held(prod, Producers, x) + One(m, x) - One(prod[p], x)
    BY EnvelopeWritten
  <2>2. /\ refs[x] = Held(prod, Producers, x) + Held(storage, Indices, x) + One(cur, x)
        /\ Held(prod, Producers, x) \in Nat /\ Held(storage, Indices, x) \in Nat
        /\ One(cur, x) \in Nat
    BY MbParts, SharesAre
  <2>3. One(m, x) \in Nat /\ One(prod[p], x) \in Nat BY DEF One
  <2>4. storage' = storage /\ cur' = cur OBVIOUS
  <2> QED BY <2>1, <2>2, <2>3, <2>4
<1>2. RefsConserved' /\ refs' \in [Payloads -> Nat] BY <1>1, MbParts, SharesAgree
<1>3. prod' \in [Producers -> Msg] BY MbParts DEF TypeOK
<1>4. cur' \in Msg /\ handling' \in BOOLEAN BY MbParts DEF TypeOK
<1>5. handling' \/ cur' = Blank BY DEF MbInv
<1> QED BY <1>2, <1>3, <1>4, <1>5, RingKept

\* A call site fills an envelope, with a fresh lease or without one.
LEMMA PrepareKeeps ==
  ASSUME MbInv, NEW p \in Producers, NEW e \in Events, Prepare(p, e)
  PROVE  MbInv'
<1>0. /\ UNCHANGED <<kind, storage, head, tail, count, stats, cur, handling, report, pushes>>
      /\ prod[p].storage # "EXTERNAL"
  BY DEF Prepare, ringVars
<1>1. \A x \in Payloads : One(prod[p], x) = 0 BY <1>0 DEF One, Leases
<1>2. refs \in [Payloads -> Nat] BY MbParts
<1>3. ASSUME NEW st \in AllowedStorage(e), UNCHANGED refs,
             prod' = [prod EXCEPT ![p] = [Blank EXCEPT !.event = e, !.storage = st]]
      PROVE  MbInv'
  <2>1. PICK m : m = [Blank EXCEPT !.event = e, !.storage = st] OBVIOUS
  <2>2. st \in {"NONE", "INLINE", "EXTERNAL"} BY <1>3 DEF AllowedStorage
  <2>3. m = [event |-> e, storage |-> st, payload |-> NoPayload, disposed |-> FALSE]
    BY <2>1 DEF Blank
  <2>4. m \in Msg BY <2>2, <2>3 DEF Msg
  <2>5. \A x \in Payloads : One(m, x) = 0 BY <2>3, FiniteAssumption DEF One, Leases
  <2>6. \A x \in Payloads : refs'[x] = refs[x] + One(m, x) - One(prod[p], x)
    BY <1>1, <1>2, <1>3, <2>5
  <2>7. prod' = [prod EXCEPT ![p] = m] BY <1>3, <2>1
  <2>8. refs' = [x \in Payloads |-> refs'[x]] BY <1>2, <1>3
  <2> QED BY <1>0, <2>4, <2>6, <2>7, <2>8, EnvelopeKeeps
<1>4. ASSUME NEW x \in Payloads, refs[x] = 0, refs' = [refs EXCEPT ![x] = 1],
             prod' = [prod EXCEPT ![p] = [event |-> e, storage |-> "EXTERNAL",
                                          payload |-> x, disposed |-> FALSE]]
      PROVE  MbInv'
  <2>1. PICK m : m = [event |-> e, storage |-> "EXTERNAL", payload |-> x, disposed |-> FALSE]
    OBVIOUS
  <2>2. m \in Msg BY <2>1 DEF Msg
  <2>3. \A y \in Payloads : One(m, y) = IF y = x THEN 1 ELSE 0 BY <2>1 DEF One, Leases
  <2>4. \A y \in Payloads : refs'[y] = refs[y] + One(m, y) - One(prod[p], y)
    BY <1>1, <1>2, <1>4, <2>3
  <2>5. prod' = [prod EXCEPT ![p] = m] BY <1>4, <2>1
  <2>6. refs' = [y \in Payloads |-> refs'[y]] BY <1>2, <1>4
  <2> QED BY <1>0, <2>2, <2>4, <2>5, <2>6, EnvelopeKeeps
<1> QED BY <1>3, <1>4 DEF Prepare

\* A call site disposes its envelope.
LEMMA DisposeKeeps == ASSUME MbInv, NEW p \in Producers, DisposeProducer(p) PROVE MbInv'
<1>0. UNCHANGED <<kind, storage, head, tail, count, stats, cur, handling, report, pushes>>
  BY DEF DisposeProducer, ringVars
<1>1. PICK m : m = [prod[p] EXCEPT !.storage = "NONE", !.payload = NoPayload, !.disposed = TRUE]
  OBVIOUS
<1>2. prod[p] \in Msg BY MbParts DEF TypeOK
<1>3. m = [event |-> prod[p].event, storage |-> "NONE", payload |-> NoPayload, disposed |-> TRUE]
  BY <1>1, <1>2 DEF Msg
<1>4. prod[p].event \in Events BY <1>2 DEF Msg
<1>5. m \in Msg BY <1>3, <1>4 DEF Msg
<1>6. \A x \in Payloads : One(m, x) = 0 BY <1>3 DEF One, Leases
<1>7. \A x \in Payloads : refs'[x] = refs[x] + One(m, x) - One(prod[p], x)
  <2>1. \A x \in Payloads : refs[x] \in Nat BY MbParts
  <2>2. refs' = Disposed(refs, prod[p]) BY DEF DisposeProducer
  <2> QED BY <1>6, <2>1, <2>2 DEF Disposed, One
<1>8. refs' = [x \in Payloads |-> refs'[x]] BY DEF DisposeProducer, Disposed
<1>9. prod' = [prod EXCEPT ![p] = m]
  <2>1. prod \in [Producers -> Msg] BY MbParts DEF TypeOK
  <2> QED BY <1>1, <2>1 DEF DisposeProducer
<1> QED BY <1>0, <1>5, <1>7, <1>8, <1>9, EnvelopeKeeps

\* The ring of a mailbox after ev_mailbox_init and ev_mailbox_reset.
LEMMA EmptyRing ==
  ASSUME NEW n \in Nat \ {0}, NEW b \in Msg, b.storage # "EXTERNAL"
  PROVE  /\ RingOf(n, 0, 0, 0, [i \in 0 .. (n - 1) |-> b])
         /\ QueueOf(0, 0, n, [i \in 0 .. (n - 1) |-> b]) = <<>>
<1> DEFINE st == [i \in 0 .. (n - 1) |-> b]
<1>1. 0 \in 0 .. n - 1 /\ 0 \in 0 .. n /\ At(n, 0, 0) = 0 BY DEF At
<1>2. \A k \in 0 .. n - 1 : At(n, 0, k) \in 0 .. n - 1 BY DEF At
<1>3. st \in [0 .. n - 1 -> Msg] OBVIOUS
<1>4. \A k \in 0 .. n - 1 : st[At(n, 0, k)].storage # "EXTERNAL" BY <1>2
<1> HIDE DEF st
<1>5. RingOf(n, 0, 0, 0, st) BY <1>1, <1>3, <1>4 DEF RingOf
<1>6. QueueOf(0, 0, n, st) \in Seq(Msg) /\ Len(QueueOf(0, 0, n, st)) = 0
  BY <1>5, QueueType
<1>7. QueueOf(0, 0, n, st) = <<>> BY <1>6, EmptySeq
<1> QED BY <1>5, <1>7 DEF st

\* No counter has counted yet.
LEMMA NoStatsType == NoStats \in Counters
  BY DEF NoStats, Counters

\* ev_mailbox_reset: every slot gives its share back.
LEMMA ResetKeeps ==
  ASSUME MbInv, Reset
  PROVE  /\ MbInv' /\ kind' = kind /\ report' = report
         /\ QueueOf(head', count', Cap, storage') = <<>>
<1>0. /\ storage' = [i \in Indices |-> Blank] /\ head' = 0 /\ tail' = 0 /\ count' = 0
      /\ stats' = NoStats /\ pushes' = 0 /\ UNCHANGED <<kind, prod, cur, handling, report>>
      /\ refs' = [x \in Payloads |-> refs[x] - Held(storage, Indices, x)]
  BY DEF Reset, Held
<1>1. Cap' = Cap /\ Indices' = Indices BY <1>0 DEF Cap, Indices
<1>2. /\ RingOf(Cap, head', tail', count', storage')
      /\ QueueOf(head', count', Cap, storage') = <<>>
  <2>1. PICK n, b : n = Cap /\ b = Blank OBVIOUS
  <2>2. n \in Nat \ {0} /\ b \in Msg /\ b.storage # "EXTERNAL" BY <2>1, MbParts, BlankIs
  <2>3. /\ RingOf(n, 0, 0, 0, [i \in 0 .. (n - 1) |-> b])
        /\ QueueOf(0, 0, n, [i \in 0 .. (n - 1) |-> b]) = <<>>
    BY <2>2, EmptyRing
  <2> QED BY <1>0, <2>1, <2>3 DEF Indices
<1>3. ASSUME NEW x \in Payloads
      PROVE  refs'[x] = Held(prod', Producers, x) + Held(storage', Indices, x) + One(cur', x)
  <2>1. /\ refs[x] = Held(prod, Producers, x) + Held(storage, Indices, x) + One(cur, x)
        /\ Held(prod, Producers, x) \in Nat /\ Held(storage, Indices, x) \in Nat
        /\ One(cur, x) \in Nat
    BY MbParts, SharesAre
  <2>2. Held(storage', Indices, x) = 0
    <3>1. \A j \in Indices : storage'[j].storage # "EXTERNAL" BY <1>0, BlankIs
    <3> QED BY <3>1, HeldNone
  <2>3. refs'[x] = refs[x] - Held(storage, Indices, x) BY <1>0
  <2>4. prod' = prod /\ cur' = cur BY <1>0
  <2> QED BY <2>1, <2>2, <2>3, <2>4
<1>4. RefsConserved' /\ refs' \in [Payloads -> Nat]
  <2>1. refs' = [x \in Payloads |-> refs'[x]] BY <1>0
  <2> QED BY <1>0, <1>3, <2>1, MbParts, SharesAgree
<1>5. TypeOK'
  <2>1. head' \in Indices /\ tail' \in Indices /\ count' \in 0 .. Cap
    BY <1>0, MbParts DEF Indices
  <2>2. storage' \in [Indices -> Msg] BY <1>0, BlankIs
  <2>3. stats' \in Counters BY <1>0, NoStatsType
  <2>4. report'.slot \in 0 .. Cap BY <1>0, MbParts DEF TypeOK
  <2>5. pushes' \in Nat BY <1>0
  <2> QED BY <1>0, <1>1, <1>4, <2>1, <2>2, <2>3, <2>4, <2>5, MbParts DEF TypeOK
<1>6. handling' \/ cur' = Blank BY <1>0 DEF MbInv
<1> QED BY <1>0, <1>1, <1>2, <1>4, <1>5, <1>6 DEF MbInv, Blank

\* A mailbox that was just initialised.
LEMMA InitKeeps ==
  ASSUME Init
  PROVE  MbInv /\ Queue = <<>>
<1>0. /\ kind \in Kinds /\ storage = [i \in Indices |-> Blank] /\ head = 0 /\ tail = 0
      /\ count = 0 /\ stats = NoStats /\ refs = [x \in Payloads |-> 0] /\ cur = Blank
      /\ prod = [p \in Producers |-> Blank] /\ handling = FALSE /\ pushes = 0
      /\ report = [effect |-> "NONE", slot |-> NoSlot, event |-> ZeroEvent]
  BY DEF Init
<1>1. Cap \in Nat \ {0} BY <1>0, RingCapacityAssumption DEF Cap, Capacity
<1>2. RingOf(Cap, head, tail, count, storage) /\ QueueOf(head, count, Cap, storage) = <<>>
  <2>1. PICK n, b : n = Cap /\ b = Blank OBVIOUS
  <2>2. n \in Nat \ {0} /\ b \in Msg /\ b.storage # "EXTERNAL" BY <1>1, <2>1, BlankIs
  <2>3. /\ RingOf(n, 0, 0, 0, [i \in 0 .. (n - 1) |-> b])
        /\ QueueOf(0, 0, n, [i \in 0 .. (n - 1) |-> b]) = <<>>
    BY <2>2, EmptyRing
  <2> QED BY <1>0, <2>1, <2>3 DEF Indices
<1>3. TypeOK
  <2>1. head \in Indices /\ tail \in Indices /\ count \in 0 .. Cap
    BY <1>0, <1>1 DEF Indices
  <2>2. storage \in [Indices -> Msg] /\ prod \in [Producers -> Msg] /\ cur \in Msg
    BY <1>0, BlankIs
  <2>3. stats \in Counters BY <1>0, NoStatsType
  <2>4. report.slot \in 0 .. Cap BY <1>0, <1>1 DEF NoSlot
  <2>5. pushes \in Nat /\ refs \in [Payloads -> Nat] BY <1>0
  <2>6. handling \in BOOLEAN BY <1>0
  <2> QED BY <1>0, <2>1, <2>2, <2>3, <2>4, <2>5, <2>6 DEF TypeOK
<1>4. RefsConserved
  <2>1. ASSUME NEW x \in Payloads
        PROVE  refs[x] = Held(prod, Producers, x) + Held(storage, Indices, x) + One(cur, x)
    <3>1. \A j \in Producers : prod[j].storage # "EXTERNAL" BY <1>0, BlankIs
    <3>2. \A j \in Indices : storage[j].storage # "EXTERNAL" BY <1>0, BlankIs
    <3>3. Held(prod, Producers, x) = 0 /\ Held(storage, Indices, x) = 0
      BY <3>1, <3>2, HeldNone
    <3>4. One(cur, x) = 0 BY <1>0, BlankIs DEF One, Leases
    <3> QED BY <1>0, <3>3, <3>4
  <2> QED BY <2>1 DEF RefsConserved, Held, One
<1> QED BY <1>0, <1>2, <1>3, <1>4 DEF MbInv, Queue

-----------------------------------------------------------------------------
(* The theorems. *)

\* The invariant of a mailbox, along every sequence of pushes, pops, resets and
\* disposals.
THEOREM MbInvHolds == Spec => []MbInv
<1>1. Init => MbInv BY InitKeeps
<1>2. MbInv /\ [Next]_vars => MbInv'
  <2> SUFFICES ASSUME MbInv, [Next]_vars PROVE MbInv' OBVIOUS
  <2>1. ASSUME NEW p \in Producers, NEW e \in Events, Prepare(p, e) PROVE MbInv'
    BY <2>1, PrepareKeeps
  <2>2. ASSUME NEW p \in Producers, Push(p) PROVE MbInv' BY <2>2, PushKeeps
  <2>3. ASSUME NEW p \in Producers, DisposeProducer(p) PROVE MbInv'
    BY <2>3, DisposeKeeps
  <2>4. CASE Pop BY <2>4, PopKeeps
  <2>5. CASE Consumed BY <2>5, ConsumedKeeps
  <2>6. CASE Reset BY <2>6, ResetKeeps
  <2>7. CASE UNCHANGED vars
    <3>1. /\ UNCHANGED <<kind, storage, head, tail, count, stats, report, pushes>>
          /\ prod' = prod /\ cur' = cur /\ handling' = handling /\ refs' = refs
      BY <2>7 DEF vars
    <3>2. RefsConserved' BY <3>1, MbParts DEF RefsConserved, Indices, Cap
    <3>3. prod' \in [Producers -> Msg] /\ cur' \in Msg /\ handling' \in BOOLEAN
          /\ refs' \in [Payloads -> Nat]
      BY <3>1, MbParts DEF TypeOK
    <3>4. handling' \/ cur' = Blank BY <3>1 DEF MbInv
    <3> QED BY <3>1, <3>2, <3>3, <3>4, RingKept
  <2> QED BY <2>1, <2>2, <2>3, <2>4, <2>5, <2>6, <2>7 DEF Next
<1> QED BY <1>1, <1>2, PTL DEF Spec

\* The mailbox, its counters and the reference counts keep their types: no
\* index leaves the storage and no lease is released more often than retained.
THEOREM MailboxTypeCorrect == Spec => []TypeOK
<1>1. MbInv => TypeOK BY DEF MbInv
<1> QED BY <1>1, MbInvHolds, PTL

\* A lease has exactly as many shares as there are envelopes carrying it, for
\* every kind of mailbox, capacity, event catalog and number of producers.
THEOREM SharesConserved == Spec => []RefsConserved
<1>1. MbInv => RefsConserved BY DEF MbInv
<1> QED BY <1>1, MbInvHolds, PTL

-----------------------------------------------------------------------------
(* The ring implements the bounded sequence. *)

Shown == [i \in 1..count |-> storage[PendingIndexAt(i - 1)]]

\* The sequence the refinement shows is the one the ring stands for.
LEMMA ShownIs == MbInv => Shown = Queue
<1> SUFFICES ASSUME MbInv PROVE Shown = Queue OBVIOUS
<1>1. ASSUME NEW i \in 1 .. count
      PROVE  storage[PendingIndexAt(i - 1)] = storage[At(Cap, head, i - 1)]
  <2>1. i - 1 \in 0 .. count - 1 BY MbParts
  <2> QED BY <2>1, PendingAt
<1> QED BY <1>1 DEF Shown, Queue, QueueOf

\* And so it is after a step.
LEMMA ShownLater == MbInv' => Shown' = Queue'
<1>1. (MbInv => Shown = Queue)' BY ShownIs, PTL
<1> QED BY <1>1

\* The contract's policy is the one the ring was shown to follow.
LEMMA SamePolicy ==
  ASSUME NEW k, NEW q, NEW m, NEW s
  PROVE  Contract!EnqueueQos(k, q, m, s) = EnqueueQos(k, q, m, s)
<1>1. Contract!Enqueue(k, q, m) = Enqueue(k, q, m)
  BY DEF Contract!Enqueue, Enqueue, Contract!Capacity, Capacity,
         Contract!Retainable, Retainable, 
         Contract!Outcome, Outcome
<1> QED BY <1>1 DEF Contract!EnqueueQos, EnqueueQos, Contract!Capacity, Capacity,
         Contract!Retainable, Retainable, Contract!Outcome, Outcome, Contract!Valid, Valid,
         Contract!Pending, Pending

\* Every step of the mailbox is a push, a pop or a reset of the sequence, or
\* leaves it alone.
LEMMA StepMaps ==
  ASSUME MbInv, MbInv', [Next]_vars
  PROVE  [Contract!Next]_<<kind, Shown, report.effect>>
<1>0. Shown = Queue /\ Shown' = Queue' BY ShownIs, ShownLater
<1>1. kind' = kind => Queue' = QueueOf(head', count', Cap, storage') BY DEF Queue, Cap
<1>2. ASSUME NEW p \in Producers, Push(p) PROVE Contract!Next
  <2>1. PICK m : m = prod[p] OBVIOUS
  <2>2. PICK o : o = EnqueueQos(kind, Queue, m, EventQos[m.event]) OBVIOUS
  <2>3. Moved(o) /\ m \in Msg /\ kind' = kind BY <1>2, <2>1, <2>2, PushMoved
  <2>4. Shown' = o.queue /\ report'.effect = o.effect BY <1>0, <1>1, <2>3 DEF Moved
  <2>5. o = Contract!EnqueueQos(kind, Shown, m, EventQos[m.event])
    BY <1>0, <2>2, SamePolicy
  <2>6. Contract!Push(m) BY <2>3, <2>4, <2>5 DEF Contract!Push, Shown
  <2>7. m \in Contract!Msg BY <2>3 DEF Msg, Contract!Msg, Contract!NoPayload, NoPayload
  <2> QED BY <2>6, <2>7 DEF Contract!Next
<1>3. CASE Pop
  <2>1. /\ kind' = kind /\ report' = report /\ Queue # <<>>
        /\ QueueOf(head', count', Cap, storage') = Tail(Queue)
    BY <1>3, PopKeeps
  <2>2. Shown # <<>> /\ Shown' = Tail(Shown) BY <1>0, <1>1, <2>1
  <2>3. Contract!Pop BY <2>1, <2>2 DEF Contract!Pop, Shown
  <2> QED BY <2>3 DEF Contract!Next
<1>4. CASE Reset
  <2>1. kind' = kind /\ report' = report /\ QueueOf(head', count', Cap, storage') = <<>>
    BY <1>4, ResetKeeps
  <2>2. Shown' = <<>> BY <1>0, <1>1, <2>1
  <2>3. Contract!Reset BY <2>1, <2>2 DEF Contract!Reset, Shown
  <2> QED BY <2>3 DEF Contract!Next
<1>5. ASSUME UNCHANGED <<kind, storage, head, tail, count, report>>
      PROVE  UNCHANGED <<kind, Shown, report.effect>>
  BY <1>5 DEF Shown, PendingIndexAt, Cap
<1>6. CASE Consumed BY <1>5, <1>6 DEF Consumed, ringVars
<1>7. ASSUME NEW p \in Producers, NEW e \in Events, Prepare(p, e)
      PROVE  UNCHANGED <<kind, Shown, report.effect>>
  BY <1>5, <1>7 DEF Prepare, ringVars
<1>8. ASSUME NEW p \in Producers, DisposeProducer(p)
      PROVE  UNCHANGED <<kind, Shown, report.effect>>
  BY <1>5, <1>8 DEF DisposeProducer, ringVars
<1>9. CASE UNCHANGED vars BY <1>5, <1>9 DEF vars
<1> QED BY <1>2, <1>3, <1>4, <1>6, <1>7, <1>8, <1>9 DEF Next

\* The ring of ev_mailbox.c implements the bounded sequence of MailboxQueue:
\* whatever its kind and capacity, it holds the messages the policy keeps, in
\* order, and every push reports what the policy says.
THEOREM RingImplementsQueue == Spec => ImplementsQueue
<1>1. Init => Contract!Init
  <2> SUFFICES ASSUME Init PROVE Contract!Init OBVIOUS
  <2>1. MbInv /\ Queue = <<>> BY InitKeeps
  <2>2. Shown = <<>> BY <2>1, ShownIs
  <2>3. kind \in Contract!Kinds BY DEF Init, Kinds, Contract!Kinds
  <2>4. report.effect = "NONE" BY DEF Init
  <2> QED BY <2>2, <2>3, <2>4 DEF Contract!Init, Shown
<1>2. MbInv /\ MbInv' /\ [Next]_vars => [Contract!Next]_<<kind, Shown, report.effect>>
  BY StepMaps
<1>3. Spec => Contract!Init /\ [][Contract!Next]_<<kind, Shown, report.effect>>
  BY <1>1, <1>2, MbInvHolds, PTL DEF Spec
<1> QED BY <1>3, PTL DEF ImplementsQueue, Contract!Spec, Shown

-----------------------------------------------------------------------------
(* Merging pushes. *)

\* No two pending messages of an event that merges.
Merged(q) == \A e \in Events : EventQos[e] \in Merging => \A i, j \in Pending(q, e) : i = j

\* A message that merges with nothing pending is added.
LEMMA MergedAppend ==
  ASSUME NEW q \in Seq(Msg), Merged(q), NEW m \in Msg,
         EventQos[m.event] \in Merging => Pending(q, m.event) = {}
  PROVE  Merged(Append(q, m))
<1>1. PICK r : r = Append(q, m) OBVIOUS
<1>2. /\ DOMAIN r = 1 .. Len(q) + 1 /\ r[Len(q) + 1] = m /\ \A i \in 1 .. Len(q) : r[i] = q[i]
      /\ DOMAIN q = 1 .. Len(q) /\ Len(q) \in Nat
  BY <1>1, AppendProperties
<1>3. ASSUME NEW e \in Events, EventQos[e] \in Merging,
             NEW i \in Pending(r, e), NEW j \in Pending(r, e)
      PROVE  i = j
  <2>1. /\ i \in 1 .. Len(q) + 1 /\ r[i].event = e
        /\ j \in 1 .. Len(q) + 1 /\ r[j].event = e
    BY <1>2, <1>3 DEF Pending
  <2>2. CASE e = m.event
    <3>1. \A k \in 1 .. Len(q) : q[k].event # e BY <1>2, <1>3, <2>2 DEF Pending
    <3>2. i = Len(q) + 1 /\ j = Len(q) + 1 BY <1>2, <2>1, <3>1
    <3> QED BY <3>2
  <2>3. CASE e # m.event
    <3>1. i # Len(q) + 1 /\ j # Len(q) + 1 BY <1>2, <2>1, <2>3
    <3>2. i \in 1 .. Len(q) /\ j \in 1 .. Len(q) BY <1>2, <2>1, <3>1
    <3>3. i \in Pending(q, e) /\ j \in Pending(q, e) BY <1>2, <2>1, <3>2 DEF Pending
    <3> QED BY <1>3, <3>3 DEF Merged
  <2> QED BY <2>2, <2>3
<1>4. Merged(r) BY <1>3 DEF Merged
<1> QED BY <1>1, <1>4

\* The oldest message leaves.
LEMMA MergedTail ==
  ASSUME NEW q \in Seq(Msg), q # <<>>, Merged(q)
  PROVE  Merged(Tail(q)) /\ \A e : Pending(q, e) = {} => Pending(Tail(q), e) = {}
<1>1. PICK r : r = Tail(q) OBVIOUS
<1>2. /\ DOMAIN r = 1 .. Len(q) - 1 /\ \A i \in 1 .. Len(q) - 1 : r[i] = q[i + 1]
      /\ DOMAIN q = 1 .. Len(q) /\ Len(q) \in Nat
  <2>1. /\ r \in Seq(Msg) /\ Len(r) = Len(q) - 1 /\ \A i \in 1 .. Len(r) : r[i] = q[i + 1]
    BY <1>1, HeadTailProperties
  <2>2. DOMAIN r = 1 .. Len(r) /\ DOMAIN q = 1 .. Len(q) /\ Len(q) \in Nat
    BY <2>1, LenProperties
  <2> QED BY <2>1, <2>2
<1>3. ASSUME NEW e, NEW i \in Pending(r, e) PROVE i + 1 \in Pending(q, e) /\ i \in Nat
  BY <1>2 DEF Pending
<1>4. Merged(r)
  <2>1. ASSUME NEW e \in Events, EventQos[e] \in Merging,
               NEW i \in Pending(r, e), NEW j \in Pending(r, e)
        PROVE  i = j
    <3>1. i + 1 = j + 1 BY <1>3, <2>1 DEF Merged
    <3>2. i \in Nat /\ j \in Nat BY <1>3
    <3> QED BY <3>1, <3>2
  <2> QED BY <2>1 DEF Merged
<1>5. \A e : Pending(q, e) = {} => Pending(r, e) = {} BY <1>3
<1> QED BY <1>1, <1>4, <1>5

\* A message is replaced by a later one of the same event.
LEMMA MergedReplace ==
  ASSUME NEW q \in Seq(Msg), Merged(q), NEW m \in Msg, NEW k \in Pending(q, m.event)
  PROVE  Merged([q EXCEPT ![k] = m])
<1>1. PICK r : r = [q EXCEPT ![k] = m] OBVIOUS
<1>2. k \in DOMAIN q /\ q[k].event = m.event BY DEF Pending
<1>3. DOMAIN r = DOMAIN q /\ \A i \in DOMAIN q : r[i].event = q[i].event BY <1>1, <1>2
<1>4. \A e : Pending(r, e) = Pending(q, e) BY <1>3 DEF Pending
<1>5. Merged(r) BY <1>4 DEF Merged
<1> QED BY <1>1, <1>5

\* A sequence of one message, or none.
LEMMA MergedShort ==
  ASSUME NEW m
  PROVE  Merged(<<m>>) /\ Merged(<<>>)
<1>1. \A e : \A i, j \in Pending(<<m>>, e) : i = j
  <2>1. DOMAIN <<m>> = {1} OBVIOUS
  <2> QED BY <2>1 DEF Pending
<1>2. \A e : Pending(<<>>, e) = {}
  <2>1. DOMAIN <<>> = {} OBVIOUS
  <2> QED BY <2>1 DEF Pending
<1> QED BY <1>1, <1>2 DEF Merged

\* A plain push of a message that merges with nothing pending.
LEMMA MergedEnqueue ==
  ASSUME NEW k \in Kinds, NEW q \in Seq(Msg), Merged(q), NEW m \in Msg,
         EventQos[m.event] \in Merging => Pending(q, m.event) = {}
  PROVE  Merged(Enqueue(k, q, m).queue)
<1>1. \A a, b : Outcome(a, b).queue = a BY DEF Outcome
<1>2. Merged(q) /\ Merged(<<m>>) /\ Merged(Append(q, m)) BY MergedAppend, MergedShort
<1>3. CASE k = "FIFO" BY <1>1, <1>2, <1>3, EnqueueIs
<1>4. CASE k = "MAILBOX_1" BY <1>1, <1>2, <1>4, EnqueueIs
<1>5. CASE k = "COALESCED_FLAG" BY <1>1, <1>2, <1>5, EnqueueIs
<1>6. CASE k = "LOSSY_RING"
  <2>1. Len(q) >= Capacity("LOSSY_RING") => Merged(Append(Tail(q), m))
    <3> SUFFICES ASSUME Len(q) >= Capacity("LOSSY_RING") PROVE Merged(Append(Tail(q), m))
      OBVIOUS
    <3>1. Capacity("LOSSY_RING") \in Nat \ {0} BY RingCapacityAssumption DEF Capacity
    <3>2. q # <<>>
      <4>1. Len(q) # 0 BY <3>1
      <4>2. Len(<<>>) = 0 BY EmptySeq
      <4> QED BY <4>1, <4>2
    <3>3. PICK r : r = Tail(q) OBVIOUS
    <3>4. r \in Seq(Msg) BY <3>2, <3>3, HeadTailProperties
    <3>5. Merged(r) /\ (EventQos[m.event] \in Merging => Pending(r, m.event) = {})
      BY <3>2, <3>3, MergedTail
    <3>6. Merged(Append(r, m)) BY <3>4, <3>5, MergedAppend
    <3> QED BY <3>3, <3>6
  <2> QED BY <1>1, <1>2, <1>6, <2>1, EnqueueIs
<1> QED BY <1>3, <1>4, <1>5, <1>6 DEF Kinds

\* A push leaves at most one message of an event that merges.
LEMMA MergedPush ==
  ASSUME NEW k \in Kinds, NEW q \in Seq(Msg), Merged(q), NEW m \in Msg
  PROVE  Merged(EnqueueQos(k, q, m, EventQos[m.event]).queue)
<1>1. PICK s : s = EventQos[m.event] OBVIOUS
<1>2. \A a, b : Outcome(a, b).queue = a BY DEF Outcome
<1>3. CASE s \in Merging => Pending(q, m.event) = {}
  <2>1. Merged(Enqueue(k, q, m).queue) BY <1>1, <1>3, MergedEnqueue
  <2>2. \/ EnqueueQos(k, q, m, s) = Outcome(q, "REJECTED")
        \/ EnqueueQos(k, q, m, s) = Outcome(q, "DROPPED")
        \/ EnqueueQos(k, q, m, s) = Enqueue(k, q, m)
    BY <1>3 DEF EnqueueQos, Merging
  <2> QED BY <1>1, <1>2, <2>1, <2>2
<1>4. CASE s \in Merging /\ Pending(q, m.event) # {}
  <2>0. PICK last : last = CHOOSE i \in Pending(q, m.event) :
                             \A j \in Pending(q, m.event) : j <= i
    OBVIOUS
  <2>1. last \in Pending(q, m.event)
    <3>1. PICK i \in Pending(q, m.event) : TRUE BY <1>4
    <3>2. s = EventQos[m.event] /\ m.event \in Events BY <1>1 DEF Msg
    <3>3. \A j \in Pending(q, m.event) : j = i BY <1>4, <3>2 DEF Merged
    <3>4. i <= i
      <4>1. i \in Nat BY DEF Pending
      <4> QED BY <4>1
    <3>5. \E z \in Pending(q, m.event) : \A j \in Pending(q, m.event) : j <= z
      BY <3>3, <3>4
    <3> QED BY <2>0, <3>5
  <2>2. \/ EnqueueQos(k, q, m, s) = Outcome(q, "REJECTED")
        \/ EnqueueQos(k, q, m, s) = Outcome(q, "COALESCED")
        \/ EnqueueQos(k, q, m, s) = Outcome([q EXCEPT ![last] = m], "REPLACED")
    BY <1>4, <2>0 DEF EnqueueQos, Merging
  <2>3. Merged([q EXCEPT ![last] = m]) BY <2>1, MergedReplace
  <2> QED BY <1>1, <1>2, <2>2, <2>3
<1> QED BY <1>3, <1>4

\* One pending message per merging event, in every step.
LEMMA MergedStep ==
  ASSUME MbInv, Merged(Queue), [Next]_vars
  PROVE  Merged(Queue)'
<1>1. kind' = kind => Queue' = QueueOf(head', count', Cap, storage') BY DEF Queue, Cap
<1>2. ASSUME NEW p \in Producers, Push(p) PROVE Merged(Queue')
  <2>1. PICK m : m = prod[p] OBVIOUS
  <2>2. PICK o : o = EnqueueQos(kind, Queue, m, EventQos[m.event]) OBVIOUS
  <2>3. Moved(o) /\ m \in Msg /\ kind' = kind BY <1>2, <2>1, <2>2, PushMoved
  <2>4. Queue' = o.queue BY <1>1, <2>3 DEF Moved
  <2>5. PICK k, q : k = kind /\ q = Queue OBVIOUS
  <2>6. k \in Kinds /\ q \in Seq(Msg) /\ Merged(q) BY <2>5, MbParts
  <2>7. Merged(EnqueueQos(k, q, m, EventQos[m.event]).queue) BY <2>3, <2>6, MergedPush
  <2> QED BY <2>2, <2>4, <2>5, <2>7
<1>3. CASE Pop
  <2>1. Queue # <<>> /\ Queue' = Tail(Queue) BY <1>1, <1>3, PopKeeps
  <2>2. PICK q : q = Queue OBVIOUS
  <2>3. q \in Seq(Msg) /\ Merged(q) /\ q # <<>> BY <2>1, <2>2, MbParts
  <2>4. Merged(Tail(q)) BY <2>3, MergedTail
  <2> QED BY <2>1, <2>2, <2>4
<1>4. CASE Reset
  <2>1. Queue' = <<>> BY <1>1, <1>4, ResetKeeps
  <2>2. Merged(<<>>) BY MergedShort
  <2> QED BY <2>1, <2>2
<1>5. ASSUME UNCHANGED <<kind, storage, head, tail, count>> PROVE Queue' = Queue
  BY <1>5 DEF Queue, Cap
<1>6. CASE Consumed BY <1>5, <1>6 DEF Consumed, ringVars
<1>7. ASSUME NEW p \in Producers, NEW e \in Events, Prepare(p, e) PROVE Queue' = Queue
  BY <1>5, <1>7 DEF Prepare, ringVars
<1>8. ASSUME NEW p \in Producers, DisposeProducer(p) PROVE Queue' = Queue
  BY <1>5, <1>8 DEF DisposeProducer, ringVars
<1>9. CASE UNCHANGED vars BY <1>5, <1>9 DEF vars
<1>10. Merged(Queue')
  BY <1>2, <1>3, <1>4, <1>6, <1>7, <1>8, <1>9 DEF Next
<1> QED BY <1>10 DEF Merged

\* After the step slot s is pending and shows event e.
ShowsAfter(s, e) ==
  \E k \in 0 .. count' - 1 : s = At(Cap, head', k) /\ storage'[s].event = e

\* The slot ev_mailbox_push reports.
LEMMA PlainSlot ==
  ASSUME MbInv, NEW m \in Msg, PlainPush(m), UNCHANGED <<kind, prod, cur>>,
         report'.effect \in {"POSTED", "REPLACED", "COALESCED"}
  PROVE  ShowsAfter(report'.slot, m.event) /\ report'.event = m.event
<1>0. ~Refused(m) BY DEF Refused, Reported
<1>1. /\ count \in 0 .. Cap /\ Cap \in Nat \ {0} /\ head \in 0 .. Cap - 1
      /\ tail \in 0 .. Cap - 1 /\ tail = At(Cap, head, count)
      /\ storage \in [0 .. Cap - 1 -> Msg]
  BY MbParts
<1>2. /\ Advance(tail) = At(Cap, tail, 1) /\ Advance(head) = At(Cap, head, 1)
      /\ PostedSlot(At(Cap, tail, 1)) = tail /\ (Cap = 1 => PostedSlot(tail) = tail)
  BY MbSteps
<1>3. ASSUME UNCHANGED head, count' = count + 1, count < Cap, report'.slot = tail,
             storage' = [storage EXCEPT ![tail] = m]
      PROVE  ShowsAfter(report'.slot, m.event)
  <2>1. count \in 0 .. count' - 1 BY <1>1, <1>3
  <2>2. storage'[tail].event = m.event BY <1>1, <1>3
  <2> QED BY <1>1, <1>3, <2>1, <2>2 DEF ShowsAfter
<1>4. ASSUME Cap = 1, UNCHANGED <<head, tail>>, count' = 1, report'.slot = PostedSlot(tail),
             storage'[0].event = m.event
      PROVE  ShowsAfter(report'.slot, m.event)
  <2>1. head = 0 /\ tail = 0 /\ At(Cap, head, 0) = 0 BY <1>4, OneSlot
  <2>2. report'.slot = 0 BY <1>2, <1>4, <2>1
  <2>3. 0 \in 0 .. count' - 1 BY <1>4
  <2>4. report'.slot = At(Cap, head', 0) /\ storage'[report'.slot].event = m.event
    BY <1>4, <2>1, <2>2
  <2> QED BY <2>3, <2>4 DEF ShowsAfter
<1>5. CASE PushFifo(m)
  <2>1. ~Full BY <1>0, <1>5 DEF PushFifo
  <2>2. /\ UNCHANGED head /\ count' = count + 1 /\ storage' = [storage EXCEPT ![tail] = m]
        /\ tail' = Advance(tail) /\ report' = [effect |-> "POSTED", slot |-> PostedSlot(tail'),
                                               event |-> m.event]
    BY <1>0, <1>5 DEF PushFifo, Reported
  <2>3. count < Cap BY <1>1, <2>1 DEF Full
  <2> QED BY <1>2, <1>3, <2>2, <2>3
<1>6. CASE PushMailbox1(m)
  <2>1. Cap = 1 BY <1>6, MbParts, CapIs DEF PushMailbox1
  <2>2. /\ UNCHANGED <<head, tail>> /\ count' = 1 /\ storage' = [storage EXCEPT ![0] = m]
        /\ report' = [effect |-> "POSTED", slot |-> PostedSlot(tail), event |-> m.event]
    BY <1>0, <1>6 DEF PushMailbox1, Reported
  <2>3. storage'[0].event = m.event BY <1>1, <2>1, <2>2
  <2> QED BY <1>4, <2>1, <2>2, <2>3
<1>7. CASE PushLossy(m)
  <2>1. /\ storage' = [storage EXCEPT ![tail] = m] /\ tail' = Advance(tail)
        /\ report' = [effect |-> "POSTED", slot |-> PostedSlot(tail'), event |-> m.event]
        /\ count' = (IF Full THEN count - 1 ELSE count) + 1
        /\ head' = IF Full THEN Advance(head) ELSE head
    BY <1>0, <1>7 DEF PushLossy, Reported
  <2>2. report'.slot = tail BY <1>2, <2>1
  <2>3. CASE ~Full
    <3>1. count < Cap BY <1>1, <2>3 DEF Full
    <3> QED BY <1>3, <2>1, <2>2, <2>3, <3>1
  <2>4. CASE Full
    <3>1. count = Cap BY <1>1, <2>4 DEF Full
    <3>2. count' = Cap /\ head' = At(Cap, head, 1) BY <1>1, <1>2, <2>1, <2>4, <3>1
    <3>3. tail = head BY <1>1, <3>1 DEF At
    <3>4. At(Cap, head', Cap - 1) = head
      <4>1. PICK n, h : n = Cap /\ h = head OBVIOUS
      <4>2. n \in Nat \ {0} /\ h \in 0 .. n - 1 /\ n - 1 \in 0 .. n - 1 /\ n - 1 + 1 = n
        BY <1>1, <4>1
      <4>3. At(n, At(n, h, 1), n - 1) = At(n, h, n - 1 + 1) BY <4>2, AtNext
      <4>4. At(n, h, n) = h BY <4>2, AtNext
      <4> QED BY <3>2, <4>1, <4>2, <4>3, <4>4
    <3>5. Cap - 1 \in 0 .. count' - 1 BY <1>1, <3>2
    <3>6. storage'[tail].event = m.event BY <1>1, <2>1
    <3> QED BY <2>1, <2>2, <3>3, <3>4, <3>5, <3>6 DEF ShowsAfter
  <2> QED BY <2>3, <2>4
<1>8. CASE PushFlag(m)
  <2>1. Cap = 1 BY <1>8, MbParts, CapIs DEF PushFlag
  <2>2. /\ UNCHANGED <<head, tail>>
        /\ report' = [effect |-> "POSTED", slot |-> PostedSlot(tail), event |-> m.event]
        /\ ~(count # 0 /\ storage[0].event # m.event)
    BY <1>0, <1>8 DEF PushFlag, Reported
  <2>3. count \in {0, 1} BY <2>1, OneSlot
  <2>4. CASE count = 0
    <3>1. storage' = [storage EXCEPT ![0] = m] /\ count' = 1
      BY <1>0, <1>8, <2>4 DEF PushFlag
    <3>2. storage'[0].event = m.event BY <1>1, <2>1, <3>1
    <3> QED BY <1>4, <2>1, <2>2, <3>1, <3>2
  <2>5. CASE count = 1
    <3>1. UNCHANGED <<storage, count>> BY <1>0, <1>8, <2>5 DEF PushFlag
    <3>2. storage'[0].event = m.event BY <2>2, <2>5, <3>1
    <3> QED BY <1>4, <2>1, <2>2, <2>5, <3>1, <3>2
  <2> QED BY <2>3, <2>4, <2>5
<1> QED BY <1>5, <1>6, <1>7, <1>8 DEF PlainPush

\* The slot ev_mailbox_push_qos reports is pending and shows the event.
LEMMA PushSlot ==
  ASSUME MbInv, NEW p \in Producers, Push(p),
         report'.effect \in {"POSTED", "REPLACED", "COALESCED"}
  PROVE  ShowsAfter(report'.slot, report'.event) /\ report'.event \in Events
<1>1. PICK m : m = prod[p] OBVIOUS
<1>2. m \in Msg /\ UNCHANGED <<kind, prod, cur>> BY <1>1, PushMoved
<1>3. m.event \in Events BY <1>2 DEF Msg
<1>4. ~Refused(m) /\ ~PolicyDrop(m) BY DEF Refused, PolicyDrop, Reported
<1>5. CASE PlainPush(m)
  BY <1>2, <1>3, <1>5, PlainSlot
<1>6. ASSUME NEW k \in 0 .. count - 1, storage[At(Cap, head, k)].event = m.event,
             UNCHANGED <<head, count>>, report'.slot = At(Cap, head, k),
             storage' = storage \/ storage' = [storage EXCEPT ![At(Cap, head, k)] = m]
      PROVE  ShowsAfter(report'.slot, m.event)
  <2>1. At(Cap, head, k) \in 0 .. Cap - 1 /\ storage \in [0 .. Cap - 1 -> Msg]
    BY PendingAt, MbParts
  <2>2. PICK s : s = At(Cap, head, k) OBVIOUS
  <2>3. storage'[s].event = m.event BY <1>6, <2>1, <2>2
  <2>4. k \in 0 .. count' - 1 /\ report'.slot = At(Cap, head', k) /\ report'.slot = s
    BY <1>6, <2>2
  <2> QED BY <2>3, <2>4 DEF ShowsAfter
<1>7. ASSUME NEW latest \in BOOLEAN, FindEventSlot(m.event, latest) # NoSlot
      PROVE  \E k \in 0 .. count - 1 : /\ FindEventSlot(m.event, latest) = At(Cap, head, k)
                                       /\ storage[At(Cap, head, k)].event = m.event
  <2>1. Pending(Queue, m.event) # {} BY <1>7, FindSlot DEF NoSlot
  <2>2. PICK k \in 0 .. count - 1 : /\ k + 1 \in Pending(Queue, m.event)
                                    /\ FindEventSlot(m.event, latest) = At(Cap, head, k)
    BY <2>1, FindSlot
  <2>3. Queue[k + 1].event = m.event BY <2>2 DEF Pending
  <2>4. storage[At(Cap, head, k)].event = m.event BY <2>3, PendingAt
  <2> QED BY <2>2, <2>4
<1>8. CASE PushCoalesced(m) /\ ~PlainPush(m)
  <2>1. FindEventSlot(m.event, FALSE) # NoSlot BY <1>4, <1>8 DEF PushCoalesced
  <2>2. PICK k \in 0 .. count - 1 : /\ FindEventSlot(m.event, FALSE) = At(Cap, head, k)
                                    /\ storage[At(Cap, head, k)].event = m.event
    BY <1>7, <2>1
  <2>3. /\ UNCHANGED <<storage, head, tail, count>>
        /\ report' = [effect |-> "COALESCED", slot |-> At(Cap, head, k), event |-> m.event]
    BY <1>8, <2>1, <2>2 DEF PushCoalesced, Reported, ringVars
  <2> QED BY <1>3, <1>6, <2>2, <2>3
<1>9. CASE PushLatestOnly(m) /\ ~PlainPush(m)
  <2>1. FindEventSlot(m.event, TRUE) # NoSlot BY <1>4, <1>9 DEF PushLatestOnly
  <2>2. PICK k \in 0 .. count - 1 : /\ FindEventSlot(m.event, TRUE) = At(Cap, head, k)
                                    /\ storage[At(Cap, head, k)].event = m.event
    BY <1>7, <2>1
  <2>3. ReplaceSlot(m, At(Cap, head, k)) BY <1>9, <2>1, <2>2 DEF PushLatestOnly
  <2>4. Retainable(m) BY <2>3 DEF ReplaceSlot, Reported
  <2>5. /\ UNCHANGED <<head, tail, count>>
        /\ storage' = [storage EXCEPT ![At(Cap, head, k)] = m]
        /\ report' = [effect |-> "REPLACED", slot |-> At(Cap, head, k), event |-> m.event]
    BY <2>3, <2>4 DEF ReplaceSlot, Reported
  <2> QED BY <1>3, <1>6, <2>2, <2>5
<1>10. PushCoalesced(m) \/ PushLatestOnly(m) \/ PlainPush(m) BY <1>1, <1>4 DEF Push
<1> QED BY <1>5, <1>8, <1>9, <1>10

\* Slot s is pending and shows event e.
ShowsNow(s, e) ==
  \E k \in 0 .. count - 1 : s = At(Cap, head, k) /\ storage[s].event = e

Places(e) == {i \in PendingIndices : storage[i].event = e}

\* A slot that shows a merging event is the only one.
LEMMA OnlyPlace ==
  MbInv /\ Merged(Queue) =>
    \A e \in Events : \A s : ShowsNow(s, e) =>
      s \in Places(e) /\ (EventQos[e] \in Merging => Places(e) = {s})
<1> SUFFICES ASSUME MbInv, Merged(Queue), NEW e \in Events, NEW s, ShowsNow(s, e)
             PROVE  s \in Places(e) /\ (EventQos[e] \in Merging => Places(e) = {s})
  OBVIOUS
<1>0. count \in Nat /\ DOMAIN Queue = 1 .. count BY MbParts
<1>1. PICK k \in 0 .. count - 1 : s = At(Cap, head, k) /\ storage[s].event = e
  BY DEF ShowsNow
<1>2. s \in Places(e) BY <1>1, PendingAt DEF Places, PendingIndices, Offsets
<1>3. ASSUME EventQos[e] \in Merging, NEW i \in Places(e) PROVE i = s
  <2>1. PICK j \in 0 .. count - 1 : i = PendingIndexAt(j) /\ storage[i].event = e
    BY DEF Places, PendingIndices, Offsets
  <2>2. i = At(Cap, head, j) BY <2>1, PendingAt
  <2>3. Queue[j + 1].event = e /\ Queue[k + 1].event = e BY <1>1, <2>1, <2>2, PendingAt
  <2>4. j + 1 \in Pending(Queue, e) /\ k + 1 \in Pending(Queue, e)
    BY <1>0, <2>3 DEF Pending
  <2>5. j + 1 = k + 1 BY <1>3, <2>4 DEF Merged
  <2>6. j = k BY <1>0, <2>5
  <2> QED BY <1>1, <2>2, <2>6
<1> QED BY <1>2, <1>3

\* The same after a step.
LEMMA OnlyPlaceLater ==
  MbInv' /\ Merged(Queue)' =>
    \A e \in Events : \A s : ShowsNow(s, e)' =>
      s \in Places(e)' /\ (EventQos[e] \in Merging => Places(e)' = {s})
<1>1. (MbInv /\ Merged(Queue) =>
        \A e \in Events : \A s : ShowsNow(s, e) =>
          s \in Places(e) /\ (EventQos[e] \in Merging => Places(e) = {s}))'
  BY OnlyPlace, PTL
<1> QED BY <1>1

\* The slot a push reports is pending and shows the event, and for a route that
\* merges it is the only one: the scan for a message to merge with misses none,
\* whatever the head, the capacity and the kind of the mailbox.
THEOREM PushIsTold == Spec => PushTellsTruth
<1> DEFINE Told == pushes' > pushes /\ report'.effect \in {"POSTED", "REPLACED", "COALESCED"}
                     => LET places == {i \in PendingIndices' : storage'[i].event = report'.event}
                        IN  /\ report'.slot \in places
                            /\ EventQos[report'.event] \in {"COALESCED", "LATEST_ONLY"}
                                 => places = {report'.slot}
           Both == MbInv /\ Merged(Queue)
<1>1. Spec => []Both
  <2>1. Init => Both BY InitKeeps, MergedShort
  <2>2. MbInv /\ Both /\ [Next]_vars => Merged(Queue)' BY MergedStep
  <2> QED BY <2>1, <2>2, MbInvHolds, PTL DEF Spec
<1>2. ASSUME Both, Both', [Next]_vars, pushes' > pushes,
             report'.effect \in {"POSTED", "REPLACED", "COALESCED"}
      PROVE  LET places == {i \in PendingIndices' : storage'[i].event = report'.event}
             IN  /\ report'.slot \in places
                 /\ EventQos[report'.event] \in {"COALESCED", "LATEST_ONLY"}
                      => places = {report'.slot}
  <2>1. PICK p \in Producers : Push(p)
    <3>1. pushes \in Nat BY <1>2, MbParts DEF TypeOK
    <3>2. pushes' # pushes /\ pushes' # 0 BY <1>2, <3>1
    <3> QED BY <1>2, <3>2 DEF Next, Prepare, DisposeProducer, Pop, Consumed, Reset, vars
  <2>2. PICK s, e : s = report'.slot /\ e = report'.event OBVIOUS
  <2>3. ShowsAfter(s, e) /\ e \in Events BY <1>2, <2>1, <2>2, PushSlot
  <2>4. kind' = kind BY <1>2, <2>1, PushMoved
  <2>5. ShowsNow(s, e)' BY <2>3, <2>4 DEF ShowsAfter, ShowsNow, Cap
  <2>6. s \in Places(e)' /\ (EventQos[e] \in Merging => Places(e)' = {s})
    BY <1>2, <2>3, <2>5, OnlyPlaceLater
  <2> QED BY <2>2, <2>6 DEF Places, Merging
<1>3. Both /\ Both' /\ [Next]_vars => [Told]_vars BY <1>2
<1> HIDE DEF Told, Both
<1>4. Spec => [][Told]_vars BY <1>1, <1>3, PTL DEF Spec
<1> QED BY <1>4, PTL DEF PushTellsTruth, Told

=============================================================================
