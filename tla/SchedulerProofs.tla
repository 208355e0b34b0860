---------------------------- MODULE SchedulerProofs ----------------------------
(* Proofs about the three nested pumps, for every number of actors and       *)
(* domains, every map of actors to domains and every budget.                 *)
EXTENDS Scheduler, CommonLemmas

-----------------------------------------------------------------------------
(* The inductive invariant. *)

\* What a scan has still to look at: the indices from the offset on.
Ahead(start, offset, n) == {IndexAt(start, k, n) : k \in offset .. n - 1}
DomainsAhead == Ahead(sys.start, sys.offset, DomainCount)
ActorsAhead == Ahead(dom.start, dom.offset, ActorCount)

\* What is left to be looked at and may be given messages of the quantum.
Quota == SumOver(DrainBudget, Members(sys.domain) \cap ActorsAhead)

SystemLoops ==
  [start : Domains, offset : 0 .. DomainCount, remaining : 0 .. TurnBudget,
   progressed : BOOLEAN, processed : Nat, turns : 0 .. TurnBudget, domain : Domains]
DomainLoops ==
  [start : Actors, offset : 0 .. ActorCount, remaining : Nat,
   progressed : BOOLEAN, processed : Nat, turns : Nat, domain : Nat]
ActorLoops == [actor : Actors, budget : Nat, processed : Nat]

Types ==
  /\ pending \in [Actors -> 0 .. MailboxDepth]
  /\ cursor \in [Domains -> Actors] /\ sysCursor \in Domains
  /\ pc \in {"idle", "sys", "dom", "actor"}
  /\ sys \in SystemLoops /\ dom \in DomainLoops /\ act \in ActorLoops
  /\ act.processed <= act.budget
  /\ result \in {"OK", "EMPTY", "PARTIAL", "STATE", "HANDLER_ERROR"}
  /\ owed \in SUBSET Actors /\ handled \in Nat

\* The reports of the loops that are running add up.
Counted ==
  /\ pc = "sys" => handled = sys.processed
  /\ pc = "dom" => handled = sys.processed + dom.processed
  /\ pc = "actor" => handled = sys.processed + dom.processed + act.processed

\* A turn of the run is spent when the domain's turn is over.
TurnsSpent ==
  /\ pc # "idle" => sys.turns + sys.remaining = TurnBudget
  /\ pc \in {"dom", "actor"} => sys.remaining >= 1

\* The system pump stops only after a scan of all domains.
FullPass == pc = "sys" /\ ~sys.progressed => sys.offset = 0

\* The actor's turn is a part of the domain's quantum.
InQuantum ==
  pc = "actor" =>
    /\ act.actor \in Members(sys.domain)
    /\ act.budget >= 1 /\ act.budget <= dom.remaining
    /\ act.budget <= DrainBudget[act.actor]

\* Who is still owed a turn has work, and its domain and in its domain itself
\* are still ahead of the scans.
OwedRunnable == pc # "idle" => owed \subseteq Runnable
OwedDomains ==
  pc # "idle" => \A a \in owed : \/ DomainOf[a] \in DomainsAhead
                                 \/ pc # "sys" /\ DomainOf[a] = sys.domain
OwedActors ==
  pc \in {"dom", "actor"} =>
    \A a \in owed : DomainOf[a] = sys.domain =>
      \/ a \in ActorsAhead
      \/ pc = "actor" /\ a = act.actor /\ act.processed = 0

\* While somebody is owed a turn there are turns for all domains ahead.
TurnsLeft ==
  TurnBudget >= Cardinality(BoundDomains) /\ owed # {} =>
    /\ pc = "sys" => sys.remaining >= Cardinality(BoundDomains \cap DomainsAhead)
    /\ pc \in {"dom", "actor"} =>
         sys.remaining >= Cardinality(BoundDomains \cap DomainsAhead) + 1

\* While a member is owed a turn the quantum covers all members ahead.
QuantumLeft ==
  (\E a \in owed : DomainOf[a] = sys.domain) =>
    /\ pc = "dom" => dom.remaining >= Quota
    /\ pc = "actor" => dom.remaining >= Quota + DrainBudget[act.actor]

ScInv ==
  /\ Types /\ Counted /\ TurnsSpent /\ FullPass /\ InQuantum
  /\ OwedRunnable /\ OwedDomains /\ OwedActors /\ TurnsLeft /\ QuantumLeft

-----------------------------------------------------------------------------
(* Scans of a ring, and sums of budgets. *)

\* A scan stays on the ring.
LEMMA IndexRange ==
  ASSUME NEW n \in Nat, NEW start \in 0 .. n - 1, NEW k \in 0 .. n - 1
  PROVE  IndexAt(start, k, n) \in 0 .. n - 1
  BY ModTurns DEF IndexAt

\* A scan meets no index twice.
LEMMA IndexOnce ==
  ASSUME NEW n \in Nat, NEW start \in 0 .. n - 1,
         NEW k \in 0 .. n - 1, NEW j \in 0 .. n - 1,
         IndexAt(start, k, n) = IndexAt(start, j, n)
  PROVE  k = j
<1>1. PICK a : a = IndexAt(start, k, n) OBVIOUS
<1>2. a = IF start + k < n THEN start + k ELSE start + k - n
  BY <1>1, ModSum DEF IndexAt
<1>3. a = IF start + j < n THEN start + j ELSE start + j - n
  <2>1. IndexAt(start, j, n) = IF start + j < n THEN start + j ELSE start + j - n
    BY ModSum DEF IndexAt
  <2> QED BY <1>1, <2>1
<1> QED BY <1>2, <1>3

\* A scan meets every index.
LEMMA IndexMet ==
  ASSUME NEW n \in Nat, NEW start \in 0 .. n - 1, NEW i \in 0 .. n - 1
  PROVE  \E k \in 0 .. n - 1 : IndexAt(start, k, n) = i
<1>1. PICK k : k = IF i >= start THEN i - start ELSE i - start + n OBVIOUS
<1>2. k \in 0 .. n - 1 BY <1>1
<1>3. IndexAt(start, k, n) = IF start + k < n THEN start + k ELSE start + k - n
  BY <1>2, ModSum DEF IndexAt
<1>4. IndexAt(start, k, n) = i BY <1>1, <1>2, <1>3
<1> QED BY <1>2, <1>4

\* A scan from its start has everybody ahead.
LEMMA AllAhead ==
  ASSUME NEW n \in Nat, NEW start \in 0 .. n - 1
  PROVE  Ahead(start, 0, n) = 0 .. n - 1
<1>1. Ahead(start, 0, n) \subseteq 0 .. n - 1 BY IndexRange DEF Ahead
<1>2. 0 .. n - 1 \subseteq Ahead(start, 0, n) BY IndexMet DEF Ahead
<1> QED BY <1>1, <1>2

\* Whoever is ahead is on the ring.
LEMMA AheadRange ==
  ASSUME NEW n \in Nat, NEW start \in 0 .. n - 1, NEW offset \in 0 .. n
  PROVE  Ahead(start, offset, n) \subseteq 0 .. n - 1
<1>1. offset .. n - 1 \subseteq 0 .. n - 1 OBVIOUS
<1> QED BY <1>1, IndexRange DEF Ahead

\* A scan that finds nobody of S has nobody of S ahead.
LEMMA NobodyAhead ==
  ASSUME NEW n, NEW start, NEW offset, NEW S, ~AnyAt(start, offset, n, S)
  PROVE  S \cap Ahead(start, offset, n) = {}
  BY DEF AnyAt, Ahead

\* Where a scan stops: at one of S, with the others of S still ahead.
LEMMA ScanStops ==
  ASSUME NEW n \in Nat, NEW start \in 0 .. n - 1, NEW offset \in 0 .. n, NEW S,
         AnyAt(start, offset, n, S), NEW k, k = FirstAt(start, offset, n, S),
         NEW i, i = IndexAt(start, k, n)
  PROVE  /\ k \in offset .. n - 1 /\ i \in S /\ i \in 0 .. n - 1
         /\ i \in Ahead(start, offset, n) /\ i \notin Ahead(start, k + 1, n)
         /\ Ahead(start, k + 1, n) \subseteq Ahead(start, offset, n)
         /\ \A x \in S \cap Ahead(start, offset, n) : x = i \/ x \in Ahead(start, k + 1, n)
<1> DEFINE Hits == {j \in offset .. n - 1 : IndexAt(start, j, n) \in S}
           First(j) == /\ IndexAt(start, j, n) \in S
                       /\ \A m \in offset .. (j - 1) : IndexAt(start, m, n) \notin S
<1>1. Hits \in SUBSET Nat /\ Hits # {} BY DEF AnyAt
<1>2. PICK z \in Hits : \A y \in Hits : z <= y
  <2> HIDE DEF Hits
  <2> QED BY <1>1, LeastElement
<1>3. z \in offset .. n - 1 /\ First(z)
  <2>1. z \in offset .. n - 1 /\ IndexAt(start, z, n) \in S BY <1>2
  <2>2. ASSUME NEW m \in offset .. (z - 1) PROVE IndexAt(start, m, n) \notin S
    <3>1. m \in offset .. n - 1 /\ ~(z <= m) BY <2>1
    <3>2. m \notin Hits BY <1>2, <3>1
    <3> QED BY <3>1, <3>2
  <2> QED BY <2>1, <2>2
<1>4. k \in offset .. n - 1 /\ First(k)
  <2>1. k = CHOOSE j \in offset .. n - 1 : First(j) BY DEF FirstAt
  <2> HIDE DEF First
  <2> QED BY <1>3, <2>1
<1>5. i \in S /\ i \in Ahead(start, offset, n) BY <1>4 DEF Ahead
<1>6. k \in 0 .. n - 1 /\ k + 1 \in 0 .. n BY <1>4
<1>7. i \in 0 .. n - 1 BY <1>6, IndexRange
<1>8. i \notin Ahead(start, k + 1, n)
  <2>1. SUFFICES ASSUME NEW j \in k + 1 .. n - 1, i = IndexAt(start, j, n) PROVE FALSE
    BY DEF Ahead
  <2>2. j \in 0 .. n - 1 /\ j # k BY <1>6
  <2> QED BY <1>6, <2>1, <2>2, IndexOnce
<1>9. Ahead(start, k + 1, n) \subseteq Ahead(start, offset, n)
  <2>1. k + 1 .. n - 1 \subseteq offset .. n - 1 BY <1>4
  <2> QED BY <2>1 DEF Ahead
<1>10. ASSUME NEW x \in S \cap Ahead(start, offset, n)
       PROVE  x = i \/ x \in Ahead(start, k + 1, n)
  <2>1. PICK j \in offset .. n - 1 : x = IndexAt(start, j, n) BY DEF Ahead
  <2>2. ~(j \in offset .. (k - 1)) BY <1>4, <2>1
  <2>3. j = k \/ j \in k + 1 .. n - 1 BY <1>6, <2>2
  <2> QED BY <2>1, <2>3 DEF Ahead
<1> QED BY <1>4, <1>5, <1>7, <1>8, <1>9, <1>10

\* The sum of the pumps' loops is the sum of the lemmas.
LEMMA SumIs ==
  ASSUME NEW f, NEW S
  PROVE  SumOver(f, S) = SumOf(S, f)
  BY DEF SumOver, FoldFunctionOnSet, MapThenFoldSet, SumOf

\* One element less counts one less.
LEMMA OneFewer ==
  ASSUME NEW X, IsFiniteSet(X), NEW Y \in SUBSET X, NEW d \in X, d \notin Y
  PROVE  /\ Cardinality(X) \in Nat /\ Cardinality(Y) \in Nat
         /\ Cardinality(Y) + 1 <= Cardinality(X)
<1>1. PICK Z : Z = X \ {d} OBVIOUS
<1>2. IsFiniteSet(Z) /\ Cardinality(Z) = Cardinality(X) - 1 BY <1>1, FS_RemoveElement
<1>3. Y \in SUBSET Z BY <1>1
<1>4. IsFiniteSet(Y) /\ Cardinality(Y) <= Cardinality(Z) BY <1>2, <1>3, FS_Subset
<1>5. Cardinality(X) \in Nat /\ Cardinality(Y) \in Nat BY <1>4, FS_CardinalityType
<1> QED BY <1>2, <1>4, <1>5

\* One element less adds up to as much less.
LEMMA OneLighter ==
  ASSUME NEW X, IsFiniteSet(X), NEW f, \A x \in X : f[x] \in Nat,
         NEW Y \in SUBSET X, NEW d \in X, d \notin Y
  PROVE  /\ SumOf(X, f) \in Nat /\ SumOf(Y, f) \in Nat
         /\ SumOf(Y, f) + f[d] <= SumOf(X, f)
<1>1. PICK Z : Z = X \ {d} OBVIOUS
<1>2. IsFiniteSet(Z) /\ \A x \in Z : f[x] \in Nat BY <1>1, FS_Subset
<1>3. Y \in SUBSET Z BY <1>1
<1>4. IsFiniteSet(Y) /\ \A x \in Y : f[x] \in Nat BY <1>2, <1>3, FS_Subset
<1>5. SumOf(X, f) = f[d] + SumOf(Z, f) BY <1>1, SumOfRest
<1>6. SumOf(Y, f) <= SumOf(Z, f) BY <1>2, <1>3, SumOfPart
<1>7. SumOf(X, f) \in Nat BY SumOfRest
<1>8. SumOf(Y, f) \in Nat BY <1>4, SumOfRest
<1>9. SumOf(Z, f) \in Nat /\ f[d] \in Nat BY <1>2, SumOfRest
<1> QED BY <1>5, <1>6, <1>7, <1>8, <1>9

-----------------------------------------------------------------------------
(* The constants, and who has work. *)

\* The shape of the graph.
LEMMA Shape ==
  /\ ActorCount \in Nat /\ ActorCount >= 1 /\ DomainCount \in Nat /\ DomainCount >= 1
  /\ TurnBudget \in Nat /\ TurnBudget >= 1 /\ MailboxDepth \in Nat
  /\ Actors = 0 .. ActorCount - 1 /\ Domains = 0 .. DomainCount - 1
  /\ IsFiniteSet(Actors) /\ IsFiniteSet(BoundDomains) /\ BoundDomains \subseteq Domains
  /\ \A d : Members(d) \in SUBSET Actors /\ IsFiniteSet(Members(d))
  /\ \A a \in Actors : /\ DomainOf[a] \in Domains
                       /\ DrainBudget[a] \in Nat /\ DrainBudget[a] >= 1
<1>1. IsFiniteSet(Actors) /\ IsFiniteSet(Domains)
  BY ShapeAssumption, FS_Interval DEF Actors, Domains
<1>2. \A d : Members(d) \in SUBSET Actors BY ShapeAssumption DEF Members
<1>3. \A d : IsFiniteSet(Members(d)) BY <1>1, <1>2, FS_Subset
<1>4. BoundDomains \in SUBSET Domains BY ShapeAssumption
<1>5. IsFiniteSet(BoundDomains) BY <1>1, <1>4, FS_Subset
<1>6. \A a \in Actors : /\ DomainOf[a] \in Domains
                        /\ DrainBudget[a] \in Nat /\ DrainBudget[a] >= 1
  BY ShapeAssumption
<1>7. /\ ActorCount \in Nat /\ ActorCount >= 1 /\ DomainCount \in Nat /\ DomainCount >= 1
      /\ TurnBudget \in Nat /\ TurnBudget >= 1 /\ MailboxDepth \in Nat
  BY ShapeAssumption
<1> QED BY <1>1, <1>2, <1>3, <1>4, <1>5, <1>6, <1>7 DEF Actors, Domains

\* A domain has work if a member has.
LEMMA DomainBusy ==
  ASSUME pending \in [Actors -> 0 .. MailboxDepth], NEW d
  PROVE  DomainPending(d) > 0 <=> \E a \in Members(d) : pending[a] > 0
<1>1. Members(d) \in SUBSET Actors /\ IsFiniteSet(Members(d)) BY Shape
<1>2. \A a \in Members(d) : pending[a] \in Nat BY <1>1, Shape
<1>3. SumOf(Members(d), pending) > 0 <=> \E a \in Members(d) : pending[a] > 0
  BY <1>1, <1>2, SumPositive
<1> QED BY <1>3, SumIs DEF DomainPending

\* Who has work is seen by the scans of domains and of members.
LEMMA RunnableIsBusy ==
  ASSUME pending \in [Actors -> 0 .. MailboxDepth]
  PROVE  /\ \A a \in Runnable : /\ a \in Actors /\ DomainOf[a] \in BusyDomains
                                /\ DomainOf[a] = sys.domain => a \in BusyMembers
         /\ BusyDomains \subseteq BoundDomains
         /\ BusyDomains = {} => Runnable = {}
<1>1. ASSUME NEW a \in Runnable
      PROVE  /\ a \in Actors /\ DomainOf[a] \in BusyDomains
             /\ DomainOf[a] = sys.domain => a \in BusyMembers
  <2>1. /\ a \in BoundActors /\ DomainOf[a] \in BoundDomains /\ pending[a] > 0
    BY DEF Runnable
  <2>2. PICK d : d = DomainOf[a] OBVIOUS
  <2>3. a \in Members(d) BY <2>1, <2>2 DEF Members
  <2>4. DomainPending(d) > 0 BY <2>1, <2>3, DomainBusy
  <2>5. DomainOf[a] \in BusyDomains BY <2>1, <2>2, <2>4 DEF BusyDomains
  <2>6. DomainOf[a] = sys.domain => a \in BusyMembers
    BY <2>1, <2>2, <2>3 DEF BusyMembers
  <2>7. a \in Actors BY <2>1, ShapeAssumption
  <2> QED BY <2>5, <2>6, <2>7
<1>2. BusyDomains \subseteq BoundDomains BY DEF BusyDomains
<1>3. BusyDomains = {} => Runnable = {} BY <1>1
<1> QED BY <1>1, <1>2, <1>3

\* The cursors stay on their rings.
LEMMA CursorRange ==
  ASSUME NEW n \in Nat, NEW i \in 0 .. n - 1
  PROVE  CursorAdvance(i, n) \in 0 .. n - 1
  BY DEF CursorAdvance

\* Posting makes no mailbox shorter, nor longer than it may be.
LEMMA PostedDepth ==
  ASSUME NEW p \in [Actors -> 0 .. MailboxDepth], NEW S
  PROVE  /\ Posted(p, S) \in [Actors -> 0 .. MailboxDepth]
         /\ \A a \in Actors : Posted(p, S)[a] >= p[a]
<1>1. MailboxDepth \in Nat BY Shape
<1>2. ASSUME NEW a \in Actors
      PROVE  /\ Posted(p, S)[a] \in 0 .. MailboxDepth
             /\ Posted(p, S)[a] >= p[a]
  <2>1. p[a] \in 0 .. MailboxDepth OBVIOUS
  <2>2. Posted(p, S)[a] = p[a] \/ (p[a] < MailboxDepth /\ Posted(p, S)[a] = p[a] + 1)
    BY DEF Posted
  <2> QED BY <1>1, <2>1, <2>2
<1>3. Posted(p, S) = [a \in Actors |-> Posted(p, S)[a]] BY DEF Posted
<1> QED BY <1>2, <1>3

-----------------------------------------------------------------------------
(* The steps of the system pump. *)

\* The loops' locals have their types.
LEMMA LoopsTyped ==
  ASSUME Types
  PROVE  /\ sys.start \in 0 .. DomainCount - 1 /\ sys.offset \in 0 .. DomainCount
         /\ sys.remaining \in 0 .. TurnBudget /\ sys.processed \in Nat
         /\ sys.turns \in 0 .. TurnBudget /\ sys.domain \in Domains
         /\ dom.start \in 0 .. ActorCount - 1 /\ dom.offset \in 0 .. ActorCount
         /\ dom.remaining \in Nat /\ dom.processed \in Nat
         /\ act.actor \in Actors /\ act.budget \in Nat /\ act.processed \in Nat
         /\ act.processed <= act.budget
         /\ pending \in [Actors -> 0 .. MailboxDepth]
  BY Shape DEF Types, SystemLoops, DomainLoops, ActorLoops

\* Idle, everything holds of owed that is asked of it.
LEMMA NothingAsked ==
  ASSUME Types', pc' = "idle"
  PROVE  ScInv'
  BY DEF ScInv, Counted, TurnsSpent, FullPass, InQuantum, OwedRunnable, OwedDomains,
         OwedActors, TurnsLeft, QuantumLeft

\* Init: nothing runs and nothing waits.
LEMMA ScInit == Init => ScInv
<1> SUFFICES ASSUME Init PROVE ScInv OBVIOUS
<1>1. 0 \in Actors /\ 0 \in Domains BY Shape
<1>2. sys \in SystemLoops BY <1>1, Shape DEF Init, NoLoop, SystemLoops
<1>3. dom \in DomainLoops BY <1>1, Shape DEF Init, NoLoop, DomainLoops
<1>4. act \in ActorLoops /\ act.processed <= act.budget
  BY <1>1 DEF Init, NoAct, ActorLoops
<1>5. pending \in [Actors -> 0 .. MailboxDepth] /\ cursor \in [Domains -> Actors]
  BY <1>1, Shape DEF Init
<1>6. Types BY <1>1, <1>2, <1>3, <1>4, <1>5 DEF Init, Types
<1> QED BY <1>6 DEF Init, ScInv, Counted, TurnsSpent, FullPass, InQuantum, OwedRunnable,
                    OwedDomains, OwedActors, TurnsLeft, QuantumLeft

\* An event between two runs.
LEMMA PostKeeps == \A a : ScInv /\ Post(a) => ScInv'
<1> SUFFICES ASSUME NEW a, ScInv, Post(a) PROVE ScInv' OBVIOUS
<1>1. Types BY DEF ScInv
<1>2. /\ pc = "idle" /\ pending' = Posted(pending, {a})
      /\ cursor' = cursor /\ sysCursor' = sysCursor /\ pc' = pc /\ sys' = sys
      /\ dom' = dom /\ act' = act /\ result' = result /\ owed' = owed
      /\ handled' = handled
  BY DEF Post
<1>3. pending' \in [Actors -> 0 .. MailboxDepth] BY <1>1, <1>2, PostedDepth DEF Types
<1>4. Types' BY <1>1, <1>2, <1>3 DEF Types
<1> QED BY <1>2, <1>4, NothingAsked

\* A run starts: everybody with work is owed a turn, and all domains are ahead.
LEMMA StartRunKeeps == ScInv /\ StartRun => ScInv'
<1> SUFFICES ASSUME ScInv, StartRun PROVE ScInv' OBVIOUS
<1>1. Types BY DEF ScInv
<1>2. /\ pc = "idle" /\ owed' = Runnable /\ handled' = 0 /\ pending' = pending
      /\ cursor' = cursor /\ sysCursor' = sysCursor /\ dom' = dom /\ act' = act
  BY DEF StartRun
<1>3. Runnable \in SUBSET Actors BY ShapeAssumption DEF Runnable
<1>4. CASE Runnable = {}
  <2>1. pc' = pc /\ sys' = sys /\ result' = "EMPTY" BY <1>4 DEF StartRun
  <2>2. Types' BY <1>1, <1>2, <1>3, <2>1 DEF Types
  <2> QED BY <1>2, <2>1, <2>2, NothingAsked
<1>5. CASE Runnable # {}
  <2>1. /\ pc' = "sys" /\ result' = result
        /\ sys' = [NoLoop EXCEPT !.start = sysCursor, !.remaining = TurnBudget]
    BY <1>5 DEF StartRun
  <2>2. /\ sys'.start = sysCursor /\ sys'.offset = 0 /\ sys'.remaining = TurnBudget
        /\ sys'.processed = 0 /\ sys'.turns = 0
    BY <2>1 DEF NoLoop
  <2>3. sysCursor \in 0 .. DomainCount - 1 BY <1>1, Shape DEF Types
  <2>4. sys' \in SystemLoops
    <3>1. sysCursor \in Domains /\ 0 \in Domains /\ 0 \in 0 .. DomainCount
          /\ TurnBudget \in 0 .. TurnBudget /\ 0 \in 0 .. TurnBudget
      BY <1>1, Shape DEF Types
    <3>2. sys' = [start |-> sysCursor, offset |-> 0, remaining |-> TurnBudget,
                  progressed |-> FALSE, processed |-> 0, turns |-> 0, domain |-> 0]
      BY <2>1 DEF NoLoop
    <3> QED BY <3>1, <3>2 DEF SystemLoops
  <2>5. Types' BY <1>1, <1>2, <1>3, <2>1, <2>4 DEF Types
  <2>6. Counted' BY <1>2, <2>1, <2>2 DEF Counted
  <2>7. TurnsSpent' BY <2>1, <2>2, Shape DEF TurnsSpent
  <2>8. FullPass' BY <2>1, <2>2 DEF FullPass
  <2>9. DomainsAhead' = Domains
    <3>1. DomainsAhead' = Ahead(sysCursor, 0, DomainCount) BY <2>2 DEF DomainsAhead
    <3> QED BY <2>3, <3>1, AllAhead, Shape
  <2>10. OwedRunnable' BY <1>2 DEF OwedRunnable, Runnable
  <2>11. OwedDomains' BY <1>2, <1>3, <2>9, Shape DEF OwedDomains
  <2>12. TurnsLeft'
    <3>1. BoundDomains \cap DomainsAhead' = BoundDomains BY <2>9, Shape
    <3>2. TurnBudget >= Cardinality(BoundDomains) =>
            sys'.remaining >= Cardinality(BoundDomains \cap DomainsAhead')
      BY <2>2, <3>1
    <3> QED BY <2>1, <3>2 DEF TurnsLeft
  <2> QED BY <2>1, <2>5, <2>6, <2>7, <2>8, <2>10, <2>11, <2>12
          DEF ScInv, InQuantum, OwedActors, QuantumLeft
<1> QED BY <1>4, <1>5

\* A domain gets its turn: its quantum covers all its members.
LEMMA SelectDomainKeeps == ScInv /\ SelectDomain => ScInv'
<1> SUFFICES ASSUME ScInv, SelectDomain PROVE ScInv' OBVIOUS
<1>1. Types BY DEF ScInv
<1>2. PICK k : k = FirstAt(sys.start, sys.offset, DomainCount, BusyDomains) OBVIOUS
<1>3. PICK d : d = IndexAt(sys.start, k, DomainCount) OBVIOUS
<1>4. /\ pc = "sys" /\ sys.remaining > 0
      /\ AnyAt(sys.start, sys.offset, DomainCount, BusyDomains)
      /\ pc' = "dom" /\ pending' = pending /\ cursor' = cursor /\ sysCursor' = sysCursor
      /\ act' = act /\ result' = result /\ owed' = owed /\ handled' = handled
  BY DEF SelectDomain
<1>5. /\ sys' = [sys EXCEPT !.offset = k + 1, !.domain = d]
      /\ dom' = [NoLoop EXCEPT !.start = cursor[d], !.remaining = DefaultBudget(d)]
  BY <1>2, <1>3 DEF SelectDomain
<1>6. /\ k \in sys.offset .. DomainCount - 1 /\ d \in BusyDomains /\ d \in Domains
      /\ d \in DomainsAhead /\ d \notin Ahead(sys.start, k + 1, DomainCount)
      /\ Ahead(sys.start, k + 1, DomainCount) \subseteq DomainsAhead
      /\ \A x \in BusyDomains \cap DomainsAhead :
           x = d \/ x \in Ahead(sys.start, k + 1, DomainCount)
  <2>1. /\ sys.start \in 0 .. DomainCount - 1 /\ sys.offset \in 0 .. DomainCount
        /\ DomainCount \in Nat
    BY <1>1, LoopsTyped, Shape
  <2>2. k \in sys.offset .. DomainCount - 1 /\ d \in BusyDomains /\ d \in 0 .. DomainCount - 1
    BY <1>2, <1>3, <1>4, <2>1, ScanStops
  <2>3. /\ d \in DomainsAhead /\ d \notin Ahead(sys.start, k + 1, DomainCount)
        /\ Ahead(sys.start, k + 1, DomainCount) \subseteq DomainsAhead
    BY <1>2, <1>3, <1>4, <2>1, ScanStops DEF DomainsAhead
  <2>4. \A x \in BusyDomains \cap DomainsAhead :
           x = d \/ x \in Ahead(sys.start, k + 1, DomainCount)
    BY <1>2, <1>3, <1>4, <2>1, ScanStops DEF DomainsAhead
  <2> QED BY <2>2, <2>3, <2>4, Shape
<1>7. /\ sys'.start = sys.start /\ sys'.offset = k + 1 /\ sys'.domain = d
      /\ sys'.remaining = sys.remaining /\ sys'.processed = sys.processed
      /\ sys'.turns = sys.turns
  BY <1>1, <1>5 DEF Types, SystemLoops
<1>8. /\ dom'.start = cursor[d] /\ dom'.offset = 0 /\ dom'.processed = 0
      /\ dom'.remaining = DefaultBudget(d)
  BY <1>5 DEF NoLoop
<1>9. cursor[d] \in 0 .. ActorCount - 1 BY <1>1, <1>6, Shape DEF Types
<1>10. DomainsAhead' = Ahead(sys.start, k + 1, DomainCount) BY <1>7 DEF DomainsAhead
<1>11. ActorsAhead' = Actors
  <2>1. ActorsAhead' = Ahead(cursor[d], 0, ActorCount) BY <1>8 DEF ActorsAhead
  <2> QED BY <1>9, <2>1, AllAhead, Shape
<1>12. DefaultBudget(d) \in Nat /\ SumOver(DrainBudget, Members(d)) <= DefaultBudget(d)
  <2>1. PICK M : M = {a \in Actors : DomainOf[a] = d} OBVIOUS
  <2>2. DefaultBudget(d) = SumOf(M, DrainBudget) BY <2>1, SumIs DEF DefaultBudget
  <2>3. IsFiniteSet(M) BY <2>1, Shape, FS_Subset
  <2>4. \A a \in M : DrainBudget[a] \in Nat BY <2>1, Shape
  <2>5. Members(d) \in SUBSET M BY <2>1, Shape DEF Members
  <2>6. SumOf(Members(d), DrainBudget) <= SumOf(M, DrainBudget)
    BY <2>3, <2>4, <2>5, SumOfPart
  <2>7. SumOf(M, DrainBudget) \in Nat BY <2>3, <2>4, SumOfRest
  <2> QED BY <2>2, <2>6, <2>7, SumIs
<1>13. Types'
  <2>1. k + 1 \in 0 .. DomainCount
    <3>1. sys.offset \in 0 .. DomainCount /\ DomainCount \in Nat
      BY <1>1, LoopsTyped, Shape
    <3>2. PICK o : o = sys.offset OBVIOUS
    <3>3. k \in o .. DomainCount - 1 /\ o \in Nat BY <1>6, <3>1, <3>2
    <3> QED BY <3>1, <3>3
  <2>2. sys' \in SystemLoops BY <1>1, <1>5, <1>6, <2>1 DEF Types, SystemLoops
  <2>3. dom' \in DomainLoops
    <3>1. cursor[d] \in Actors /\ 0 \in 0 .. ActorCount BY <1>9, Shape
    <3>2. dom' = [start |-> cursor[d], offset |-> 0, remaining |-> DefaultBudget(d),
                  progressed |-> FALSE, processed |-> 0, turns |-> 0, domain |-> 0]
      BY <1>5 DEF NoLoop
    <3> QED BY <1>12, <3>1, <3>2 DEF DomainLoops
  <2> QED BY <1>1, <1>4, <2>2, <2>3 DEF Types
<1>14. Counted'
  <2>1. handled = sys.processed BY <1>4 DEF ScInv, Counted
  <2>2. sys.processed \in Nat BY <1>1, LoopsTyped
  <2>3. handled' = sys'.processed + dom'.processed BY <1>4, <1>7, <1>8, <2>1, <2>2
  <2> QED BY <1>4, <2>3 DEF Counted
<1>15. TurnsSpent'
  <2>1. sys.turns + sys.remaining = TurnBudget BY <1>4 DEF ScInv, TurnsSpent
  <2>2. sys.remaining \in Nat BY <1>1, LoopsTyped
  <2>3. sys'.turns + sys'.remaining = TurnBudget /\ sys'.remaining >= 1
    BY <1>4, <1>7, <2>1, <2>2
  <2> QED BY <1>4, <2>3 DEF TurnsSpent
<1>16. OwedRunnable'
  <2>1. Runnable' = Runnable BY <1>4 DEF Runnable
  <2>2. owed \subseteq Runnable BY <1>4 DEF ScInv, OwedRunnable
  <2> QED BY <1>4, <2>1, <2>2 DEF OwedRunnable
<1>17. OwedDomains'
  <2>1. ASSUME NEW a \in owed PROVE DomainOf[a] \in DomainsAhead' \/ DomainOf[a] = d
    <3>1. a \in Runnable BY <1>4 DEF ScInv, OwedRunnable
    <3>2. DomainOf[a] \in BusyDomains BY <1>1, <3>1, RunnableIsBusy, LoopsTyped
    <3>3. DomainOf[a] \in DomainsAhead BY <1>4 DEF ScInv, OwedDomains
    <3> QED BY <1>6, <1>10, <3>2, <3>3
  <2> QED BY <1>4, <1>7, <2>1 DEF OwedDomains
<1>18. OwedActors'
  <2>1. owed \subseteq Actors BY <1>1 DEF Types
  <2> QED BY <1>4, <1>11, <2>1 DEF OwedActors
<1>19. TurnsLeft'
  <2>1. PICK X : X = BoundDomains \cap DomainsAhead OBVIOUS
  <2>2. PICK Y : Y = BoundDomains \cap DomainsAhead' OBVIOUS
  <2>3. IsFiniteSet(X) /\ X \in SUBSET BoundDomains BY <2>1, Shape, FS_Subset
  <2>4. d \in X /\ d \notin Y /\ Y \in SUBSET X
    BY <1>1, <1>6, <1>10, <2>1, <2>2, RunnableIsBusy, LoopsTyped
  <2>5. /\ Cardinality(X) \in Nat /\ Cardinality(Y) \in Nat
        /\ Cardinality(Y) + 1 <= Cardinality(X)
    BY <2>3, <2>4, OneFewer
  <2>6. TurnBudget >= Cardinality(BoundDomains) /\ owed # {} =>
          sys.remaining >= Cardinality(X)
    BY <1>4, <2>1 DEF ScInv, TurnsLeft
  <2>7. sys.remaining \in Nat BY <1>1, LoopsTyped
  <2>8. TurnBudget >= Cardinality(BoundDomains) /\ owed # {} =>
          sys.remaining >= Cardinality(Y) + 1
    BY <2>5, <2>6, <2>7
  <2> QED BY <1>4, <1>7, <2>2, <2>8 DEF TurnsLeft
<1>20. QuantumLeft'
  <2>1. Members(d) \cap Actors = Members(d) BY Shape
  <2>2. Quota' = SumOver(DrainBudget, Members(d)) BY <1>7, <1>11, <2>1 DEF Quota
  <2>3. dom'.remaining >= Quota' BY <1>8, <1>12, <2>2
  <2> QED BY <1>4, <2>3 DEF QuantumLeft
<1> QED BY <1>4, <1>13, <1>14, <1>15, <1>16, <1>17, <1>18, <1>19, <1>20
        DEF ScInv, FullPass, InQuantum

\* Whoever is owed a turn is found by the scan of the domains, unless its
\* domain has its turn.
LEMMA OwedAreAhead ==
  ASSUME ScInv, pc = "sys"
  PROVE  /\ owed # {} => BusyDomains \cap DomainsAhead # {}
         /\ TurnBudget >= Cardinality(BoundDomains) /\ owed # {} => sys.remaining >= 1
<1>1. Types BY DEF ScInv
<1>2. ASSUME NEW a \in owed PROVE DomainOf[a] \in BusyDomains \cap DomainsAhead
  <2>1. a \in Runnable BY DEF ScInv, OwedRunnable
  <2>2. DomainOf[a] \in BusyDomains BY <1>1, <2>1, RunnableIsBusy, LoopsTyped
  <2>3. DomainOf[a] \in DomainsAhead BY DEF ScInv, OwedDomains
  <2> QED BY <2>2, <2>3
<1>3. ASSUME TurnBudget >= Cardinality(BoundDomains), owed # {} PROVE sys.remaining >= 1
  <2>1. PICK X : X = BoundDomains \cap DomainsAhead OBVIOUS
  <2>2. IsFiniteSet(X) BY <2>1, Shape, FS_Subset
  <2>3. X # {} BY <1>1, <1>2, <1>3, <2>1, RunnableIsBusy, LoopsTyped
  <2>4. Cardinality(X) \in Nat /\ Cardinality(X) # 0
    BY <2>2, <2>3, FS_EmptySet, FS_CardinalityType
  <2>5. sys.remaining >= Cardinality(X) BY <1>3, <2>1 DEF ScInv, TurnsLeft
  <2>6. sys.remaining \in Nat BY <1>1, LoopsTyped
  <2> QED BY <2>4, <2>5, <2>6
<1> QED BY <1>2, <1>3

\* A new pass begins: nobody is owed a turn any more.
LEMMA RestartSystemPassKeeps == ScInv /\ RestartSystemPass => ScInv'
<1> SUFFICES ASSUME ScInv, RestartSystemPass PROVE ScInv' OBVIOUS
<1>1. Types BY DEF ScInv
<1>2. /\ pc = "sys" /\ ~AnyAt(sys.start, sys.offset, DomainCount, BusyDomains)
      /\ sys' = [sys EXCEPT !.start = sysCursor, !.offset = 0, !.progressed = FALSE]
      /\ pc' = pc /\ pending' = pending /\ cursor' = cursor /\ sysCursor' = sysCursor
      /\ dom' = dom /\ act' = act /\ result' = result /\ owed' = owed
      /\ handled' = handled
  BY DEF RestartSystemPass
<1>3. owed = {} BY <1>2, NobodyAhead, OwedAreAhead DEF DomainsAhead
<1>4. /\ sys'.offset = 0 /\ sys'.remaining = sys.remaining
      /\ sys'.processed = sys.processed /\ sys'.turns = sys.turns
  BY <1>1, <1>2 DEF Types, SystemLoops
<1>5. Types'
  <2>1. sysCursor \in Domains /\ 0 \in 0 .. DomainCount BY <1>1, Shape DEF Types
  <2>2. sys' \in SystemLoops BY <1>1, <1>2, <2>1 DEF Types, SystemLoops
  <2> QED BY <1>1, <1>2, <2>2 DEF Types
<1>6. Counted' BY <1>2, <1>4 DEF ScInv, Counted
<1>7. TurnsSpent' BY <1>2, <1>4 DEF ScInv, TurnsSpent
<1> QED BY <1>2, <1>3, <1>4, <1>5, <1>6, <1>7
        DEF ScInv, FullPass, InQuantum, OwedRunnable, OwedDomains, OwedActors, TurnsLeft,
            QuantumLeft

\* A run ends.
LEMMA FinishRunKeeps == ScInv /\ FinishRun => ScInv'
<1> SUFFICES ASSUME ScInv, FinishRun PROVE ScInv' OBVIOUS
<1>1. Types BY DEF ScInv
<1>2. /\ pc' = "idle" /\ pending' = pending /\ cursor' = cursor
      /\ sysCursor' = sysCursor /\ sys' = sys
      /\ dom' = dom /\ act' = act /\ owed' = owed /\ handled' = handled
  BY DEF FinishRun
<1>3. result' \in {"OK", "EMPTY", "PARTIAL", "STATE", "HANDLER_ERROR"} BY DEF FinishRun
<1>4. Types' BY <1>1, <1>2, <1>3 DEF Types
<1> QED BY <1>2, <1>4, NothingAsked

\* A failing turn ends the run: the report is well-formed.
LEMMA FailRunTypes ==
  ASSUME ScInv, pc \in {"dom", "actor"}, NEW rc, NEW n \in Nat, FailRun(rc, n)
  PROVE  /\ sys' \in SystemLoops /\ sysCursor' \in Domains
         /\ sys'.processed = sys.processed + n
<1>1. Types BY DEF ScInv
<1>2. /\ sysCursor' = CursorAdvance(sys.domain, DomainCount)
      /\ sys' = [sys EXCEPT !.turns = @ + 1, !.processed = @ + n]
  BY DEF FailRun
<1>3. sys.turns + 1 \in 0 .. TurnBudget
  <2>1. sys.turns + sys.remaining = TurnBudget /\ sys.remaining >= 1
    BY DEF ScInv, TurnsSpent
  <2>2. sys.turns \in 0 .. TurnBudget /\ sys.remaining \in 0 .. TurnBudget
    BY <1>1, LoopsTyped
  <2> QED BY <2>1, <2>2, Shape
<1>4. sys.processed + n \in Nat BY <1>1, LoopsTyped
<1>5. sys' \in SystemLoops BY <1>1, <1>2, <1>3, <1>4 DEF Types, SystemLoops
<1>6. sys'.processed = sys.processed + n BY <1>1, <1>2 DEF Types, SystemLoops
<1>7. sysCursor' \in Domains BY <1>1, <1>2, CursorRange, LoopsTyped, Shape
<1> QED BY <1>5, <1>6, <1>7

-----------------------------------------------------------------------------
(* The steps of the domain pump. *)

\* Nobody of the domain is owed a turn when its pump stops or starts again.
LEMMA DomainServed ==
  ASSUME ScInv, pc = "dom",
         dom.remaining = 0 \/ ~AnyAt(dom.start, dom.offset, ActorCount, BusyMembers)
  PROVE  \A a \in owed : DomainOf[a] # sys.domain
<1>1. Types BY DEF ScInv
<1> SUFFICES ASSUME NEW a \in owed, DomainOf[a] = sys.domain PROVE FALSE OBVIOUS
<1>2. a \in Runnable BY DEF ScInv, OwedRunnable
<1>3. a \in BusyMembers BY <1>1, <1>2, RunnableIsBusy, LoopsTyped
<1>4. a \in ActorsAhead BY DEF ScInv, OwedActors
<1>5. AnyAt(dom.start, dom.offset, ActorCount, BusyMembers)
  BY <1>3, <1>4, NobodyAhead DEF ActorsAhead
<1>6. dom.remaining = 0 BY <1>5
<1>7. PICK X : X = Members(sys.domain) \cap ActorsAhead OBVIOUS
<1>8. /\ IsFiniteSet(X) /\ X \in SUBSET Actors /\ \A x \in X : DrainBudget[x] \in Nat
  BY <1>7, Shape, FS_Subset
<1>9. a \in X BY <1>3, <1>4, <1>7 DEF BusyMembers
<1>10. DrainBudget[a] >= 1 BY <1>8, <1>9, Shape
<1>11. SumOf(X, DrainBudget) > 0 BY <1>8, <1>9, <1>10, SumPositive
<1>12. Quota > 0 BY <1>7, <1>11, SumIs DEF Quota
<1>13. dom.remaining >= Quota BY DEF ScInv, QuantumLeft
<1>14. SumOf(X, DrainBudget) \in Nat BY <1>8, SumOfRest
<1>15. Quota \in Nat BY <1>7, <1>14, SumIs DEF Quota
<1> QED BY <1>6, <1>12, <1>13, <1>15

\* A member gets its turn, out of what is left of the quantum.
LEMMA SelectActorKeeps == ScInv /\ SelectActor => ScInv'
<1> SUFFICES ASSUME ScInv, SelectActor PROVE ScInv' OBVIOUS
<1>1. Types BY DEF ScInv
<1>2. PICK k : k = FirstAt(dom.start, dom.offset, ActorCount, BusyMembers) OBVIOUS
<1>3. PICK b : b = IndexAt(dom.start, k, ActorCount) OBVIOUS
<1>4. PICK q : q = IF DrainBudget[b] > dom.remaining THEN dom.remaining ELSE DrainBudget[b]
  OBVIOUS
<1>5. /\ pc = "dom" /\ dom.remaining > 0
      /\ AnyAt(dom.start, dom.offset, ActorCount, BusyMembers)
      /\ pc' = "actor" /\ pending' = pending /\ cursor' = cursor
      /\ sysCursor' = sysCursor /\ sys' = sys
      /\ result' = result /\ owed' = owed /\ handled' = handled
  BY DEF SelectActor
<1>6. /\ dom' = [dom EXCEPT !.offset = k + 1]
      /\ act' = [actor |-> b, processed |-> 0, budget |-> q]
  BY <1>2, <1>3, <1>4 DEF SelectActor
<1>7. /\ k \in dom.offset .. ActorCount - 1 /\ b \in BusyMembers /\ b \in Actors
      /\ b \in ActorsAhead /\ b \notin Ahead(dom.start, k + 1, ActorCount)
      /\ Ahead(dom.start, k + 1, ActorCount) \subseteq ActorsAhead
      /\ \A x \in BusyMembers \cap ActorsAhead :
           x = b \/ x \in Ahead(dom.start, k + 1, ActorCount)
  <2>1. /\ dom.start \in 0 .. ActorCount - 1 /\ dom.offset \in 0 .. ActorCount
        /\ ActorCount \in Nat
    BY <1>1, LoopsTyped, Shape
  <2>2. k \in dom.offset .. ActorCount - 1 /\ b \in BusyMembers /\ b \in 0 .. ActorCount - 1
    BY <1>2, <1>3, <1>5, <2>1, ScanStops
  <2>3. /\ b \in ActorsAhead /\ b \notin Ahead(dom.start, k + 1, ActorCount)
        /\ Ahead(dom.start, k + 1, ActorCount) \subseteq ActorsAhead
    BY <1>2, <1>3, <1>5, <2>1, ScanStops DEF ActorsAhead
  <2>4. \A x \in BusyMembers \cap ActorsAhead :
           x = b \/ x \in Ahead(dom.start, k + 1, ActorCount)
    BY <1>2, <1>3, <1>5, <2>1, ScanStops DEF ActorsAhead
  <2> QED BY <2>2, <2>3, <2>4, Shape
<1>8. b \in Members(sys.domain) /\ pending[b] > 0 BY <1>7 DEF BusyMembers
<1>9. DrainBudget[b] \in Nat /\ DrainBudget[b] >= 1 BY <1>7, Shape
<1>10. q \in Nat /\ q >= 1 /\ q <= dom.remaining /\ q <= DrainBudget[b]
  <2>1. dom.remaining \in Nat BY <1>1, LoopsTyped
  <2> QED BY <1>4, <1>5, <1>9, <2>1
<1>11. /\ dom'.start = dom.start /\ dom'.offset = k + 1 /\ dom'.remaining = dom.remaining
       /\ dom'.processed = dom.processed
  BY <1>1, <1>6 DEF Types, DomainLoops
<1>12. act'.actor = b /\ act'.processed = 0 /\ act'.budget = q BY <1>6
<1>13. ActorsAhead' = Ahead(dom.start, k + 1, ActorCount) BY <1>11 DEF ActorsAhead
<1>14. DomainsAhead' = DomainsAhead BY <1>5 DEF DomainsAhead
<1>15. Types'
  <2>1. k + 1 \in 0 .. ActorCount
    <3>1. dom.offset \in 0 .. ActorCount /\ ActorCount \in Nat
      BY <1>1, LoopsTyped, Shape
    <3>2. PICK o : o = dom.offset OBVIOUS
    <3>3. k \in o .. ActorCount - 1 /\ o \in Nat BY <1>7, <3>1, <3>2
    <3> QED BY <3>1, <3>3
  <2>2. dom' \in DomainLoops BY <1>1, <1>6, <2>1 DEF Types, DomainLoops
  <2>3. act' \in ActorLoops BY <1>6, <1>7, <1>10 DEF ActorLoops
  <2>4. act'.processed <= act'.budget BY <1>10, <1>12
  <2> QED BY <1>1, <1>5, <2>2, <2>3, <2>4 DEF Types
<1>16. Counted'
  <2>1. handled = sys.processed + dom.processed BY <1>5 DEF ScInv, Counted
  <2>2. sys.processed \in Nat /\ dom.processed \in Nat BY <1>1, LoopsTyped
  <2>3. handled' = sys'.processed + dom'.processed + act'.processed
    BY <1>5, <1>11, <1>12, <2>1, <2>2
  <2> QED BY <1>5, <2>3 DEF Counted
<1>17. TurnsSpent' BY <1>5 DEF ScInv, TurnsSpent
<1>18. InQuantum'
  <2>1. Members(sys.domain)' = Members(sys.domain) BY <1>5 DEF Members
  <2> QED BY <1>8, <1>10, <1>11, <1>12, <2>1 DEF InQuantum
<1>19. OwedRunnable'
  <2>1. Runnable' = Runnable BY <1>5 DEF Runnable
  <2> QED BY <1>5, <2>1 DEF ScInv, OwedRunnable
<1>20. OwedDomains' BY <1>5, <1>14 DEF ScInv, OwedDomains
<1>21. OwedActors'
  <2>1. ASSUME NEW a \in owed, DomainOf[a] = sys.domain
        PROVE  a \in ActorsAhead' \/ a = b
    <3>1. a \in Runnable BY <1>5 DEF ScInv, OwedRunnable
    <3>2. a \in BusyMembers BY <1>1, <2>1, <3>1, RunnableIsBusy, LoopsTyped
    <3>3. a \in ActorsAhead BY <1>5, <2>1 DEF ScInv, OwedActors
    <3> QED BY <1>7, <1>13, <3>2, <3>3
  <2> QED BY <1>5, <1>12, <2>1 DEF OwedActors
<1>22. TurnsLeft' BY <1>5, <1>14 DEF ScInv, TurnsLeft
<1>23. QuantumLeft'
  <2>1. PICK X : X = Members(sys.domain) \cap ActorsAhead OBVIOUS
  <2>2. PICK Y : Y = Members(sys.domain) \cap ActorsAhead' OBVIOUS
  <2>3. IsFiniteSet(X) /\ \A x \in X : DrainBudget[x] \in Nat
    BY <2>1, Shape, FS_Subset
  <2>4. b \in X /\ b \notin Y /\ Y \in SUBSET X BY <1>7, <1>8, <1>13, <2>1, <2>2
  <2>5. /\ SumOf(X, DrainBudget) \in Nat /\ SumOf(Y, DrainBudget) \in Nat
        /\ SumOf(Y, DrainBudget) + DrainBudget[b] <= SumOf(X, DrainBudget)
    BY <2>3, <2>4, OneLighter
  <2>6. Quota = SumOf(X, DrainBudget) BY <2>1, SumIs DEF Quota
  <2>7. Quota' = SumOf(Y, DrainBudget)
    <3>1. Quota' = SumOver(DrainBudget, Y) BY <1>5, <2>2 DEF Quota, Members
    <3> QED BY <3>1, SumIs
  <2>8. (\E a \in owed : DomainOf[a] = sys.domain) => dom.remaining >= Quota
    BY <1>5 DEF ScInv, QuantumLeft
  <2>9. dom.remaining \in Nat BY <1>1, LoopsTyped
  <2>10. (\E a \in owed : DomainOf[a] = sys.domain) =>
           dom.remaining >= Quota' + DrainBudget[b]
    BY <1>9, <2>5, <2>6, <2>7, <2>8, <2>9
  <2> QED BY <1>5, <1>11, <1>12, <2>10 DEF QuantumLeft
<1> QED BY <1>5, <1>15, <1>16, <1>17, <1>18, <1>19, <1>20, <1>21, <1>22, <1>23
        DEF ScInv, FullPass

\* A new pass over the members: none of them is owed a turn any more.
LEMMA RestartDomainPassKeeps == ScInv /\ RestartDomainPass => ScInv'
<1> SUFFICES ASSUME ScInv, RestartDomainPass PROVE ScInv' OBVIOUS
<1>1. Types BY DEF ScInv
<1>2. /\ pc = "dom" /\ ~AnyAt(dom.start, dom.offset, ActorCount, BusyMembers)
      /\ dom' = [dom EXCEPT !.start = cursor[sys.domain], !.offset = 0,
                            !.progressed = FALSE]
      /\ pc' = pc /\ pending' = pending /\ cursor' = cursor /\ sysCursor' = sysCursor
      /\ sys' = sys /\ act' = act /\ result' = result /\ owed' = owed
      /\ handled' = handled
  BY DEF RestartDomainPass
<1>3. \A a \in owed : DomainOf[a] # sys.domain BY <1>2, DomainServed
<1>4. /\ dom'.offset = 0 /\ dom'.remaining = dom.remaining
      /\ dom'.processed = dom.processed
  BY <1>1, <1>2 DEF Types, DomainLoops
<1>5. Types'
  <2>1. cursor[sys.domain] \in Actors /\ 0 \in 0 .. ActorCount
    <3>1. sys.domain \in Domains BY <1>1, LoopsTyped
    <3>2. cursor \in [Domains -> Actors] BY <1>1 DEF Types
    <3> QED BY <3>1, <3>2, Shape
  <2>2. dom' \in DomainLoops BY <1>1, <1>2, <2>1 DEF Types, DomainLoops
  <2> QED BY <1>1, <1>2, <2>2 DEF Types
<1>6. Counted' BY <1>2, <1>4 DEF ScInv, Counted
<1>7. DomainsAhead' = DomainsAhead BY <1>2 DEF DomainsAhead
<1>8. OwedDomains' BY <1>2, <1>7 DEF ScInv, OwedDomains
<1>9. OwedRunnable' BY <1>2 DEF ScInv, OwedRunnable, Runnable
<1>10. TurnsLeft' BY <1>2, <1>7 DEF ScInv, TurnsLeft
<1>11. TurnsSpent' BY <1>2 DEF ScInv, TurnsSpent
<1> QED BY <1>2, <1>3, <1>5, <1>6, <1>8, <1>9, <1>10, <1>11
        DEF ScInv, FullPass, InQuantum, OwedActors, QuantumLeft

\* A domain's turn ends: none of its members is owed a turn any more.
LEMMA FinishDomainKeeps == ScInv /\ FinishDomain => ScInv'
<1> SUFFICES ASSUME ScInv, FinishDomain PROVE ScInv' OBVIOUS
<1>1. Types BY DEF ScInv
<1>2. /\ pc = "dom"
      /\ dom.remaining = 0 \/ ~AnyAt(dom.start, dom.offset, ActorCount, BusyMembers)
      /\ pending' = pending /\ cursor' = cursor
      /\ dom' = dom /\ act' = act /\ owed' = owed /\ handled' = handled
  BY DEF FinishDomain
<1>3. \A a \in owed : DomainOf[a] # sys.domain BY <1>2, DomainServed
<1>4. CASE dom.processed = 0
  <2>1. FailRun("STATE", 0) BY <1>4 DEF FinishDomain
  <2>2. pc' = "idle" /\ result' = "STATE" BY <2>1 DEF FailRun
  <2>3. sys' \in SystemLoops /\ sysCursor' \in Domains BY <1>2, <2>1, FailRunTypes
  <2>4. Types' BY <1>1, <1>2, <2>2, <2>3 DEF Types
  <2> QED BY <2>2, <2>4, NothingAsked
<1>5. CASE dom.processed # 0
  <2>1. /\ pc' = "sys" /\ sysCursor' = CursorAdvance(sys.domain, DomainCount)
        /\ result' = result
        /\ sys' = [sys EXCEPT !.processed = @ + dom.processed, !.turns = @ + 1,
                              !.progressed = TRUE, !.remaining = @ - 1]
    BY <1>5 DEF FinishDomain
  <2>2. /\ sys'.start = sys.start /\ sys'.offset = sys.offset /\ sys'.progressed = TRUE
        /\ sys'.remaining = sys.remaining - 1 /\ sys'.turns = sys.turns + 1
        /\ sys'.processed = sys.processed + dom.processed
    BY <1>1, <2>1 DEF Types, SystemLoops
  <2>3. /\ sys.turns + sys.remaining = TurnBudget /\ sys.remaining >= 1
        /\ sys.turns \in Nat /\ sys.remaining \in Nat /\ TurnBudget \in Nat
        /\ sys.processed \in Nat /\ dom.processed \in Nat
    BY <1>1, <1>2, LoopsTyped, Shape DEF ScInv, TurnsSpent
  <2>4. Types'
    <3>1. /\ sys.turns + 1 \in 0 .. TurnBudget /\ sys.remaining - 1 \in 0 .. TurnBudget
          /\ sys.processed + dom.processed \in Nat
      BY <2>3
    <3>2. sys' \in SystemLoops BY <1>1, <2>1, <3>1 DEF Types, SystemLoops
    <3>3. sysCursor' \in Domains BY <1>1, <2>1, CursorRange, LoopsTyped, Shape
    <3> QED BY <1>1, <1>2, <2>1, <3>2, <3>3 DEF Types
  <2>5. Counted'
    <3>1. handled = sys.processed + dom.processed BY <1>2 DEF ScInv, Counted
    <3> QED BY <1>2, <2>1, <2>2, <3>1 DEF Counted
  <2>6. TurnsSpent'
    <3>1. sys'.turns + sys'.remaining = TurnBudget BY <2>2, <2>3
    <3> QED BY <2>1, <3>1 DEF TurnsSpent
  <2>7. DomainsAhead' = DomainsAhead BY <2>2 DEF DomainsAhead
  <2>8. OwedRunnable' BY <1>2 DEF ScInv, OwedRunnable, Runnable
  <2>9. OwedDomains' BY <1>2, <1>3, <2>7 DEF ScInv, OwedDomains
  <2>10. TurnsLeft'
    <3>1. PICK X : X = BoundDomains \cap DomainsAhead OBVIOUS
    <3>2. IsFiniteSet(X) BY <3>1, Shape, FS_Subset
    <3>3. Cardinality(X) \in Nat BY <3>2, FS_CardinalityType
    <3>4. TurnBudget >= Cardinality(BoundDomains) /\ owed # {} =>
            sys.remaining >= Cardinality(X) + 1
      BY <1>2, <3>1 DEF ScInv, TurnsLeft
    <3>5. TurnBudget >= Cardinality(BoundDomains) /\ owed # {} =>
            sys'.remaining >= Cardinality(X)
      BY <2>2, <2>3, <3>3, <3>4
    <3> QED BY <1>2, <2>1, <2>7, <3>1, <3>5 DEF TurnsLeft
  <2> QED BY <2>1, <2>2, <2>4, <2>5, <2>6, <2>8, <2>9, <2>10
          DEF ScInv, FullPass, InQuantum, OwedActors, QuantumLeft
<1> QED BY <1>4, <1>5

-----------------------------------------------------------------------------
(* The steps of the actor pump. *)

\* A message leaves the mailbox of the actor, and the handler posts: nobody
\* else's mailbox gets shorter.
LEMMA OneMessageLess ==
  ASSUME Types, pending[act.actor] > 0, NEW S,
         pending' = Posted([pending EXCEPT ![act.actor] = @ - 1], S)
  PROVE  /\ pending' \in [Actors -> 0 .. MailboxDepth]
         /\ \A a \in Actors : a # act.actor => pending'[a] >= pending[a]
<1>1. PICK b : b = act.actor OBVIOUS
<1>2. b \in Actors /\ pending \in [Actors -> 0 .. MailboxDepth] BY <1>1, LoopsTyped
<1>3. PICK p : p = [pending EXCEPT ![b] = @ - 1] OBVIOUS
<1>4. p \in [Actors -> 0 .. MailboxDepth]
  <2>1. pending[b] - 1 \in 0 .. MailboxDepth BY <1>1, <1>2, Shape
  <2> QED BY <1>2, <1>3, <2>1
<1>5. \A a \in Actors : a # b => p[a] = pending[a] BY <1>2, <1>3
<1>6. pending' = Posted(p, S) BY <1>1, <1>3
<1>7. pending' \in [Actors -> 0 .. MailboxDepth] /\ \A a \in Actors : pending'[a] >= p[a]
  BY <1>4, <1>6, PostedDepth
<1> QED BY <1>1, <1>5, <1>7

\* A message is handled: the actor is not owed its turn any more.
LEMMA ProcessOneKeeps == \A S : ScInv /\ ProcessOne(S) => ScInv'
<1> SUFFICES ASSUME NEW S, ScInv, ProcessOne(S) PROVE ScInv' OBVIOUS
<1>1. Types BY DEF ScInv
<1>2. /\ pc = "actor" /\ act.processed < act.budget /\ pending[act.actor] > 0
      /\ pending' = Posted([pending EXCEPT ![act.actor] = @ - 1], S)
      /\ act' = [act EXCEPT !.processed = @ + 1]
      /\ owed' = owed \ {act.actor} /\ handled' = handled + 1
      /\ pc' = pc /\ cursor' = cursor /\ sysCursor' = sysCursor
      /\ sys' = sys /\ dom' = dom /\ result' = result
  BY DEF ProcessOne
<1>3. /\ act'.actor = act.actor /\ act'.budget = act.budget
      /\ act'.processed = act.processed + 1
  BY <1>1, <1>2 DEF Types, ActorLoops
<1>4. /\ pending' \in [Actors -> 0 .. MailboxDepth]
      /\ \A a \in Actors : a # act.actor => pending'[a] >= pending[a]
  BY <1>1, <1>2, OneMessageLess
<1>5. /\ act.processed \in Nat /\ act.budget \in Nat /\ sys.processed \in Nat
      /\ dom.processed \in Nat
  BY <1>1, LoopsTyped
<1>6. Types'
  <2>1. act' \in ActorLoops BY <1>1, <1>2, <1>5 DEF Types, ActorLoops
  <2>2. act'.processed <= act'.budget BY <1>2, <1>3, <1>5
  <2>3. handled' \in Nat /\ owed' \in SUBSET Actors BY <1>1, <1>2 DEF Types
  <2> QED BY <1>1, <1>2, <1>4, <2>1, <2>2, <2>3 DEF Types
<1>7. Counted'
  <2>1. handled = sys.processed + dom.processed + act.processed
    BY <1>2 DEF ScInv, Counted
  <2>2. handled' = sys'.processed + dom'.processed + act'.processed
    BY <1>2, <1>3, <1>5, <2>1
  <2> QED BY <1>2, <2>2 DEF Counted
<1>8. TurnsSpent' BY <1>2 DEF ScInv, TurnsSpent
<1>9. InQuantum' BY <1>2, <1>3 DEF ScInv, InQuantum, Members
<1>10. OwedRunnable'
  <2>1. ASSUME NEW a \in owed' PROVE a \in Runnable'
    <3>1. a \in owed /\ a # act.actor BY <1>2
    <3>2. a \in Runnable BY <1>2, <3>1 DEF ScInv, OwedRunnable
    <3>3. a \in Actors BY <1>1, <3>1 DEF Types
    <3>4. pending[a] > 0 /\ a \in BoundActors /\ DomainOf[a] \in BoundDomains
      BY <3>2 DEF Runnable
    <3>5. pending'[a] >= pending[a] BY <1>4, <3>1, <3>3
    <3>6. pending'[a] \in 0 .. MailboxDepth /\ pending[a] \in 0 .. MailboxDepth
      BY <1>1, <1>4, <3>3 DEF Types
    <3>7. pending'[a] > 0 BY <3>4, <3>5, <3>6, Shape
    <3> QED BY <3>4, <3>7 DEF Runnable
  <2> QED BY <2>1 DEF OwedRunnable
<1>11. DomainsAhead' = DomainsAhead /\ ActorsAhead' = ActorsAhead
  BY <1>2 DEF DomainsAhead, ActorsAhead
<1>12. OwedDomains' BY <1>2, <1>11 DEF ScInv, OwedDomains
<1>13. OwedActors' BY <1>2, <1>11 DEF ScInv, OwedActors
<1>14. TurnsLeft' BY <1>2, <1>11 DEF ScInv, TurnsLeft
<1>15. QuantumLeft'
  <2>1. Quota' = Quota BY <1>2, <1>11 DEF Quota, Members
  <2> QED BY <1>2, <1>3, <2>1 DEF ScInv, QuantumLeft
<1> QED BY <1>2, <1>6, <1>7, <1>8, <1>9, <1>10, <1>12, <1>13, <1>14, <1>15
        DEF ScInv, FullPass

\* The actor's turn ends: it used up no more than its budget.
LEMMA FinishActorKeeps == ScInv /\ FinishActor => ScInv'
<1> SUFFICES ASSUME ScInv, FinishActor PROVE ScInv' OBVIOUS
<1>1. Types BY DEF ScInv
<1>2. /\ pc = "actor"
      /\ act.processed = act.budget \/ pending[act.actor] = 0
      /\ pc' = "dom"
      /\ cursor' = [cursor EXCEPT ![sys.domain] = CursorAdvance(act.actor, ActorCount)]
      /\ dom' = [dom EXCEPT !.processed = @ + act.processed,
                            !.remaining = @ - act.processed, !.progressed = TRUE]
      /\ pending' = pending /\ sysCursor' = sysCursor /\ sys' = sys
      /\ act' = act /\ result' = result /\ owed' = owed /\ handled' = handled
  BY DEF FinishActor
<1>3. /\ dom'.start = dom.start /\ dom'.offset = dom.offset
      /\ dom'.processed = dom.processed + act.processed
      /\ dom'.remaining = dom.remaining - act.processed
  BY <1>1, <1>2 DEF Types, DomainLoops
<1>4. /\ act.processed \in Nat /\ act.budget \in Nat /\ act.processed <= act.budget
      /\ sys.processed \in Nat /\ dom.processed \in Nat /\ dom.remaining \in Nat
      /\ act.actor \in Actors
  BY <1>1, LoopsTyped
<1>5. /\ act.actor \in Members(sys.domain) /\ act.budget >= 1
      /\ act.budget <= dom.remaining /\ act.budget <= DrainBudget[act.actor]
  BY <1>2 DEF ScInv, InQuantum
<1>6. Types'
  <2>1. dom.processed + act.processed \in Nat /\ dom.remaining - act.processed \in Nat
    BY <1>4, <1>5
  <2>2. dom' \in DomainLoops BY <1>1, <1>2, <2>1 DEF Types, DomainLoops
  <2>3. CursorAdvance(act.actor, ActorCount) \in Actors BY <1>4, CursorRange, Shape
  <2>4. cursor' \in [Domains -> Actors] BY <1>1, <1>2, <2>3 DEF Types
  <2> QED BY <1>1, <1>2, <2>2, <2>4 DEF Types
<1>7. Counted'
  <2>1. handled = sys.processed + dom.processed + act.processed
    BY <1>2 DEF ScInv, Counted
  <2>2. handled' = sys'.processed + dom'.processed BY <1>2, <1>3, <1>4, <2>1
  <2> QED BY <1>2, <2>2 DEF Counted
<1>8. TurnsSpent' BY <1>2 DEF ScInv, TurnsSpent
<1>9. OwedRunnable' BY <1>2 DEF ScInv, OwedRunnable, Runnable
<1>10. DomainsAhead' = DomainsAhead /\ ActorsAhead' = ActorsAhead
  BY <1>2, <1>3 DEF DomainsAhead, ActorsAhead
<1>11. OwedDomains' BY <1>2, <1>10 DEF ScInv, OwedDomains
<1>12. OwedActors'
  <2>1. ASSUME NEW a \in owed, DomainOf[a] = sys.domain PROVE a \in ActorsAhead
    <3>1. SUFFICES ASSUME a = act.actor, act.processed = 0 PROVE FALSE
      BY <1>2, <2>1 DEF ScInv, OwedActors
    <3>2. pending[act.actor] = 0 BY <1>2, <1>4, <1>5, <3>1
    <3>3. a \in Runnable BY <1>2 DEF ScInv, OwedRunnable
    <3> QED BY <3>1, <3>2, <3>3 DEF Runnable
  <2> QED BY <1>2, <1>10, <2>1 DEF OwedActors
<1>13. TurnsLeft' BY <1>2, <1>10 DEF ScInv, TurnsLeft
<1>14. QuantumLeft'
  <2>1. Quota' = Quota BY <1>2, <1>10 DEF Quota, Members
  <2>2. (\E a \in owed : DomainOf[a] = sys.domain) =>
          dom.remaining >= Quota + DrainBudget[act.actor]
    BY <1>2 DEF ScInv, QuantumLeft
  <2>3. Quota \in Nat /\ DrainBudget[act.actor] \in Nat
    <3>1. PICK X : X = Members(sys.domain) \cap ActorsAhead OBVIOUS
    <3>2. IsFiniteSet(X) /\ \A x \in X : DrainBudget[x] \in Nat
      BY <3>1, Shape, FS_Subset
    <3>3. SumOf(X, DrainBudget) \in Nat BY <3>2, SumOfRest
    <3> QED BY <1>4, <3>1, <3>3, SumIs, Shape DEF Quota
  <2>4. (\E a \in owed : DomainOf[a] = sys.domain) => dom'.remaining >= Quota'
    BY <1>3, <1>4, <1>5, <2>1, <2>2, <2>3
  <2> QED BY <1>2, <2>4 DEF QuantumLeft
<1> QED BY <1>2, <1>6, <1>7, <1>8, <1>9, <1>11, <1>12, <1>13, <1>14
        DEF ScInv, FullPass, InQuantum

\* The handler fails, which ends the run.
LEMMA HandlerFailsKeeps == \A S : ScInv /\ HandlerFails(S) => ScInv'
<1> SUFFICES ASSUME NEW S, ScInv, HandlerFails(S) PROVE ScInv' OBVIOUS
<1>1. Types BY DEF ScInv
<1>2. /\ pc = "actor" /\ act.processed < act.budget /\ pending[act.actor] > 0
      /\ pending' = Posted([pending EXCEPT ![act.actor] = @ - 1], S)
      /\ cursor' = [cursor EXCEPT ![sys.domain] = CursorAdvance(act.actor, ActorCount)]
      /\ owed' = owed \ {act.actor} /\ handled' = handled + 1
      /\ dom' = dom /\ act' = act
  BY DEF HandlerFails
<1>3. FailRun("HANDLER_ERROR", dom.processed + act.processed + 1) BY DEF HandlerFails
<1>4. pc' = "idle" /\ result' = "HANDLER_ERROR" BY <1>3 DEF FailRun
<1>5. dom.processed + act.processed + 1 \in Nat BY <1>1, LoopsTyped
<1>6. sys' \in SystemLoops /\ sysCursor' \in Domains BY <1>2, <1>3, <1>5, FailRunTypes
<1>7. pending' \in [Actors -> 0 .. MailboxDepth] BY <1>1, <1>2, OneMessageLess
<1>8. cursor' \in [Domains -> Actors]
  <2>1. CursorAdvance(act.actor, ActorCount) \in Actors
    BY <1>1, CursorRange, LoopsTyped, Shape
  <2> QED BY <1>1, <1>2, <2>1 DEF Types
<1>9. handled' \in Nat /\ owed' \in SUBSET Actors BY <1>1, <1>2 DEF Types
<1>10. Types' BY <1>1, <1>2, <1>4, <1>6, <1>7, <1>8, <1>9 DEF Types
<1> QED BY <1>4, <1>10, NothingAsked

-----------------------------------------------------------------------------
(* The theorems. *)

\* Every step keeps the inductive invariant.
LEMMA ScStep == ScInv /\ [Next]_vars => ScInv'
<1> SUFFICES ASSUME ScInv, [Next]_vars PROVE ScInv' OBVIOUS
<1>1. CASE UNCHANGED vars
  BY <1>1
  DEF vars, ScInv, Types, Counted, TurnsSpent, FullPass, InQuantum, OwedRunnable, 
              OwedDomains, OwedActors, TurnsLeft, QuantumLeft, Quota, DomainsAhead,
              ActorsAhead, Runnable, Members
<1>2. ASSUME NEW a \in Actors, Post(a) PROVE ScInv' BY <1>2, PostKeeps
<1>3. CASE StartRun BY <1>3, StartRunKeeps
<1>4. CASE SelectDomain BY <1>4, SelectDomainKeeps
<1>5. CASE RestartSystemPass BY <1>5, RestartSystemPassKeeps
<1>6. CASE FinishRun BY <1>6, FinishRunKeeps
<1>7. CASE SelectActor BY <1>7, SelectActorKeeps
<1>8. CASE RestartDomainPass BY <1>8, RestartDomainPassKeeps
<1>9. CASE FinishDomain BY <1>9, FinishDomainKeeps
<1>10. CASE FinishActor BY <1>10, FinishActorKeeps
<1>11. ASSUME NEW S \in SUBSET Actors, ProcessOne(S) PROVE ScInv'
  BY <1>11, ProcessOneKeeps
<1>12. ASSUME NEW S \in SUBSET Actors, HandlerFails(S) PROVE ScInv'
  BY <1>12, HandlerFailsKeeps
<1> QED BY <1>1, <1>2, <1>3, <1>4, <1>5, <1>6, <1>7, <1>8, <1>9, <1>10, <1>11, <1>12
        DEF Next, Run

\* The invariant holds of every behaviour.
LEMMA ScAlways == Spec => []ScInv
  BY ScInit, ScStep, PTL DEF Spec

\* The depths of the mailboxes, the cursors and the locals of the three loops
\* keep their types and bounds.
THEOREM SchedulerTypeCorrect == Spec => []TypeOK
<1>1. ScInv => TypeOK
  <2> SUFFICES ASSUME ScInv PROVE TypeOK OBVIOUS
  <2>1. Types BY DEF ScInv
  <2>2. act.processed \in 0 .. act.budget BY <2>1, LoopsTyped
  <2> QED BY <2>1, <2>2, LoopsTyped DEF Types, TypeOK
<1> QED BY <1>1, ScAlways, PTL

\* Which steps end a run, and with what result.
LEMMA ReturningSteps ==
  ASSUME [Next]_vars, Returned
  PROVE  FinishRun \/ FinishDomain \/ \E S : HandlerFails(S)
<1>1. pc # "idle" /\ pc' = "idle" BY DEF Returned
<1>2. ~ UNCHANGED vars BY <1>1 DEF vars
<1>3. ~ StartRun BY <1>1 DEF StartRun
<1>4. ~ SelectDomain BY <1>1 DEF SelectDomain
<1>5. ~ RestartSystemPass BY <1>1 DEF RestartSystemPass
<1>6. ~ SelectActor BY <1>1 DEF SelectActor
<1>7. ~ RestartDomainPass BY <1>1 DEF RestartDomainPass
<1>8. ~ FinishActor BY <1>1 DEF FinishActor
<1>9. \A S : ~ ProcessOne(S) BY <1>1 DEF ProcessOne
<1>10. \A a : ~ Post(a) BY <1>1 DEF Post
<1> QED BY <1>2, <1>3, <1>4, <1>5, <1>6, <1>7, <1>8, <1>9, <1>10 DEF Next, Run

\* An exhausted budget is not taken for success, and no message is lost to the
\* report where an error unwinds three loops.
THEOREM ReportsAreTrue == Spec => ReportTellsTruth
<1>1. ASSUME ScInv, [Next]_vars, Returned
      PROVE  (result' = "OK" => Runnable' = {}) /\ sys'.processed = handled'
  <2>1. Types BY <1>1 DEF ScInv
  <2>2. CASE FinishRun
    <3>1. /\ pc = "sys" /\ sys' = sys /\ handled' = handled /\ pending' = pending
          /\ sys.remaining = 0
               \/ (~sys.progressed
                     /\ ~AnyAt(sys.start, sys.offset, DomainCount, BusyDomains))
      BY <2>2 DEF FinishRun
    <3>2. sys'.processed = handled' BY <1>1, <3>1 DEF ScInv, Counted
    <3>3. Runnable' = Runnable BY <3>1 DEF Runnable
    <3>4. ASSUME result' = "OK", Runnable # {} PROVE FALSE
      <4>1. sys.remaining # 0 BY <2>2, <3>4 DEF FinishRun
      <4>2. /\ ~sys.progressed
            /\ ~AnyAt(sys.start, sys.offset, DomainCount, BusyDomains)
        BY <3>1, <4>1
      <4>3. sys.offset = 0 BY <1>1, <3>1, <4>2 DEF ScInv, FullPass
      <4>4. DomainsAhead = Domains
        <5>1. sys.start \in 0 .. DomainCount - 1 BY <2>1, LoopsTyped
        <5> QED BY <4>3, <5>1, AllAhead, Shape DEF DomainsAhead
      <4>5. BusyDomains \cap DomainsAhead = {} BY <4>2, NobodyAhead DEF DomainsAhead
      <4>6. BusyDomains = {} /\ Runnable = {}
        BY <2>1, <4>4, <4>5, RunnableIsBusy, LoopsTyped, Shape
      <4> QED BY <3>4, <4>6
    <3> QED BY <3>2, <3>3, <3>4
  <2>3. CASE FinishDomain
    <3>1. pc = "dom" /\ handled' = handled BY <2>3 DEF FinishDomain
    <3>2. dom.processed = 0 /\ FailRun("STATE", 0)
      BY <1>1, <2>3 DEF FinishDomain, Returned
    <3>3. sys'.processed = sys.processed + 0 BY <1>1, <3>1, <3>2, FailRunTypes
    <3>4. handled = sys.processed + dom.processed BY <1>1, <3>1 DEF ScInv, Counted
    <3>5. result' = "STATE" BY <3>2 DEF FailRun
    <3>6. sys'.processed = handled' BY <3>1, <3>2, <3>3, <3>4
    <3> QED BY <3>5, <3>6
  <2>4. ASSUME NEW S, HandlerFails(S)
        PROVE  (result' = "OK" => Runnable' = {}) /\ sys'.processed = handled'
    <3>1. /\ pc = "actor" /\ handled' = handled + 1
          /\ FailRun("HANDLER_ERROR", dom.processed + act.processed + 1)
      BY <2>4 DEF HandlerFails
    <3>2. dom.processed \in Nat /\ act.processed \in Nat /\ sys.processed \in Nat
      BY <2>1, LoopsTyped
    <3>3. dom.processed + act.processed + 1 \in Nat BY <3>2
    <3>4. sys'.processed = sys.processed + (dom.processed + act.processed + 1)
      BY <1>1, <3>1, <3>3, FailRunTypes
    <3>5. handled = sys.processed + dom.processed + act.processed
      BY <1>1, <3>1 DEF ScInv, Counted
    <3>6. sys'.processed = handled' BY <3>1, <3>2, <3>4, <3>5
    <3>7. result' = "HANDLER_ERROR" BY <3>1 DEF FailRun
    <3> QED BY <3>6, <3>7
  <2> QED BY <1>1, <2>2, <2>3, <2>4, ReturningSteps
<1>2. ScInv /\ [Next]_vars =>
        [Returned => /\ result' = "OK" => Runnable' = {}
                     /\ sys'.processed = handled']_vars
  BY <1>1
<1> QED BY <1>2, ScAlways, PTL DEF Spec, ReportTellsTruth

\* Whoever had work when the run began had its turn in it, if there is a turn
\* for every domain: the quantum of a domain covers all its members, whatever
\* order the cursors impose and whatever the handlers post.
THEOREM AllAreServed == Spec => EveryoneServed
<1>1. ASSUME ScInv, [Next]_vars, Returned, result' \in {"OK", "PARTIAL"},
             TurnBudget >= Cardinality(BoundDomains)
      PROVE  owed' = {}
  <2>1. Types BY <1>1 DEF ScInv
  <2>2. CASE FinishRun
    <3>1. /\ pc = "sys" /\ owed' = owed
          /\ sys.remaining = 0
               \/ ~AnyAt(sys.start, sys.offset, DomainCount, BusyDomains)
      BY <2>2 DEF FinishRun
    <3>2. SUFFICES ASSUME owed # {} PROVE FALSE BY <3>1
    <3>3. BusyDomains \cap DomainsAhead # {} /\ sys.remaining >= 1
      BY <1>1, <3>1, <3>2, OwedAreAhead
    <3>4. AnyAt(sys.start, sys.offset, DomainCount, BusyDomains)
      BY <3>3, NobodyAhead DEF DomainsAhead
    <3> QED BY <3>1, <3>3, <3>4
  <2>3. CASE FinishDomain
    <3>1. FailRun("STATE", 0) BY <1>1, <2>3 DEF FinishDomain, Returned
    <3> QED BY <1>1, <3>1 DEF FailRun
  <2>4. ASSUME NEW S, HandlerFails(S) PROVE FALSE
    <3>1. FailRun("HANDLER_ERROR", dom.processed + act.processed + 1)
      BY <2>4 DEF HandlerFails
    <3> QED BY <1>1, <3>1 DEF FailRun
  <2> QED BY <1>1, <2>2, <2>3, <2>4, ReturningSteps
<1>2. ScInv /\ [Next]_vars =>
        [Returned /\ result' \in {"OK", "PARTIAL"}
           /\ TurnBudget >= Cardinality(BoundDomains) => owed' = {}]_vars
  BY <1>1
<1> QED BY <1>2, ScAlways, PTL DEF Spec, EveryoneServed

-----------------------------------------------------------------------------
(* How much work a run is. *)

\* The quantum of the domain that has its turn is spent message by message, and
\* every turn that is over took at most q messages.
WorkLeft(q) ==
  /\ pc \in {"dom", "actor"} => dom.processed + dom.remaining = DefaultBudget(sys.domain)
  /\ pc # "idle" => sys.processed <= sys.turns * q
  /\ handled <= TurnBudget * q

\* One turn more is q messages more, and there are TurnBudget turns.
LEMMA WorkOfTurns ==
  ASSUME NEW q \in Nat, NEW t \in Nat, t + 1 <= TurnBudget
  PROVE  /\ (t + 1) * q = t * q + q /\ t * q \in Nat
         /\ t * q + q <= TurnBudget * q
<1>1. TurnBudget \in Nat BY Shape
<1>2. PICK r : r = TurnBudget - (t + 1) OBVIOUS
<1>3. r \in Nat /\ TurnBudget = (t + 1) + r BY <1>1, <1>2
<1>4. r * q \in Nat /\ t * q \in Nat BY <1>3
<1>5. TurnBudget * q = ((t + 1) + r) * q BY <1>3
<1>6. ((t + 1) + r) * q = t * q + q + r * q BY <1>3
<1>7. (t + 1) * q = t * q + q OBVIOUS
<1> QED BY <1>4, <1>5, <1>6, <1>7

\* A message that is handled is one of the quantum's.
LEMMA OneMessageMore ==
  ASSUME ScInv, NEW q \in Nat, \A d \in Domains : DefaultBudget(d) <= q, WorkLeft(q),
         pc = "actor", act.processed < act.budget
  PROVE  handled + 1 <= TurnBudget * q
<1>1. Types BY DEF ScInv
<1>2. /\ act.processed \in Nat /\ act.budget \in Nat /\ sys.processed \in Nat
      /\ dom.processed \in Nat /\ dom.remaining \in Nat /\ sys.domain \in Domains
  BY <1>1, LoopsTyped
<1>3. sys.turns \in 0 .. TurnBudget /\ sys.remaining \in 0 .. TurnBudget
  BY <1>1, LoopsTyped
<1>4. sys.turns + sys.remaining = TurnBudget /\ sys.remaining >= 1
  BY DEF ScInv, TurnsSpent
<1>5. sys.turns \in Nat /\ sys.turns + 1 <= TurnBudget BY <1>3, <1>4, Shape
<1>6. PICK w : w = sys.turns * q OBVIOUS
<1>7. PICK b : b = TurnBudget * q OBVIOUS
<1>8. w \in Nat /\ w + q <= b BY <1>5, <1>6, <1>7, WorkOfTurns
<1>9. dom.processed + dom.remaining <= q BY <1>2 DEF WorkLeft
<1>10. sys.processed <= w BY <1>6 DEF WorkLeft
<1>11. act.budget <= dom.remaining BY DEF ScInv, InQuantum
<1>12. handled = sys.processed + dom.processed + act.processed BY DEF ScInv, Counted
<1>13. TurnBudget * q \in Nat BY Shape
<1>14. handled + 1 <= b BY <1>2, <1>7, <1>8, <1>9, <1>10, <1>11, <1>12, <1>13
<1> QED BY <1>7, <1>14

\* Every step stays within the turns and the quanta.
LEMMA WorkStep ==
  ASSUME ScInv, NEW q \in Nat, \A d \in Domains : DefaultBudget(d) <= q, WorkLeft(q),
         [Next]_vars
  PROVE  WorkLeft(q)'
<1>1. Types BY DEF ScInv
<1>2. TurnBudget * q \in Nat BY Shape
<1>3. CASE UNCHANGED vars BY <1>3 DEF vars, WorkLeft
<1>4. ASSUME NEW a, Post(a) PROVE WorkLeft(q)' BY <1>4 DEF Post, WorkLeft
<1>5. CASE StartRun
  <2>1. pc = "idle" /\ handled' = 0 BY <1>5 DEF StartRun
  <2>2. handled' <= TurnBudget * q BY <1>2, <2>1
  <2>3. pc' = "idle" \/ (pc' = "sys" /\ sys'.processed = 0 /\ sys'.turns = 0)
    BY <1>5, <2>1 DEF StartRun, NoLoop
  <2>4. CASE pc' = "idle" BY <2>2, <2>4 DEF WorkLeft
  <2>5. CASE pc' = "sys" /\ sys'.processed = 0 /\ sys'.turns = 0
    <3>1. sys'.processed <= sys'.turns * q BY <2>5
    <3> QED BY <2>2, <2>5, <3>1 DEF WorkLeft
  <2> QED BY <2>3, <2>4, <2>5
<1>6. CASE SelectDomain
  <2>1. PICK k : k = FirstAt(sys.start, sys.offset, DomainCount, BusyDomains) OBVIOUS
  <2>2. PICK d : d = IndexAt(sys.start, k, DomainCount) OBVIOUS
  <2>3. /\ pc = "sys" /\ pc' = "dom" /\ handled' = handled
        /\ sys' = [sys EXCEPT !.offset = k + 1, !.domain = d]
        /\ dom' = [NoLoop EXCEPT !.start = cursor[d], !.remaining = DefaultBudget(d)]
    BY <1>6, <2>1, <2>2 DEF SelectDomain
  <2>4. /\ sys'.domain = d /\ sys'.processed = sys.processed /\ sys'.turns = sys.turns
    BY <1>1, <2>3 DEF Types, SystemLoops
  <2>5. dom'.processed = 0 /\ dom'.remaining = DefaultBudget(d) BY <2>3 DEF NoLoop
  <2>6. ScInv' BY <1>6, SelectDomainKeeps
  <2>7. dom'.remaining \in Nat BY <2>6 DEF ScInv, Types, DomainLoops
  <2>8. dom'.processed + dom'.remaining = DefaultBudget(d) BY <2>5, <2>7
  <2>9. DefaultBudget(sys'.domain) = DefaultBudget(d) BY <2>4
  <2> QED BY <2>3, <2>4, <2>8, <2>9 DEF WorkLeft, DefaultBudget
<1>7. CASE RestartSystemPass
  <2>1. /\ pc = "sys" /\ pc' = pc /\ handled' = handled
        /\ sys'.processed = sys.processed /\ sys'.turns = sys.turns
    BY <1>1, <1>7 DEF RestartSystemPass, Types, SystemLoops
  <2> QED BY <2>1 DEF WorkLeft
<1>8. CASE FinishRun BY <1>8 DEF FinishRun, WorkLeft
<1>9. CASE SelectActor
  <2>1. /\ pc = "dom" /\ pc' = "actor" /\ handled' = handled /\ sys' = sys
        /\ dom'.processed = dom.processed /\ dom'.remaining = dom.remaining
    BY <1>1, <1>9 DEF SelectActor, Types, DomainLoops
  <2> QED BY <2>1 DEF WorkLeft, DefaultBudget
<1>10. CASE RestartDomainPass
  <2>1. /\ pc = "dom" /\ pc' = pc /\ handled' = handled /\ sys' = sys
        /\ dom'.processed = dom.processed /\ dom'.remaining = dom.remaining
    BY <1>1, <1>10 DEF RestartDomainPass, Types, DomainLoops
  <2> QED BY <2>1 DEF WorkLeft, DefaultBudget
<1>11. CASE FinishDomain
  <2>1. pc = "dom" /\ handled' = handled BY <1>11 DEF FinishDomain
  <2>2. CASE dom.processed = 0
    <3>1. pc' = "idle" BY <1>11, <2>2 DEF FinishDomain, FailRun
    <3> QED BY <2>1, <3>1 DEF WorkLeft
  <2>3. CASE dom.processed # 0
    <3>1. /\ pc' = "sys" /\ sys'.processed = sys.processed + dom.processed
          /\ sys'.turns = sys.turns + 1
      BY <1>1, <1>11, <2>3 DEF FinishDomain, Types, SystemLoops
    <3>2. /\ sys.processed \in Nat /\ dom.processed \in Nat /\ dom.remaining \in Nat
          /\ sys.domain \in Domains /\ sys.turns \in 0 .. TurnBudget
      BY <1>1, LoopsTyped
    <3>3. dom.processed + dom.remaining <= q BY <2>1, <3>2 DEF WorkLeft
    <3>4. sys.turns \in Nat BY <3>2, Shape
    <3>5. PICK w : w = sys.turns * q OBVIOUS
    <3>6. w \in Nat /\ sys.processed <= w BY <2>1, <3>4, <3>5 DEF WorkLeft
    <3>7. (sys.turns + 1) * q = w + q BY <3>4, <3>5
    <3>8. sys.processed + dom.processed <= w + q BY <3>2, <3>3, <3>6
    <3>9. sys'.processed <= sys'.turns * q BY <3>1, <3>7, <3>8
    <3> QED BY <2>1, <3>1, <3>9 DEF WorkLeft
  <2> QED BY <2>2, <2>3
<1>12. CASE FinishActor
  <2>1. /\ pc = "actor" /\ pc' = "dom" /\ handled' = handled /\ sys' = sys
        /\ dom'.processed = dom.processed + act.processed
        /\ dom'.remaining = dom.remaining - act.processed
    BY <1>1, <1>12 DEF FinishActor, Types, DomainLoops
  <2>2. dom.processed \in Nat /\ dom.remaining \in Nat /\ act.processed \in Nat
    BY <1>1, LoopsTyped
  <2>3. dom'.processed + dom'.remaining = dom.processed + dom.remaining BY <2>1, <2>2
  <2> QED BY <2>1, <2>3 DEF WorkLeft, DefaultBudget
<1>13. ASSUME NEW S, ProcessOne(S) PROVE WorkLeft(q)'
  <2>1. /\ pc = "actor" /\ act.processed < act.budget /\ pc' = pc
        /\ handled' = handled + 1 /\ sys' = sys /\ dom' = dom
    BY <1>13 DEF ProcessOne
  <2>2. handled' <= TurnBudget * q BY <2>1, OneMessageMore
  <2> QED BY <2>1, <2>2 DEF WorkLeft, DefaultBudget
<1>14. ASSUME NEW S, HandlerFails(S) PROVE WorkLeft(q)'
  <2>1. /\ pc = "actor" /\ act.processed < act.budget /\ handled' = handled + 1
        /\ pc' = "idle"
    BY <1>14 DEF HandlerFails, FailRun
  <2>2. handled' <= TurnBudget * q BY <2>1, OneMessageMore
  <2> QED BY <2>1, <2>2 DEF WorkLeft
<1> QED BY <1>3, <1>4, <1>5, <1>6, <1>7, <1>8, <1>9, <1>10, <1>11, <1>12, <1>13, <1>14
        DEF Next, Run

\* A run handles no more messages than its turn budget times the largest quantum
\* of a domain, however much the handlers post while it goes on: this is what
\* bounds the time between two looks of the runtime loop at interrupts and clock.
THEOREM RunIsBounded ==
  ASSUME NEW q \in Nat, \A d \in Domains : DefaultBudget(d) <= q
  PROVE  Spec => [](handled <= TurnBudget * q)
<1>1. Init => WorkLeft(q)
  <2>1. TurnBudget * q \in Nat BY Shape
  <2> QED BY <2>1 DEF Init, WorkLeft
<1>2. ScInv /\ WorkLeft(q) /\ [Next]_vars => WorkLeft(q)' BY WorkStep
<1>3. WorkLeft(q) => handled <= TurnBudget * q BY DEF WorkLeft
<1> QED BY <1>1, <1>2, <1>3, ScAlways, PTL DEF Spec

=============================================================================
