--------------------------- MODULE MainLoopProofs ---------------------------
(* Proofs about the main task's loop and the network link: for every set of  *)
(* GPIO lines, every capacity and budget, and every reconnection window.     *)
EXTENDS MainLoop, SequenceTheorems, TLAPS

-----------------------------------------------------------------------------
(* The main task's loop: the inductive invariant. *)

Reports == [irq : 0 .. MaxSamples, net : 0 .. MaxSamples, pumps : 0 .. MaxTurns,
            turns : Nat, messages : Nat, exhausted : BOOLEAN,
            result : {"OK", "PARTIAL"}]

Points == {"irq", "net", "drain", "clock", "timers", "after", "finish",
           "wait", "blocked", "restart"}

\* LoopTypeOK, the ring apart from the rest.
RingTypes ==
  /\ ring \in Seq(SUBSET Lines) /\ Len(ring) <= IrqCapacity
  /\ decode \subseteq Lines /\ sem \in {0, 1}

\* d deadlines of each timer have passed, e of them when the loop looked, and
\* the timers r were refused.
DueTypes(d, e, r) ==
  /\ d \in [Timers -> Nat] /\ e \in [Timers -> Nat] /\ r \subseteq Timers
  /\ \A t \in Timers : d[t] <= MaxDue[t] /\ e[t] <= d[t]

CountTypes ==
  /\ net \in 0 .. NetCapacity /\ queue \in 0 .. QueueCapacity
  /\ DueTypes(due, seen, refused)
  /\ pc \in Points

\* A budget that is used up is noted at once.
SpentIsNoted == BudgetSpent(report) => report.exhausted

\* Where the poll ends it has spent its budget, or drained the mailboxes and
\* served every deadline it had seen but those of timers refused last.
EndIsEarned ==
  pc = "finish" => report.exhausted \/ (queue = 0 /\ Late \subseteq refused)

LoopInv ==
  /\ RingTypes /\ CountTypes /\ report \in Reports
  /\ SpentIsNoted /\ EndIsEarned /\ NoMissedWakeup /\ OkMeansDone

\* The sizes of the rings and queues, and the budgets.
LEMMA LoopSizes ==
  /\ IrqCapacity \in Nat /\ IrqCapacity > 0 /\ NetCapacity \in Nat /\ NetCapacity > 0
  /\ QueueCapacity \in Nat /\ QueueCapacity > 0 /\ MaxDue \in [Timers -> Nat]
  /\ MaxSamples \in Nat /\ MaxSamples > 0 /\ MaxTurns \in Nat /\ MaxTurns > 0
  /\ MaxMessages \in Nat /\ MaxMessages > 0 /\ TurnBudget \in Nat /\ TurnMessages \in Nat
  BY RuntimeLoopAssumption

\* Noting that the budget is spent changes nothing else in a report.
LEMMA NoteType ==
  ASSUME NEW r \in Reports
  PROVE  /\ Note(r) \in Reports
         /\ Note(r).exhausted = (r.exhausted \/ BudgetSpent(r))
         /\ Note(r).irq = r.irq /\ Note(r).net = r.net /\ Note(r).pumps = r.pumps
         /\ Note(r).turns = r.turns /\ Note(r).messages = r.messages
         /\ BudgetSpent(Note(r)) => Note(r).exhausted
<1>1. (r.exhausted \/ BudgetSpent(r)) \in BOOLEAN
  OBVIOUS
<1>2. Note(r) \in Reports
  BY <1>1 DEF Note, Reports
<1>3. Note(r).exhausted = (r.exhausted \/ BudgetSpent(r))
  BY DEF Note, Reports
<1>4. /\ Note(r).irq = r.irq /\ Note(r).net = r.net /\ Note(r).pumps = r.pumps
      /\ Note(r).turns = r.turns /\ Note(r).messages = r.messages
  BY DEF Note, Reports
<1>5. BudgetSpent(Note(r)) <=> BudgetSpent(r)
  BY <1>4 DEF BudgetSpent
<1> QED BY <1>2, <1>3, <1>4, <1>5

\* One more sample, or one more call of the scheduler, of a report with room.
LEMMA CountedType ==
  ASSUME NEW r \in Reports
  PROVE  /\ r.irq < MaxSamples => [r EXCEPT !.irq = @ + 1] \in Reports
         /\ r.net < MaxSamples => [r EXCEPT !.net = @ + 1] \in Reports
         /\ r.pumps < MaxTurns =>
              \A turns, messages \in Nat :
                [r EXCEPT !.pumps = @ + 1, !.turns = @ + turns,
                          !.messages = @ + messages] \in Reports
<1>1. ASSUME r.irq < MaxSamples PROVE [r EXCEPT !.irq = @ + 1] \in Reports
  <2>1. r.irq + 1 \in 0 .. MaxSamples BY <1>1, LoopSizes DEF Reports
  <2> QED BY <2>1 DEF Reports
<1>2. ASSUME r.net < MaxSamples PROVE [r EXCEPT !.net = @ + 1] \in Reports
  <2>1. r.net + 1 \in 0 .. MaxSamples BY <1>2, LoopSizes DEF Reports
  <2> QED BY <2>1 DEF Reports
<1>3. ASSUME r.pumps < MaxTurns, NEW turns \in Nat, NEW messages \in Nat
      PROVE  [r EXCEPT !.pumps = @ + 1, !.turns = @ + turns,
                       !.messages = @ + messages] \in Reports
  <2>1. /\ r.pumps + 1 \in 0 .. MaxTurns /\ r.turns + turns \in Nat
        /\ r.messages + messages \in Nat
    BY <1>3, LoopSizes DEF Reports
  <2> QED BY <2>1 DEF Reports
<1> QED BY <1>1, <1>2, <1>3

\* An empty report has used nothing of the budget.
LEMMA NoReportType ==
  NoReport \in Reports /\ ~BudgetSpent(NoReport) /\ ~NoReport.exhausted
<1>1. NoReport \in Reports BY LoopSizes DEF NoReport, Reports
<1>2. ~BudgetSpent(NoReport) BY LoopSizes DEF NoReport, BudgetSpent
<1>3. ~NoReport.exhausted BY DEF NoReport
<1> QED BY <1>1, <1>2, <1>3

\* No timer is late, and none was refused, when the deadlines are forgotten.
LEMMA NoneDueIs ==
  /\ NoneDue \in [Timers -> Nat] /\ \A t \in Timers : NoneDue[t] <= MaxDue[t]
  /\ \A d \in [Timers -> Nat], r \in SUBSET Timers :
       (\A t \in Timers : d[t] <= MaxDue[t]) => DueTypes(d, NoneDue, r)
  BY LoopSizes DEF NoneDue, DueTypes

\* The task is out of reset with empty rings and queues.
LEMMA LoopInitInv == LoopInit => LoopInv
<1> SUFFICES ASSUME LoopInit PROVE LoopInv
  OBVIOUS
<1>1. RingTypes BY LoopSizes DEF LoopInit, RingTypes
<1>2. CountTypes BY LoopSizes, NoneDueIs DEF LoopInit, CountTypes, Points
<1>3. report \in Reports /\ SpentIsNoted
  BY NoReportType DEF LoopInit, SpentIsNoted
<1>4. EndIsEarned /\ NoMissedWakeup /\ OkMeansDone
  BY DEF LoopInit, EndIsEarned, NoMissedWakeup, OkMeansDone
<1> QED BY <1>1, <1>2, <1>3, <1>4 DEF LoopInv

\* The interrupt gives the semaphore with every sample it stores, so a task
\* that is blocked on it wakes; the callbacks and the clock only count up.
LEMMA AroundLoopInv == LoopInv /\ (Isr \/ NetCallback \/ Clock) => LoopInv'
<1> SUFFICES ASSUME LoopInv, Isr \/ NetCallback \/ Clock PROVE LoopInv'
  OBVIOUS
<1> USE DEF LoopInv, irq
<1>1. CASE Isr
  <2>1. PICK status \in SUBSET Lines \ {{}} :
          IF Len(ring) < IrqCapacity
            THEN ring' = Append(ring, status) /\ sem' = 1
            ELSE UNCHANGED <<ring, sem>>
    BY <1>1 DEF Isr
  <2>2. RingTypes' BY <1>1, <2>1, LoopSizes DEF Isr, RingTypes
  <2>3. CountTypes' BY <1>1 DEF Isr, CountTypes
  <2>4. report' \in Reports /\ SpentIsNoted' BY <1>1 DEF Isr, SpentIsNoted
  <2>5. EndIsEarned' /\ OkMeansDone' BY <1>1 DEF Isr, EndIsEarned, OkMeansDone, Late
  <2>6. NoMissedWakeup' BY <1>1, <2>1 DEF Isr, NoMissedWakeup, IrqPending
  <2> QED BY <2>2, <2>3, <2>4, <2>5, <2>6
<1>2. CASE NetCallback
  <2>1. RingTypes' BY <1>2 DEF NetCallback, RingTypes
  <2>2. CountTypes' BY <1>2, LoopSizes DEF NetCallback, CountTypes
  <2>3. report' \in Reports /\ SpentIsNoted' BY <1>2 DEF NetCallback, SpentIsNoted
  <2>4. EndIsEarned' /\ OkMeansDone'
    BY <1>2 DEF NetCallback, EndIsEarned, OkMeansDone, Late
  <2>5. NoMissedWakeup' BY <1>2 DEF NetCallback, NoMissedWakeup, IrqPending
  <2> QED BY <2>1, <2>2, <2>3, <2>4, <2>5
<1>3. CASE Clock
  <2>1. RingTypes' BY <1>3 DEF Clock, RingTypes
  <2>2. CountTypes'
    <3>1. PICK t \in Timers : due[t] < MaxDue[t] /\ due' = [due EXCEPT ![t] = @ + 1]
      BY <1>3 DEF Clock
    <3>2. PICK d, e, f : d = due /\ e = seen /\ f = due' OBVIOUS
    <3>3. /\ d \in [Timers -> Nat] /\ e \in [Timers -> Nat] /\ refused \subseteq Timers
          /\ \A s \in Timers : d[s] <= MaxDue[s] /\ e[s] <= d[s]
      BY <3>2 DEF CountTypes, DueTypes
    <3>4. f = [d EXCEPT ![t] = @ + 1] /\ d[t] < MaxDue[t] BY <3>1, <3>2
    <3>5. f \in [Timers -> Nat] BY <3>3, <3>4
    <3>6. ASSUME NEW s \in Timers PROVE f[s] <= MaxDue[s] /\ e[s] <= f[s]
      <4>1. d[s] \in Nat /\ e[s] \in Nat /\ MaxDue[s] \in Nat BY <3>3, LoopSizes
      <4>2. f[s] = IF s = t THEN d[s] + 1 ELSE d[s] BY <3>3, <3>4
      <4>3. d[s] <= MaxDue[s] /\ e[s] <= d[s] BY <3>3
      <4>4. s = t => d[s] < MaxDue[s] BY <3>4
      <4> QED BY <4>1, <4>2, <4>3, <4>4
    <3>7. DueTypes(due, seen, refused)'
      BY <1>3, <3>2, <3>3, <3>5, <3>6 DEF Clock, DueTypes
    <3> QED BY <1>3, <3>7 DEF Clock, CountTypes
  <2>3. report' \in Reports /\ SpentIsNoted' BY <1>3 DEF Clock, SpentIsNoted
  <2>4. EndIsEarned' /\ OkMeansDone' BY <1>3 DEF Clock, EndIsEarned, OkMeansDone, Late
  <2>5. NoMissedWakeup' BY <1>3 DEF Clock, NoMissedWakeup, IrqPending
  <2> QED BY <2>1, <2>2, <2>3, <2>4, <2>5
<1> QED BY <1>1, <1>2, <1>3

\* A poll's step away from its end touches neither half of OkMeansDone and
\* does not block.
LEMMA NotAtTheEnd ==
  ASSUME pc' \notin {"finish", "wait", "blocked"}
  PROVE  EndIsEarned' /\ NoMissedWakeup' /\ OkMeansDone'
  BY DEF EndIsEarned, NoMissedWakeup, OkMeansDone

\* One IRQ sample decoded and published.
LEMMA CollectIrqInv == LoopInv /\ CollectIrq => LoopInv'
<1> SUFFICES ASSUME LoopInv, CollectIrq PROVE LoopInv'
  OBVIOUS
<1> USE DEF LoopInv, CollectIrq
<1> DEFINE r == [report EXCEPT !.irq = @ + 1]
<1>1. RingTypes'
  <2>1. CASE decode # {} BY <2>1 DEF Sample, RingTypes
  <2>2. CASE decode = {}
    <3>1. ring # << >> BY <2>2 DEF IrqPending
    <3>2. Head(ring) \subseteq Lines /\ Tail(ring) \in Seq(SUBSET Lines)
          /\ Len(Tail(ring)) = Len(ring) - 1
      BY <3>1 DEF RingTypes
    <3>3. ring' = Tail(ring) /\ decode' \subseteq Lines
      BY <2>2, <3>2 DEF Sample
    <3> QED BY <3>2, <3>3, LoopSizes DEF RingTypes
  <2> QED BY <2>1, <2>2
<1>2. CountTypes'
  BY LoopSizes DEF CountTypes, Publish, Points
<1>3. r \in Reports
  BY CountedType DEF IrqOpen
<1>4. report' \in Reports /\ SpentIsNoted'
  BY <1>3, NoteType DEF SpentIsNoted
<1>5. pc' \notin {"finish", "wait", "blocked"}
  BY DEF Publish
<1> QED BY <1>1, <1>2, <1>4, <1>5, NotAtTheEnd

\* One network event taken off its ring and published.
LEMMA CollectNetInv == LoopInv /\ CollectNet => LoopInv'
<1> SUFFICES ASSUME LoopInv, CollectNet PROVE LoopInv'
  OBVIOUS
<1> USE DEF LoopInv, CollectNet
<1> DEFINE r == [report EXCEPT !.net = @ + 1]
<1>1. RingTypes' BY DEF RingTypes, irq
<1>2. CountTypes'
  BY LoopSizes DEF CountTypes, Publish, Points
<1>3. r \in Reports
  BY CountedType DEF NetOpen
<1>4. report' \in Reports /\ SpentIsNoted'
  BY <1>3, NoteType DEF SpentIsNoted
<1>5. pc' \notin {"finish", "wait", "blocked"}
  BY DEF Publish
<1> QED BY <1>1, <1>2, <1>4, <1>5, NotAtTheEnd

\* The ends of the two collections, of the drain between them and the timers,
\* and the reading of the clock.
LEMMA BetweenInv == LoopInv /\ (EndIrq \/ EndNet \/ EndDrain \/ ReadClock) => LoopInv'
<1> SUFFICES ASSUME LoopInv, EndIrq \/ EndNet \/ EndDrain \/ ReadClock PROVE LoopInv'
  OBVIOUS
<1> USE DEF LoopInv, irq
<1>1. CASE EndIrq
  <2>1. RingTypes' /\ CountTypes' BY <1>1 DEF EndIrq, RingTypes, CountTypes, Points
  <2>2. report' \in Reports /\ SpentIsNoted' BY <1>1 DEF EndIrq, SpentIsNoted
  <2> QED BY <1>1, <2>1, <2>2, NotAtTheEnd DEF EndIrq
<1>2. CASE EndNet
  <2>1. RingTypes' /\ CountTypes' BY <1>2 DEF EndNet, RingTypes, CountTypes, Points
  <2>2. report' \in Reports /\ SpentIsNoted'
    BY <1>2, NoteType DEF EndNet, SpentIsNoted
  <2> QED BY <1>2, <2>1, <2>2, NotAtTheEnd DEF EndNet
<1>3. CASE EndDrain
  <2>1. RingTypes' /\ CountTypes' BY <1>3 DEF EndDrain, RingTypes, CountTypes, Points
  <2>2. report' \in Reports /\ SpentIsNoted' BY <1>3 DEF EndDrain, SpentIsNoted
  <2>3. EndIsEarned' BY <1>3 DEF EndDrain, EndIsEarned
  <2>4. NoMissedWakeup' /\ OkMeansDone'
    BY <1>3 DEF EndDrain, NoMissedWakeup, OkMeansDone
  <2> QED BY <2>1, <2>2, <2>3, <2>4
<1>4. CASE ReadClock
  <2>1. RingTypes' BY <1>4 DEF ReadClock, RingTypes
  <2>2. DueTypes(due, seen, refused)'
    <3>1. due \in [Timers -> Nat] /\ DueTypes(due, due, refused)
      <4>1. DueTypes(due, seen, refused) BY DEF CountTypes
      <4> QED BY <4>1 DEF DueTypes
    <3> QED BY <1>4, <3>1 DEF ReadClock
  <2>3. CountTypes' BY <1>4, <2>2 DEF ReadClock, CountTypes, Points
  <2>4. report' \in Reports /\ SpentIsNoted' BY <1>4 DEF ReadClock, SpentIsNoted
  <2> QED BY <1>4, <2>1, <2>4, <2>3, NotAtTheEnd DEF ReadClock
<1> QED BY <1>1, <1>2, <1>3, <1>4

\* A call of the scheduler is made within the budget, so its count fits.
LEMMA PumpInv == LoopInv /\ (DrainAfterCollect \/ DrainAfterTimer) => LoopInv'
<1> SUFFICES ASSUME LoopInv, NEW next \in {"drain", "after"}, PumpOnce(next)
             PROVE  LoopInv'
  BY DEF DrainAfterCollect, DrainAfterTimer
<1> USE DEF LoopInv
<1>1. PICK turns \in 1 .. TurnBudget, messages \in Int :
        /\ messages >= turns
        /\ report' = Note([report EXCEPT !.pumps = @ + 1, !.turns = @ + turns,
                                         !.messages = @ + messages])
        /\ \/ queue' \in 0 .. QueueCapacity /\ pc' = next
           \/ queue' = queue /\ pc' = "restart"
  <2>1. PICK turns \in 1 .. TurnBudget : \E messages \in turns .. turns * TurnMessages :
         /\ report' = Note([report EXCEPT !.pumps = @ + 1, !.turns = @ + turns,
                                          !.messages = @ + messages])
         /\ \/ turns = TurnBudget /\ queue' \in 0 .. QueueCapacity /\ pc' = next
            \/ queue' = 0 /\ pc' = next
            \/ queue' = queue /\ pc' = "restart"
    BY DEF PumpOnce
  <2>2. turns \in Nat /\ turns * TurnMessages \in Int BY LoopSizes
  <2>3. PICK messages \in turns .. turns * TurnMessages :
         /\ report' = Note([report EXCEPT !.pumps = @ + 1, !.turns = @ + turns,
                                          !.messages = @ + messages])
         /\ \/ turns = TurnBudget /\ queue' \in 0 .. QueueCapacity /\ pc' = next
            \/ queue' = 0 /\ pc' = next
            \/ queue' = queue /\ pc' = "restart"
    BY <2>1
  <2>4. messages \in Int /\ messages >= turns BY <2>2
  <2>5. queue' = 0 => queue' \in 0 .. QueueCapacity BY LoopSizes
  <2> QED BY <2>3, <2>4, <2>5
<1> DEFINE r == [report EXCEPT !.pumps = @ + 1, !.turns = @ + turns,
                               !.messages = @ + messages]
<1>2. RingTypes' BY DEF PumpOnce, RingTypes, irq
<1>3. CountTypes' BY <1>1 DEF PumpOnce, CountTypes, Points
<1>4. report.pumps < MaxTurns /\ report.pumps \in Nat
  BY LoopSizes DEF PumpOnce, SpentIsNoted, BudgetSpent, Reports
<1>5. turns \in Nat /\ messages \in Nat BY <1>1, LoopSizes
<1>6. r \in Reports BY <1>4, <1>5, CountedType
<1>7. report' \in Reports /\ SpentIsNoted' BY <1>1, <1>6, NoteType DEF SpentIsNoted
<1>8. pc' \notin {"finish", "wait", "blocked"} BY <1>1
<1> QED BY <1>2, <1>3, <1>7, <1>8, NotAtTheEnd

\* A call for the timers serves one deadline of each it visits, all of them
\* late ones.
LEMMA VisitIs ==
  ASSUME DueTypes(due, seen, refused), NEW visited \in SUBSET Late, Visit(visited),
         refused' \subseteq visited
  PROVE  DueTypes(due, seen, refused)'
<1>1. PICK d, e, f, g : d = due /\ e = seen /\ f = due' /\ g = seen' OBVIOUS
<1>2. /\ d \in [Timers -> Nat] /\ e \in [Timers -> Nat]
      /\ \A t \in Timers : d[t] <= MaxDue[t] /\ e[t] <= d[t]
  BY <1>1 DEF DueTypes
<1>3. visited \subseteq Timers /\ \A t \in visited : e[t] > 0 BY <1>1 DEF Late
<1>4. /\ f = [t \in Timers |-> IF t \in visited THEN d[t] - 1 ELSE d[t]]
      /\ g = [t \in Timers |-> IF t \in visited THEN e[t] - 1 ELSE e[t]]
  BY <1>1 DEF Visit, Passed
<1>5. ASSUME NEW t \in Timers
      PROVE  f[t] \in Nat /\ g[t] \in Nat /\ f[t] <= MaxDue[t] /\ g[t] <= f[t]
  <2>1. d[t] \in Nat /\ e[t] \in Nat /\ MaxDue[t] \in Nat BY <1>2, LoopSizes
  <2>2. d[t] <= MaxDue[t] /\ e[t] <= d[t] BY <1>2
  <2>3. CASE t \in visited
    <3>1. f[t] = d[t] - 1 /\ g[t] = e[t] - 1 /\ e[t] > 0 BY <1>3, <1>4, <2>3
    <3> QED BY <2>1, <2>2, <3>1
  <2>4. CASE t \notin visited
    <3>1. f[t] = d[t] /\ g[t] = e[t] BY <1>4, <2>4
    <3> QED BY <2>1, <2>2, <3>1
  <2> QED BY <2>3, <2>4
<1>6. f \in [Timers -> Nat] /\ g \in [Timers -> Nat] BY <1>4, <1>5
<1>7. refused' \subseteq Timers BY <1>3
<1> QED BY <1>1, <1>5, <1>6, <1>7 DEF DueTypes

\* ev_runtime_graph_publish_due_timers: the poll ends here only when every
\* timer that is still late was refused.
LEMMA TimersInv == LoopInv /\ (ServeTimers \/ EndAfter) => LoopInv'
<1> SUFFICES ASSUME LoopInv, ServeTimers \/ EndAfter PROVE LoopInv'
  OBVIOUS
<1> USE DEF LoopInv, irq
<1>1. CASE ServeTimers
  <2>1. /\ queue = 0 /\ DueTypes(due, seen, refused)
        /\ UNCHANGED <<ring, decode, sem, net, report>>
    BY <1>1 DEF ServeTimers, CountTypes
  <2>2. RingTypes' BY <2>1 DEF RingTypes
  <2>3. report' \in Reports /\ SpentIsNoted' BY <2>1 DEF SpentIsNoted
  <2>4. CASE /\ Visit(Late) /\ refused' = Late /\ queue' = queue
             /\ pc' = "finish"
    <3>1. DueTypes(due, seen, refused)' BY <2>1, <2>4, VisitIs
    <3>2. CountTypes' BY <2>1, <2>4, <3>1 DEF CountTypes, Points
    <3>3. Late' \subseteq Late
      <4>1. ASSUME NEW t \in Timers, seen'[t] > 0 PROVE seen[t] > 0
        <5>1. PICK e, g, l : e = seen /\ g = seen' /\ l = Late OBVIOUS
        <5>2. g = [x \in Timers |-> IF x \in l THEN e[x] - 1 ELSE e[x]]
          BY <2>4, <5>1 DEF Visit, Passed
        <5>3. g[t] = IF t \in l THEN e[t] - 1 ELSE e[t] BY <5>2
        <5>4. e[t] \in Nat BY <2>1, <5>1 DEF DueTypes
        <5> QED BY <4>1, <5>1, <5>3, <5>4
      <4> QED BY <4>1 DEF Late
    <3>4. EndIsEarned' BY <2>1, <2>4, <3>3 DEF EndIsEarned
    <3>5. NoMissedWakeup' /\ OkMeansDone' BY <2>4 DEF NoMissedWakeup, OkMeansDone
    <3> QED BY <2>2, <2>3, <3>2, <3>4, <3>5
  <2>5. ASSUME NEW t \in Late, Visit({s \in Late : s <= t}),
               refused' = {s \in Late : s < t}, queue' = queue + 1, pc' = "after"
        PROVE  LoopInv'
    <3>1. PICK visited : visited = {s \in Late : s <= t} OBVIOUS
    <3>2. \A s \in Late : s \in Int BY RuntimeLoopAssumption DEF Late
    <3>3. refused' \subseteq visited
      <4>1. \A s \in Late : s < t => s <= t BY <3>2
      <4> QED BY <2>5, <3>1, <4>1
    <3>4. visited \in SUBSET Late /\ Visit(visited) BY <2>5, <3>1
    <3>5. DueTypes(due, seen, refused)' BY <2>1, <3>3, <3>4, VisitIs
    <3>6. queue' \in 0 .. QueueCapacity BY <2>1, <2>5, LoopSizes
    <3>7. CountTypes' BY <2>1, <2>5, <3>5, <3>6 DEF CountTypes, Points
    <3>8. EndIsEarned' /\ NoMissedWakeup' /\ OkMeansDone'
      BY <2>5 DEF EndIsEarned, NoMissedWakeup, OkMeansDone
    <3> QED BY <2>2, <2>3, <3>7, <3>8
  <2>6. \/ Visit(Late) /\ refused' = Late /\ queue' = queue /\ pc' = "finish"
        \/ \E t \in Late :
             /\ Visit({s \in Late : s <= t}) /\ refused' = {s \in Late : s < t}
             /\ queue' = queue + 1 /\ pc' = "after"
    BY <1>1 DEF ServeTimers
  <2> QED BY <2>4, <2>5, <2>6
<1>2. CASE EndAfter
  <2>1. RingTypes' /\ CountTypes' BY <1>2 DEF EndAfter, RingTypes, CountTypes, Points
  <2>2. report' \in Reports /\ SpentIsNoted' BY <1>2 DEF EndAfter, SpentIsNoted
  <2>3. EndIsEarned' BY <1>2 DEF EndAfter, EndIsEarned
  <2>4. NoMissedWakeup' /\ OkMeansDone'
    BY <1>2 DEF EndAfter, NoMissedWakeup, OkMeansDone
  <2> QED BY <2>1, <2>2, <2>3, <2>4
<1> QED BY <1>1, <1>2

\* The last question of the poll: EV_OK with messages left needs a budget
\* that was not spent, and then nothing is left.
LEMMA FinishInv == LoopInv /\ Finish => LoopInv'
<1> SUFFICES ASSUME LoopInv, Finish PROVE LoopInv'
  OBVIOUS
<1> USE DEF LoopInv, Finish
<1> DEFINE result == IF report.exhausted /\ (queue > 0 \/ WorkPending)
                       THEN "PARTIAL" ELSE "OK"
           r == [NoReport EXCEPT !.exhausted = report.exhausted, !.result = result]
<1>1. RingTypes' BY DEF RingTypes
<1>2. CountTypes' BY DEF CountTypes, Points
<1>3. report.exhausted \in BOOLEAN BY DEF Reports
<1>4. r \in Reports
  <2>1. result \in {"OK", "PARTIAL"} OBVIOUS
  <2> HIDE DEF result
  <2> QED BY <1>3, <2>1, NoReportType DEF Reports
<1>5. r.exhausted = report.exhausted /\ r.result = result BY DEF NoReport
<1>6. ~BudgetSpent(r) BY LoopSizes DEF NoReport, BudgetSpent
<1>7. report' = r OBVIOUS
<1> HIDE DEF r
<1>8. report' \in Reports /\ SpentIsNoted' BY <1>4, <1>6, <1>7 DEF SpentIsNoted
<1>9. EndIsEarned' /\ NoMissedWakeup' BY DEF EndIsEarned, NoMissedWakeup
<1>10. OkMeansDone'
  <2>1. queue \in Nat BY LoopSizes DEF CountTypes
  <2>2. result = "OK" => queue = 0 /\ (report.exhausted \/ Late \subseteq refused)
    BY <2>1 DEF EndIsEarned
  <2> QED BY <1>5, <1>7, <2>2 DEF OkMeansDone, Late
<1> QED BY <1>1, <1>2, <1>8, <1>9, <1>10

\* A poll begins, after a wait or without one.
LEMMA StartPollInv ==
  ASSUME LoopInv, StartPoll, RingTypes', net' \in 0 .. NetCapacity,
         queue' \in 0 .. QueueCapacity,
         due' \in [Timers -> Nat], \A t \in Timers : due'[t] <= MaxDue[t]
  PROVE  LoopInv'
<1>1. DueTypes(due, seen, refused)' BY NoneDueIs DEF StartPoll
<1>2. CountTypes' BY <1>1, LoopSizes DEF StartPoll, CountTypes, Points
<1>3. report' \in Reports /\ SpentIsNoted'
  BY NoReportType DEF StartPoll, SpentIsNoted
<1>4. pc' \notin {"finish", "wait", "blocked"} BY DEF StartPoll
<1> QED BY <1>2, <1>3, <1>4, NotAtTheEnd DEF LoopInv

\* Waiting: the ring was empty when the task blocked.
LEMMA WaitInv ==
  LoopInv /\ (NoWait \/ Block \/ Wake \/ Timeout \/ Restart) => LoopInv'
<1> SUFFICES ASSUME LoopInv, NoWait \/ Block \/ Wake \/ Timeout \/ Restart
             PROVE  LoopInv'
  OBVIOUS
<1>1. CASE NoWait
  BY <1>1, StartPollInv DEF NoWait, LoopInv, RingTypes, CountTypes, DueTypes, irq
<1>2. CASE Block
  <2>1. RingTypes' /\ CountTypes'
    BY <1>2 DEF Block, LoopInv, RingTypes, CountTypes, Points, irq
  <2>2. report' \in Reports /\ SpentIsNoted' BY <1>2 DEF Block, LoopInv, SpentIsNoted
  <2>3. EndIsEarned' /\ OkMeansDone' BY <1>2 DEF Block, EndIsEarned, OkMeansDone, Late
  <2>4. NoMissedWakeup' BY <1>2 DEF Block, NoMissedWakeup, IrqPending, irq
  <2> QED BY <2>1, <2>2, <2>3, <2>4 DEF LoopInv
<1>3. CASE Wake
  BY <1>3, StartPollInv DEF Wake, LoopInv, RingTypes, CountTypes, DueTypes
<1>4. CASE Timeout
  BY <1>4, StartPollInv DEF Timeout, LoopInv, RingTypes, CountTypes, DueTypes, irq
<1>5. CASE Restart
  <2>1. RingTypes' BY <1>5, LoopSizes DEF Restart, RingTypes
  <2>2. /\ net' \in 0 .. NetCapacity /\ queue' \in 0 .. QueueCapacity
        /\ due' \in [Timers -> Nat] /\ \A t \in Timers : due'[t] <= MaxDue[t]
    BY <1>5, LoopSizes, NoneDueIs DEF Restart
  <2> QED BY <1>5, <2>1, <2>2, StartPollInv DEF Restart
<1> QED BY <1>1, <1>2, <1>3, <1>4, <1>5

\* Every step of the loop, and a stuttering one, keeps the invariant.
LEMMA LoopNextInv == LoopInv /\ [LoopNext]_loopVars => LoopInv'
<1> SUFFICES ASSUME LoopInv, [LoopNext]_loopVars PROVE LoopInv'
  OBVIOUS
<1>1. CASE LoopNext
  BY <1>1, AroundLoopInv, CollectIrqInv, CollectNetInv, BetweenInv, PumpInv, TimersInv,
     FinishInv, WaitInv
  DEF LoopNext, Main, Poll
<1>2. CASE UNCHANGED loopVars
  BY <1>2 DEF loopVars, irq, LoopInv, RingTypes, CountTypes, SpentIsNoted, EndIsEarned,
              NoMissedWakeup, OkMeansDone, IrqPending, Late
<1> QED BY <1>1, <1>2

-----------------------------------------------------------------------------
(* The main task's loop: the theorems. *)

\* The loop's invariant holds in every state of every behaviour.
THEOREM LoopInvHolds == LoopSpec => []LoopInv
  BY LoopInitInv, LoopNextInv, PTL DEF LoopSpec

\* The rings and queues stay within their capacities and the report within
\* the budgets of ev_runtime_loop_poll_once.
THEOREM LoopTypeCorrect == LoopSpec => []LoopTypeOK
<1>1. LoopInv => LoopTypeOK
  BY DEF LoopInv, RingTypes, CountTypes, DueTypes, Reports, Points, LoopTypeOK
<1> QED BY <1>1, LoopInvHolds, PTL

\* ev_esp8266_irq_wait never blocks on a semaphore that is not given while a
\* sample waits, however the interrupt falls between its two looks.
THEOREM NoWakeupIsMissed == LoopSpec => []NoMissedWakeup
<1>1. LoopInv => NoMissedWakeup BY DEF LoopInv
<1> QED BY <1>1, LoopInvHolds, PTL

\* A poll that reports EV_OK has left no message, and unless it ran out of
\* budget no deadline it had seen but of timers its last call was refused by,
\* for every budget and every set of timers.
THEOREM OkPollIsDone == LoopSpec => []OkMeansDone
<1>1. LoopInv => OkMeansDone BY DEF LoopInv
<1> QED BY <1>1, LoopInvHolds, PTL

-----------------------------------------------------------------------------
(* The network link: what the events on their way will tell the actor. *)

\* With the events s still to come, a condition of the actor holds in the
\* end: it holds already (ok), or an event of up brings it about, and no event
\* of down comes after.
Heard(ok, s, up, down) ==
  \/ ok /\ \A j \in 1 .. Len(s) : s[j] \notin down
  \/ \E i \in 1 .. Len(s) :
       s[i] \in up /\ \A j \in i + 1 .. Len(s) : s[j] \notin down

\* Another event that is not of down, or one of up, at the end of the ring.
LEMMA HeardAppend ==
  ASSUME NEW s \in Seq(Events), NEW e \in Events, NEW ok, NEW up, NEW down,
         e \notin down, e \in up \/ Heard(ok, s, up, down)
  PROVE  Heard(ok, Append(s, e), up, down)
<1> DEFINE t == Append(s, e)
<1>1. /\ Len(s) \in Nat /\ Len(t) = Len(s) + 1 /\ t[Len(s) + 1] = e
      /\ \A i \in 1 .. Len(s) : t[i] = s[i]
  OBVIOUS
<1> HIDE DEF t
<1>2. CASE e \in up
  <2>1. Len(t) \in 1 .. Len(t) /\ t[Len(t)] \in up BY <1>1, <1>2
  <2>2. \A j \in Len(t) + 1 .. Len(t) : t[j] \notin down BY <1>1
  <2>3. Heard(ok, t, up, down) BY <2>1, <2>2 DEF Heard
  <2> QED BY <2>3 DEF t
<1>3. CASE ok /\ \A j \in 1 .. Len(s) : s[j] \notin down
  <2>1. \A j \in 1 .. Len(t) : t[j] \notin down BY <1>1, <1>3
  <2>2. Heard(ok, t, up, down) BY <1>3, <2>1 DEF Heard
  <2> QED BY <2>2 DEF t
<1>4. CASE \E i \in 1 .. Len(s) :
             s[i] \in up /\ \A j \in i + 1 .. Len(s) : s[j] \notin down
  <2>1. PICK i \in 1 .. Len(s) :
          s[i] \in up /\ \A j \in i + 1 .. Len(s) : s[j] \notin down
    BY <1>4
  <2>2. i \in 1 .. Len(t) /\ t[i] \in up BY <1>1, <2>1
  <2>3. \A j \in i + 1 .. Len(t) : t[j] \notin down BY <1>1, <2>1
  <2>4. Heard(ok, t, up, down) BY <2>2, <2>3 DEF Heard
  <2> QED BY <2>4 DEF t
<1> QED BY <1>2, <1>3, <1>4 DEF Heard

\* The first event of the ring is handled.
LEMMA HeardTail ==
  ASSUME NEW s \in Seq(Events), s # << >>, NEW ok, NEW ok2, NEW up, NEW down,
         Heard(ok, s, up, down),
         Head(s) \in up => ok2,
         ok /\ Head(s) \notin down => ok2
  PROVE  Heard(ok2, Tail(s), up, down)
<1> DEFINE t == Tail(s)
<1>1. /\ Len(s) \in Nat /\ Len(s) > 0 /\ Len(t) = Len(s) - 1 /\ Head(s) = s[1]
      /\ \A i \in 1 .. Len(t) : t[i] = s[i + 1]
  OBVIOUS
<1> HIDE DEF t
<1>2. CASE ok /\ \A j \in 1 .. Len(s) : s[j] \notin down
  <2>1. ok2 BY <1>1, <1>2
  <2>2. \A j \in 1 .. Len(t) : t[j] \notin down BY <1>1, <1>2
  <2>3. Heard(ok2, t, up, down) BY <2>1, <2>2 DEF Heard
  <2> QED BY <2>3 DEF t
<1>3. CASE \E i \in 1 .. Len(s) :
             s[i] \in up /\ \A j \in i + 1 .. Len(s) : s[j] \notin down
  <2>1. PICK i \in 1 .. Len(s) :
          s[i] \in up /\ \A j \in i + 1 .. Len(s) : s[j] \notin down
    BY <1>3
  <2>2. CASE i = 1
    <3>1. ok2 BY <1>1, <2>1, <2>2
    <3>2. \A j \in 1 .. Len(t) : t[j] \notin down BY <1>1, <2>1, <2>2
    <3>3. Heard(ok2, t, up, down) BY <3>1, <3>2 DEF Heard
    <3> QED BY <3>3 DEF t
  <2>3. CASE i > 1
    <3>1. i - 1 \in 1 .. Len(t) /\ t[i - 1] \in up BY <1>1, <2>1, <2>3
    <3>2. \A j \in (i - 1) + 1 .. Len(t) : t[j] \notin down BY <1>1, <2>1, <2>3
    <3>3. Heard(ok2, t, up, down) BY <3>1, <3>2 DEF Heard
    <3> QED BY <3>3 DEF t
  <2> QED BY <2>1, <2>2, <2>3
<1> QED BY <1>2, <1>3 DEF Heard

-----------------------------------------------------------------------------
(* The network link: the inductive invariant. *)

\* NetTypeOK, by what it is about.
LinkTypes ==
  /\ radio \in {"idle", "connecting", "up"} /\ session \in {"none", "open", "lost"}
  /\ since \in 0 .. Window
  /\ actor \in {"DISCONNECTED", "WIFI_UP", "MQTT_CONNECTED"}

LinkFlags ==
  ap \in BOOLEAN /\ wifi_connected \in BOOLEAN /\ mqtt_connected \in BOOLEAN
  /\ lost \in BOOLEAN

IngressTypes ==
  ingress_ring \in Seq(Events) /\ Len(ingress_ring) <= NetRingCapacity

WifiSteps == LinkEvents \cup {"connect"}
WifiTypes == wifiTodo \in Seq(WifiSteps) /\ Len(wifiTodo) <= 3

MqttTodos == {<<"note_mqtt_up">>, <<"note_mqtt_down">>, <<"MQTT_UP">>, <<"MQTT_DOWN">>,
              <<"MQTT_MSG_RX">>, << >>}

\* The Wi-Fi callback: its flag is the station's state, and a station that is
\* up has at most its WIFI_UP left to push.
WifiFlag ==
  /\ wifi_connected <=> radio = "up"
  /\ wifi_connected => wifiTodo \in {<< >>, <<"WIFI_UP">>}

\* The MQTT callback, between the client's event and the locked update of the
\* flag, and after it.
MqttFlag ==
  /\ mqttTodo \in MqttTodos
  /\ session = "open" => radio = "up"
  /\ mqttTodo = <<"note_mqtt_up">> => session # "none" /\ ~mqtt_connected
  /\ mqttTodo = <<"note_mqtt_down">> => session = "none"
  /\ mqttTodo = <<"MQTT_DOWN">> => session # "open"
  /\ mqttTodo \notin {<<"note_mqtt_up">>, <<"note_mqtt_down">>} /\ session # "lost" =>
       (mqtt_connected <=> session = "open")

\* The actor has heard, or will hear, of the link and of the session.
WifiHeard ==
  wifi_connected /\ wifiTodo = << >> /\ ~lost =>
    Heard(actor # "DISCONNECTED", ingress_ring, {"WIFI_UP", "MQTT_UP", "MQTT_DOWN"},
          {"WIFI_DOWN"})

MqttHeard ==
  session = "open" /\ mqtt_connected /\ mqttTodo # <<"MQTT_UP">> /\ ~lost =>
    Heard(actor = "MQTT_CONNECTED", ingress_ring, {"MQTT_UP"},
          {"WIFI_DOWN", "MQTT_DOWN"})

NetInv ==
  /\ LinkTypes /\ LinkFlags /\ IngressTypes /\ WifiTypes
  /\ WifiFlag /\ MqttFlag /\ WifiHeard /\ MqttHeard

\* ev_esp8266_net_push_event keeps the ring within its capacity and never
\* forgets that it dropped an event.
LEMMA PushType ==
  ASSUME IngressTypes, lost \in BOOLEAN, NEW e \in Events, Push(e)
  PROVE  IngressTypes' /\ lost' \in BOOLEAN /\ (lost => lost')
<1>1. CASE Len(ingress_ring) < NetRingCapacity
  <2>1. IngressTypes' BY <1>1, NetLinkAssumption DEF Push, IngressTypes
  <2> QED BY <1>1, <2>1 DEF Push
<1>2. CASE ~(Len(ingress_ring) < NetRingCapacity)
  <2>1. IngressTypes' BY <1>2 DEF Push, IngressTypes
  <2> QED BY <1>2, <2>1 DEF Push
<1> QED BY <1>1, <1>2

\* An event pushed, or dropped, leaves what the actor will hear as it was
\* unless the event itself speaks against it.
LEMMA PushHeard ==
  ASSUME IngressTypes, NEW e \in Events, Push(e), NEW ok, NEW up, NEW down,
         e \notin down, e \in up => e \in LinkEvents,
         e \in up \/ (~lost => Heard(ok, ingress_ring, up, down))
  PROVE  ~lost' => Heard(ok, ingress_ring', up, down)
<1>1. CASE Len(ingress_ring) < NetRingCapacity
  BY <1>1, HeardAppend DEF Push, IngressTypes
<1>2. CASE ~(Len(ingress_ring) < NetRingCapacity)
  BY <1>2 DEF Push
<1> QED BY <1>1, <1>2

\* The first step of a callback that has one left is its last.
LEMMA SingleSeq == \A e : Head(<<e>>) = e /\ Tail(<<e>>) = << >>
<1> SUFFICES ASSUME NEW e PROVE Head(<<e>>) = e /\ Tail(<<e>>) = << >>
  OBVIOUS
<1>1. <<e>> \in Seq({e}) /\ <<e>> # << >> /\ Len(<<e>>) = 1
  OBVIOUS
<1>2. Tail(<<e>>) \in Seq({e}) /\ Len(Tail(<<e>>)) = 0
  BY <1>1, HeadTailProperties
<1>3. Tail(<<e>>) = << >>
  BY <1>2, EmptySeq
<1> QED BY <1>3

\* The steps left to the Wi-Fi callback when the link is lost.
LEMMA WifiDownStepsType ==
  WifiDownSteps \in Seq(WifiSteps) /\ Len(WifiDownSteps) <= 3
<1>1. \A c, e : e \in WifiSteps => If(c, e) \in Seq(WifiSteps) /\ Len(If(c, e)) <= 1
  BY DEF If
<1> DEFINE a == If(mqtt_connected, "MQTT_DOWN")
           b == If(wifi_connected, "WIFI_DOWN")
           c == If(since = Window, "connect")
<1>2. /\ a \in Seq(WifiSteps) /\ Len(a) <= 1
      /\ b \in Seq(WifiSteps) /\ Len(b) <= 1
      /\ c \in Seq(WifiSteps) /\ Len(c) <= 1
  BY <1>1 DEF WifiSteps, LinkEvents
<1>3. WifiDownSteps = (a \o b) \o c
  BY DEF WifiDownSteps
<1> HIDE DEF a, b, c
<1>4. a \o b \in Seq(WifiSteps) /\ Len(a \o b) = Len(a) + Len(b)
  BY <1>2, ConcatProperties
<1>5. (a \o b) \o c \in Seq(WifiSteps) /\ Len((a \o b) \o c) = Len(a \o b) + Len(c)
  BY <1>2, <1>4, ConcatProperties
<1> QED BY <1>2, <1>3, <1>4, <1>5

\* The link starts down, with nothing to do and nothing on its way.
LEMMA NetInitInv == NetInit => NetInv
<1> SUFFICES ASSUME NetInit PROVE NetInv
  OBVIOUS
<1> USE DEF NetInit
<1>1. LinkTypes BY NetLinkAssumption DEF LinkTypes
<1>2. LinkFlags BY DEF LinkFlags
<1>3. IngressTypes /\ WifiTypes BY NetLinkAssumption DEF IngressTypes, WifiTypes
<1>4. WifiFlag BY DEF WifiFlag
<1>5. MqttFlag BY DEF MqttFlag, MqttTodos
<1>6. WifiHeard /\ MqttHeard BY DEF WifiHeard, MqttHeard
<1> QED BY <1>1, <1>2, <1>3, <1>4, <1>5, <1>6 DEF NetInv

\* The station gets its address, at first or again.
LEMMA GotIpInv == NetInv /\ GotIp => NetInv'
<1> SUFFICES ASSUME NetInv, GotIp PROVE NetInv'
  OBVIOUS
<1> USE DEF NetInv, GotIp
<1>1. LinkTypes' BY DEF LinkTypes
<1>2. LinkFlags' BY DEF LinkFlags
<1>3. IngressTypes' BY DEF IngressTypes
<1>4. wifiTodo' \in {<< >>, <<"WIFI_UP">>} BY DEF If
<1>5. WifiTypes'
  <2>1. "WIFI_UP" \in WifiSteps BY DEF WifiSteps, LinkEvents
  <2>2. <<"WIFI_UP">> \in Seq(WifiSteps) /\ Len(<<"WIFI_UP">>) <= 3 BY <2>1
  <2>3. << >> \in Seq(WifiSteps) /\ Len(<< >>) <= 3 BY EmptySeq
  <2> QED BY <1>4, <2>2, <2>3, Zenon DEF WifiTypes
<1>6. WifiFlag' BY <1>4 DEF WifiFlag
<1>7. MqttFlag' BY DEF MqttFlag
<1>8. WifiHeard' BY DEF WifiHeard, If
<1>9. MqttHeard' BY DEF MqttHeard
<1> QED BY <1>1, <1>2, <1>3, <1>5, <1>6, <1>7, <1>8, <1>9

\* The link is lost: an open session is lost with it.
LEMMA DisconnectedInv == NetInv /\ Disconnected => NetInv'
<1> SUFFICES ASSUME NetInv, Disconnected PROVE NetInv'
  OBVIOUS
<1> USE DEF NetInv, Disconnected
<1>1. LinkTypes' BY NetLinkAssumption DEF LinkTypes
<1>2. LinkFlags' BY DEF LinkFlags
<1>3. IngressTypes' BY DEF IngressTypes
<1>4. WifiTypes' BY WifiDownStepsType DEF WifiTypes
<1>5. WifiFlag' BY DEF WifiFlag
<1>6. MqttFlag' BY DEF MqttFlag, LinkTypes
<1>7. WifiHeard' /\ MqttHeard' BY DEF WifiHeard, MqttHeard
<1> QED BY <1>1, <1>2, <1>3, <1>4, <1>5, <1>6, <1>7

\* The Wi-Fi callback pushes its next event or asks for a connection.
LEMMA WifiStepInv == NetInv /\ WifiStep => NetInv'
<1> SUFFICES ASSUME NetInv, WifiStep PROVE NetInv'
  OBVIOUS
<1> USE DEF NetInv, WifiStep, adapter
<1> DEFINE h == Head(wifiTodo)
<1>1. h \in WifiSteps /\ WifiTypes' BY DEF WifiTypes
<1>2. ASSUME wifi_connected PROVE h = "WIFI_UP" /\ wifiTodo' = << >>
  <2>1. wifiTodo = <<"WIFI_UP">> BY <1>2 DEF WifiFlag
  <2>2. Head(<<"WIFI_UP">>) = "WIFI_UP" /\ Tail(<<"WIFI_UP">>) = << >>
    BY SingleSeq
  <2> QED BY <2>1, <2>2
<1>3. CASE h = "connect"
  <2>1. ~wifi_connected BY <1>2, <1>3
  <2>2. radio' = "connecting" /\ UNCHANGED <<ingress_ring, lost>> BY <1>3
  <2>3. LinkTypes' BY <2>2 DEF LinkTypes
  <2>4. LinkFlags' /\ IngressTypes' BY <2>2 DEF LinkFlags, IngressTypes
  <2>5. WifiFlag' BY <2>1, <2>2 DEF WifiFlag
  <2>6. MqttFlag' BY <2>1, <2>2 DEF MqttFlag, WifiFlag
  <2>7. WifiHeard' BY <2>1 DEF WifiHeard
  <2>8. MqttHeard' BY <2>2 DEF MqttHeard
  <2> QED BY <1>1, <2>3, <2>4, <2>5, <2>6, <2>7, <2>8
<1>4. CASE h # "connect"
  <2>1. h \in LinkEvents /\ h \in Events BY <1>1, <1>4 DEF WifiSteps, Events
  <2>2. Push(h) /\ UNCHANGED radio BY <1>4
  <2>3. IngressTypes' /\ lost' \in BOOLEAN /\ (lost => lost')
    BY <2>1, <2>2, PushType DEF LinkFlags
  <2>4. LinkTypes' BY <2>2 DEF LinkTypes
  <2>5. LinkFlags' BY <2>3 DEF LinkFlags
  <2>6. WifiFlag' BY <1>2, <2>2 DEF WifiFlag
  <2>7. MqttFlag' BY <2>2 DEF MqttFlag
  <2>8. WifiHeard'
    <3> SUFFICES ASSUME wifi_connected'
                 PROVE  ~lost' => Heard(actor # "DISCONNECTED", ingress_ring',
                          {"WIFI_UP", "MQTT_UP", "MQTT_DOWN"}, {"WIFI_DOWN"})
      BY DEF WifiHeard
    <3>1. h = "WIFI_UP" BY <1>2
    <3> QED BY <2>1, <2>2, <3>1, PushHeard
  <2>9. MqttHeard'
    <3> SUFFICES ASSUME session = "open", mqtt_connected, mqttTodo # <<"MQTT_UP">>
                 PROVE  ~lost' => Heard(actor = "MQTT_CONNECTED", ingress_ring',
                          {"MQTT_UP"}, {"WIFI_DOWN", "MQTT_DOWN"})
      BY DEF MqttHeard
    <3>1. h = "WIFI_UP" BY <1>2 DEF MqttFlag, WifiFlag
    <3>2. ~lost => Heard(actor = "MQTT_CONNECTED", ingress_ring,
                         {"MQTT_UP"}, {"WIFI_DOWN", "MQTT_DOWN"})
      BY DEF MqttHeard
    <3> QED BY <2>1, <2>2, <3>1, <3>2, PushHeard
  <2> QED BY <1>1, <2>3, <2>4, <2>5, <2>6, <2>7, <2>8, <2>9
<1> QED BY <1>3, <1>4

\* The MQTT client's session opens or is lost, or data arrives.
LEMMA MqttEventInv == NetInv /\ MqttEvent => NetInv'
<1> SUFFICES ASSUME NetInv, MqttEvent PROVE NetInv'
  OBVIOUS
<1> USE DEF NetInv, MqttEvent, adapter
<1>1. LinkTypes' BY DEF LinkTypes
<1>2. LinkFlags' BY DEF LinkFlags
<1>3. IngressTypes' /\ WifiTypes' BY DEF IngressTypes, WifiTypes
<1>4. WifiFlag' BY DEF WifiFlag
<1>5. MqttFlag' BY DEF MqttFlag, MqttTodos, LinkTypes
<1>6. WifiHeard' BY DEF WifiHeard
<1>7. MqttHeard' BY DEF MqttHeard, MqttFlag
<1> QED BY <1>1, <1>2, <1>3, <1>4, <1>5, <1>6, <1>7

\* The MQTT callback updates the flag under the lock, or pushes its event.
LEMMA MqttStepInv == NetInv /\ MqttStep => NetInv'
<1> SUFFICES ASSUME NetInv, MqttStep PROVE NetInv'
  OBVIOUS
<1> USE DEF NetInv, MqttStep, external
<1> DEFINE h == Head(mqttTodo)
<1>1. mqttTodo = <<h>> /\ Tail(mqttTodo) = << >>
      /\ h \in {"note_mqtt_up", "note_mqtt_down", "MQTT_UP", "MQTT_DOWN", "MQTT_MSG_RX"}
  BY SingleSeq DEF MqttFlag, MqttTodos
<1> HIDE DEF h
<1>2. LinkTypes' BY DEF LinkTypes
<1>3. WifiTypes' /\ WifiFlag' BY DEF WifiTypes, WifiFlag
<1>4. CASE h = "note_mqtt_up"
  <2>1. note_mqtt_up /\ UNCHANGED <<ingress_ring, lost>> BY <1>4 DEF h
  <2>2. mqtt_connected' = TRUE /\ mqttTodo' = <<"MQTT_UP">> /\ session # "none"
    BY <1>1, <1>4, <2>1 DEF note_mqtt_up, If, MqttFlag
  <2>3. LinkFlags' /\ IngressTypes' BY <2>1, <2>2 DEF LinkFlags, IngressTypes
  <2>4. MqttFlag' BY <2>2 DEF MqttFlag, MqttTodos, LinkTypes
  <2>5. WifiHeard' /\ MqttHeard' BY <2>1, <2>2 DEF WifiHeard, MqttHeard
  <2> QED BY <1>2, <1>3, <2>3, <2>4, <2>5
<1>5. CASE h = "note_mqtt_down"
  <2>1. note_mqtt_down /\ UNCHANGED <<ingress_ring, lost>> BY <1>5 DEF h
  <2>2. mqtt_connected' = FALSE /\ mqttTodo' \in {<< >>, <<"MQTT_DOWN">>}
        /\ session = "none"
    BY <1>1, <1>5, <2>1 DEF note_mqtt_down, If, MqttFlag
  <2>3. LinkFlags' /\ IngressTypes' BY <2>1, <2>2 DEF LinkFlags, IngressTypes
  <2>4. MqttFlag' BY <2>2 DEF MqttFlag, MqttTodos
  <2>5. WifiHeard' /\ MqttHeard' BY <2>1, <2>2 DEF WifiHeard, MqttHeard
  <2> QED BY <1>2, <1>3, <2>3, <2>4, <2>5
<1>6. CASE h \in {"MQTT_UP", "MQTT_DOWN", "MQTT_MSG_RX"}
  <2>1. Push(h) /\ mqttTodo' = << >> /\ UNCHANGED mqtt_connected
    BY <1>1, <1>6 DEF h
  <2>2. h \in Events BY <1>6 DEF Events, LinkEvents
  <2>3. IngressTypes' /\ lost' \in BOOLEAN /\ (lost => lost')
    BY <2>1, <2>2, PushType DEF LinkFlags
  <2>4. LinkFlags' BY <2>1, <2>3 DEF LinkFlags
  <2>5. MqttFlag' BY <1>1, <1>6, <2>1 DEF MqttFlag, MqttTodos
  <2>6. WifiHeard'
    <3> SUFFICES ASSUME wifi_connected, wifiTodo = << >>
                 PROVE  ~lost' => Heard(actor # "DISCONNECTED", ingress_ring',
                          {"WIFI_UP", "MQTT_UP", "MQTT_DOWN"}, {"WIFI_DOWN"})
      BY DEF WifiHeard
    <3>1. ~lost => Heard(actor # "DISCONNECTED", ingress_ring,
                         {"WIFI_UP", "MQTT_UP", "MQTT_DOWN"}, {"WIFI_DOWN"})
      BY DEF WifiHeard
    <3> QED BY <1>6, <2>1, <2>2, <3>1, PushHeard DEF LinkEvents
  <2>7. MqttHeard'
    <3> SUFFICES ASSUME session = "open", mqtt_connected
                 PROVE  ~lost' => Heard(actor = "MQTT_CONNECTED", ingress_ring',
                          {"MQTT_UP"}, {"WIFI_DOWN", "MQTT_DOWN"})
      BY <2>1 DEF MqttHeard
    <3>1. h # "MQTT_DOWN" BY <1>1 DEF MqttFlag
    <3>2. h # "MQTT_UP" => mqttTodo # <<"MQTT_UP">> BY <1>1
    <3>3. h # "MQTT_UP" /\ ~lost =>
            Heard(actor = "MQTT_CONNECTED", ingress_ring,
                  {"MQTT_UP"}, {"WIFI_DOWN", "MQTT_DOWN"})
      BY <3>2 DEF MqttHeard
    <3> QED BY <1>6, <2>1, <2>2, <3>1, <3>3, PushHeard DEF LinkEvents
  <2> QED BY <1>2, <1>3, <2>3, <2>4, <2>5, <2>6, <2>7
<1> QED BY <1>1, <1>4, <1>5, <1>6

\* The poll loop takes an event off the ring and the actor handles it.
LEMMA NetPollInv == NetInv /\ NetPoll => NetInv'
<1> SUFFICES ASSUME NetInv, NetPoll PROVE NetInv'
  OBVIOUS
<1> USE DEF NetInv, NetPoll, external, adapter
<1> DEFINE h == Head(ingress_ring)
<1>1. h \in Events /\ IngressTypes'
  BY HeadTailProperties, NetLinkAssumption DEF IngressTypes
<1>2. /\ h = "WIFI_UP" => actor' = IF actor = "DISCONNECTED" THEN "WIFI_UP" ELSE actor
      /\ h = "WIFI_DOWN" => actor' = "DISCONNECTED"
      /\ h = "MQTT_UP" => actor' = "MQTT_CONNECTED"
      /\ h = "MQTT_DOWN" => actor' = "WIFI_UP"
      /\ h = "MQTT_MSG_RX" => actor' = actor
  BY DEF Handled
<1> HIDE DEF h
<1>3. LinkTypes' BY <1>1, <1>2 DEF LinkTypes, Events, LinkEvents
<1>4. LinkFlags' BY DEF LinkFlags
<1>5. WifiTypes' BY DEF WifiTypes
<1>6. WifiFlag' BY DEF WifiFlag
<1>7. MqttFlag' BY DEF MqttFlag
<1>8. WifiHeard'
  <2> DEFINE up == {"WIFI_UP", "MQTT_UP", "MQTT_DOWN"}
  <2> SUFFICES ASSUME wifi_connected, wifiTodo = << >>, ~lost
               PROVE  Heard(actor' # "DISCONNECTED", Tail(ingress_ring), up, {"WIFI_DOWN"})
    BY DEF WifiHeard
  <2>1. Heard(actor # "DISCONNECTED", ingress_ring, up, {"WIFI_DOWN"})
    BY DEF WifiHeard
  <2>2. h \in up => actor' # "DISCONNECTED" BY <1>2 DEF LinkTypes
  <2>3. actor # "DISCONNECTED" /\ h \notin {"WIFI_DOWN"} => actor' # "DISCONNECTED"
    BY <1>1, <1>2 DEF Events, LinkEvents
  <2> QED BY <2>1, <2>2, <2>3, HeardTail DEF h, IngressTypes
<1>9. MqttHeard'
  <2> DEFINE down == {"WIFI_DOWN", "MQTT_DOWN"}
  <2> SUFFICES ASSUME session = "open", mqtt_connected, mqttTodo # <<"MQTT_UP">>, ~lost
               PROVE  Heard(actor' = "MQTT_CONNECTED", Tail(ingress_ring),
                            {"MQTT_UP"}, down)
    BY DEF MqttHeard
  <2>1. Heard(actor = "MQTT_CONNECTED", ingress_ring, {"MQTT_UP"}, down)
    BY DEF MqttHeard
  <2>2. h \in {"MQTT_UP"} => actor' = "MQTT_CONNECTED" BY <1>2
  <2>3. actor = "MQTT_CONNECTED" /\ h \notin down => actor' = "MQTT_CONNECTED"
    BY <1>1, <1>2 DEF Events, LinkEvents
  <2> QED BY <2>1, <2>2, <2>3, HeardTail DEF h, IngressTypes
<1> QED BY <1>1, <1>3, <1>4, <1>5, <1>6, <1>7, <1>8, <1>9

\* The access point comes and goes, and time passes.
LEMMA OutsideInv == NetInv /\ (ApChanges \/ NetTick) => NetInv'
<1> SUFFICES ASSUME NetInv, ApChanges \/ NetTick PROVE NetInv'
  OBVIOUS
<1> USE DEF NetInv, external, adapter
<1>1. CASE ApChanges
  <2>1. LinkTypes' BY <1>1 DEF ApChanges, LinkTypes
  <2>2. LinkFlags' BY <1>1 DEF ApChanges, LinkFlags
  <2>3. IngressTypes' /\ WifiTypes' BY <1>1 DEF ApChanges, IngressTypes, WifiTypes
  <2>4. WifiFlag' /\ MqttFlag' BY <1>1 DEF ApChanges, WifiFlag, MqttFlag
  <2>5. WifiHeard' /\ MqttHeard' BY <1>1 DEF ApChanges, WifiHeard, MqttHeard
  <2> QED BY <2>1, <2>2, <2>3, <2>4, <2>5
<1>2. CASE NetTick
  <2>1. LinkTypes' BY <1>2, NetLinkAssumption DEF NetTick, LinkTypes
  <2>2. LinkFlags' BY <1>2 DEF NetTick, LinkFlags
  <2>3. IngressTypes' /\ WifiTypes' BY <1>2 DEF NetTick, IngressTypes, WifiTypes
  <2>4. WifiFlag' /\ MqttFlag' BY <1>2 DEF NetTick, WifiFlag, MqttFlag
  <2>5. WifiHeard' /\ MqttHeard' BY <1>2 DEF NetTick, WifiHeard, MqttHeard
  <2> QED BY <2>1, <2>2, <2>3, <2>4, <2>5
<1> QED BY <1>1, <1>2

\* Every step of the link, and a stuttering one, keeps the invariant.
LEMMA NetNextInv == NetInv /\ [NetNext]_netVars => NetInv'
<1> SUFFICES ASSUME NetInv, [NetNext]_netVars PROVE NetInv'
  OBVIOUS
<1>1. CASE NetNext
  BY <1>1, GotIpInv, DisconnectedInv, WifiStepInv, MqttEventInv, MqttStepInv,
     NetPollInv, 
     OutsideInv
  DEF NetNext
<1>2. CASE UNCHANGED netVars
  BY <1>2 DEF netVars, external, adapter, NetInv, LinkTypes, LinkFlags, IngressTypes,
              WifiTypes, WifiFlag, MqttFlag, WifiHeard, MqttHeard
<1> QED BY <1>1, <1>2

-----------------------------------------------------------------------------
(* The network link: the theorems. *)

\* The link's invariant holds in every state of every behaviour.
THEOREM NetInvHolds == NetSpec => []NetInv
  BY NetInitInv, NetNextInv, PTL DEF NetSpec

\* The ring never exceeds its capacity and a callback never has more than
\* three steps left.
THEOREM NetTypeCorrect == NetSpec => []NetTypeOK
<1>1. NetInv => mqttTodo \in Seq(Events \cup {"note_mqtt_up", "note_mqtt_down"})
                /\ Len(mqttTodo) <= 1
  <2> DEFINE S == Events \cup {"note_mqtt_up", "note_mqtt_down"}
  <2>1. {"note_mqtt_up", "note_mqtt_down", "MQTT_UP", "MQTT_DOWN", "MQTT_MSG_RX"}
        \subseteq S
    BY DEF Events, LinkEvents
  <2>2. \A e \in S : <<e>> \in Seq(S) /\ Len(<<e>>) <= 1 OBVIOUS
  <2>3. << >> \in Seq(S) /\ Len(<< >>) <= 1 BY EmptySeq
  <2> HIDE DEF S
  <2>4. \A t \in MqttTodos : t \in Seq(S) /\ Len(t) <= 1
    BY <2>1, <2>2, <2>3, Zenon DEF MqttTodos
  <2>5. NetInv => mqttTodo \in Seq(S) /\ Len(mqttTodo) <= 1
    BY <2>4 DEF NetInv, MqttFlag
  <2> QED BY <2>5 DEF S
<1>2. NetInv => NetTypeOK
  BY <1>1
  DEF NetInv, LinkTypes, LinkFlags, IngressTypes, WifiTypes, WifiSteps, NetTypeOK
<1> QED BY <1>2, NetInvHolds, PTL

\* No order of the Wi-Fi and MQTT tasks' callbacks leaves a flag of the adapter
\* behind that disagrees with the SDK.
THEOREM FlagsAreTrue == NetSpec => []FlagsTellTruth
<1>1. NetInv => FlagsTellTruth
  BY DEF NetInv, WifiFlag, MqttFlag, FlagsTellTruth, CallbacksDone
<1> QED BY <1>1, NetInvHolds, PTL

\* Nor does it leave the network actor behind the adapter, when no event was
\* dropped: for every capacity of the ring.
THEOREM EveryConnectionIsSeen == NetSpec => []ConnectionIsSeen
<1>1. ASSUME NEW ok, NEW up, NEW down, Heard(ok, << >>, up, down) PROVE ok
  <2>1. Len(<< >>) = 0 OBVIOUS
  <2> QED BY <1>1, <2>1 DEF Heard
<1>2. NetInv => ConnectionIsSeen
  <2> SUFFICES ASSUME NetInv, CallbacksDone, ingress_ring = << >>, ~lost
               PROVE  /\ wifi_connected => actor # "DISCONNECTED"
                      /\ mqtt_connected => actor = "MQTT_CONNECTED"
    BY DEF ConnectionIsSeen
  <2>1. wifi_connected => actor # "DISCONNECTED"
    BY <1>1 DEF NetInv, WifiHeard, CallbacksDone
  <2>2. mqtt_connected => session = "open" /\ mqttTodo # <<"MQTT_UP">>
    BY DEF NetInv, MqttFlag, CallbacksDone
  <2>3. mqtt_connected => actor = "MQTT_CONNECTED"
    BY <1>1, <2>2 DEF NetInv, MqttHeard
  <2> QED BY <2>1, <2>3
<1> QED BY <1>2, NetInvHolds, PTL

-----------------------------------------------------------------------------
(* The two together. *)

\* The composed specification runs each part by its own: a step of one is a
\* stuttering step of the other.
THEOREM PartsRunTheirSpecs == Spec => LoopSpec /\ NetSpec
<1>1. Init => LoopInit /\ NetInit BY DEF Init
<1>2. [Next]_mainVars => [LoopNext]_loopVars BY DEF Next, mainVars
<1>3. [Next]_mainVars => [NetNext]_netVars BY DEF Next, mainVars
<1>4. Spec => Init /\ [][Next]_mainVars BY DEF Spec
<1> QED BY <1>1, <1>2, <1>3, <1>4, PTL DEF LoopSpec, NetSpec
=============================================================================
