----------------------------- MODULE RuntimeLoop -----------------------------
(***************************************************************************)
(* The firmware's main task: ev_esp8266_runtime_app_run polls the demo     *)
(* application for ever, one poll is ev_runtime_loop_poll_once with the    *)
(* demo's collection of ingress, and between polls the task waits on the   *)
(* IRQ adapter's semaphore.  The GPIO interrupt (ev_irq_adapter.c), the    *)
(* network callbacks and the clock step in between.                        *)
(*                                                                         *)
(* The actors are a number of queued messages, the network ring a number   *)
(* of events and each timer a number of missed deadlines: what becomes of  *)
(* each is in Scheduler, Delivery, NetLink and TimerService.               *)
(***************************************************************************)
EXTENDS Naturals, Sequences, FiniteSets, FiniteSetsExt, SequencesExt

CONSTANTS
  Lines,          \* GPIO lines, numbered in the order they are configured
  IrqCapacity,    \* EV_ESP8266_IRQ_RING_CAPACITY
  NetCapacity,    \* EV_NET_INGRESS_RING_CAPACITY
  QueueCapacity,  \* room in the mailboxes
  Timers,         \* slots of the timer service, in the order they are visited
  MaxDue,         \* bound: deadlines of each that can be missed at once
  Reserved,       \* EV_APP_POLL_RESERVED_IRQ_SAMPLES, ..._NET_SAMPLES
  MaxSamples,     \* EV_APP_POLL_MAX_IRQ_SAMPLES, ..._NET_SAMPLES
  MaxTurns,       \* EV_APP_POLL_MAX_PUMP_TURNS, for calls and turns
  MaxMessages,    \* EV_APP_POLL_MAX_MESSAGES
  TurnBudget,     \* EV_DEMO_APP_TURN_BUDGET
  TurnMessages    \* the largest budget of a domain's turn

ASSUME RuntimeLoopAssumption ==
  /\ Lines \subseteq Nat /\ IsFiniteSet(Lines)
  /\ Timers \subseteq Nat /\ IsFiniteSet(Timers) /\ MaxDue \in [Timers -> Nat]
  /\ {IrqCapacity, NetCapacity, QueueCapacity, Reserved, MaxSamples,
      MaxTurns, MaxMessages, TurnBudget, TurnMessages} \subseteq Nat \ {0}

VARIABLES
  ring,      \* the IRQ adapter's samples: sets of lines
  decode,    \* lines of the sample being decoded
  sem,       \* the binary semaphore
  net,       \* events in the network ring
  queue,     \* messages in the mailboxes
  due,       \* deadlines of each timer passed and not served
  seen,      \* those of them that passed before the loop read the clock
  refused,   \* timers whose delivery failed in the last call for them
  pc,        \* where the main task is
  report,    \* the poll's report
  before,    \* samples before the present collection
  taken      \* samples of the present collection

irq == <<ring, decode, sem>>
loopVars == <<irq, net, queue, due, seen, refused, pc, report, before, taken>>

NoReport == [irq |-> 0, net |-> 0, pumps |-> 0, turns |-> 0, messages |-> 0,
             exhausted |-> FALSE, result |-> "OK"]

NoneDue == [t \in Timers |-> 0]

\* Out of reset; Restart below is also how the device first comes up.
LoopInit ==
  /\ ring = << >> /\ decode = {} /\ sem = 0
  /\ net = 0 /\ queue = 0 /\ due = NoneDue /\ seen = NoneDue /\ refused = {}
  /\ pc = "restart" /\ report = NoReport /\ before = 0 /\ taken = 0

(***************************************************************************)
(* Around the main task.                                                   *)
(***************************************************************************)
\* ev_esp8266_irq_isr and ev_esp8266_irq_push_isr; interrupts are off in the
\* task's critical sections, so a step of the task sees all of it or none.
Isr ==
  /\ \E status \in SUBSET Lines \ {{}} :
       IF Len(ring) < IrqCapacity
         THEN ring' = Append(ring, status) /\ sem' = 1
         ELSE UNCHANGED <<ring, sem>>
  /\ UNCHANGED <<decode, net, queue, due, seen, refused, pc, report, before, taken>>

NetCallback ==
  /\ net < NetCapacity
  /\ net' = net + 1
  /\ UNCHANGED <<irq, queue, due, seen, refused, pc, report, before, taken>>

Clock ==
  /\ \E t \in Timers : due[t] < MaxDue[t] /\ due' = [due EXCEPT ![t] = @ + 1]
  /\ UNCHANGED <<irq, net, queue, seen, refused, pc, report, before, taken>>

(***************************************************************************)
(* The poll.                                                               *)
(***************************************************************************)
IrqPending == ring # << >> \/ decode # {}

BudgetSpent(r) ==
  \/ r.pumps >= MaxTurns \/ r.turns >= MaxTurns \/ r.messages >= MaxMessages
  \/ r.irq >= MaxSamples \/ r.net >= MaxSamples

Note(r) == [r EXCEPT !.exhausted = @ \/ BudgetSpent(r)]

\* Publishing a sample queues a message, unless it merges with a queued one
\* or finds no room; a strict target without room fails the poll.
Publish(next) ==
  \/ queue' = queue /\ pc' = next
  \/ queue < QueueCapacity /\ queue' = queue + 1 /\ pc' = next
  \/ queue > 0 /\ queue' = queue /\ pc' = "restart"

\* The sample the next ev_esp8266_irq_pop looks at.
Sample == IF decode # {} THEN decode ELSE Head(ring)

\* Faulty variant: interrupts may use the whole budget in one collection.
IrqOpenUnreserved == report.irq < MaxSamples /\ ~report.exhausted

\* A collection takes at most Reserved samples from each source.
IrqOpen == taken < Reserved /\ report.irq < MaxSamples /\ ~report.exhausted
NetOpen == taken < Reserved /\ report.net < MaxSamples /\ ~report.exhausted

\* ev_demo_app_collect_ingress, the IRQ samples one by one
CollectIrq ==
  /\ pc = "irq"
  /\ IrqOpen /\ IrqPending
  /\ decode' = Sample \ {Min(Sample)}
  /\ ring' = IF decode # {} THEN ring ELSE Tail(ring)
  /\ report' = Note([report EXCEPT !.irq = @ + 1])
  /\ taken' = taken + 1
  /\ Publish("irq")
  /\ UNCHANGED <<sem, net, due, seen, refused, before>>

EndIrq ==
  /\ pc = "irq"
  /\ ~(IrqOpen /\ IrqPending)
  /\ pc' = "net"
  /\ taken' = 0
  /\ UNCHANGED <<irq, net, queue, due, seen, refused, report, before>>

CollectNet ==
  /\ pc = "net"
  /\ NetOpen /\ net > 0
  /\ net' = net - 1
  /\ report' = Note([report EXCEPT !.net = @ + 1])
  /\ taken' = taken + 1
  /\ Publish("net")
  /\ UNCHANGED <<irq, due, seen, refused, before>>

EndNet ==
  /\ pc = "net"
  /\ ~(NetOpen /\ net > 0)
  /\ pc' = "drain"
  /\ report' = Note(report)
  /\ UNCHANGED <<irq, net, queue, due, seen, refused, before, taken>>

\* One call of the scheduler (ev_runtime_graph_poll_scheduler_once): turns of
\* at least a message each, until the turn budget is used or nothing is
\* queued; handlers queue further messages; an error of one ends the poll.
PumpOnce(next) ==
  /\ queue > 0 /\ ~report.exhausted
  /\ \E turns \in 1 .. TurnBudget :
       \E messages \in turns .. turns * TurnMessages :
         /\ report' = Note([report EXCEPT !.pumps = @ + 1, !.turns = @ + turns,
                                          !.messages = @ + messages])
         /\ \/ turns = TurnBudget /\ queue' \in 0 .. QueueCapacity /\ pc' = next
            \/ queue' = 0 /\ pc' = next
            \/ queue' = queue /\ pc' = "restart"
  /\ UNCHANGED <<irq, net, due, seen, refused, before, taken>>

Drained == queue = 0 \/ report.exhausted

DrainAfterCollect == pc = "drain" /\ PumpOnce("drain")

\* Faulty variant: a collection that finds nothing is repeated.
EndDrainRepeats ==
  /\ pc = "drain"
  /\ Drained
  /\ pc' = IF ~report.exhausted /\ report.irq + report.net >= before
             THEN "irq" ELSE IF report.exhausted THEN "finish" ELSE "clock"
  /\ before' = report.irq + report.net
  /\ taken' = 0
  /\ UNCHANGED <<irq, net, queue, due, seen, refused, report>>

\* Another collection follows while the last one found something.
EndDrain ==
  /\ pc = "drain"
  /\ Drained
  /\ pc' = IF ~report.exhausted /\ report.irq + report.net > before
             THEN "irq" ELSE IF report.exhausted THEN "finish" ELSE "clock"
  /\ before' = report.irq + report.net
  /\ taken' = 0
  /\ UNCHANGED <<irq, net, queue, due, seen, refused, report>>

ReadClock ==
  /\ pc = "clock"
  /\ seen' = due
  /\ pc' = "timers"
  /\ UNCHANGED <<irq, net, queue, due, refused, report, before, taken>>

Late == {t \in Timers : seen[t] > 0}

\* A visited timer moves on by one period, whether its delivery failed or not.
Passed(deadlines, visited) ==
  [t \in Timers |-> IF t \in visited THEN deadlines[t] - 1 ELSE deadlines[t]]

Visit(visited) == due' = Passed(due, visited) /\ seen' = Passed(seen, visited)

\* ev_runtime_graph_publish_due_timers with a budget of one visits the slots
\* in their order, each at most once, until a delivery succeeds; the loop goes
\* on as long as one does.
ServeTimers ==
  /\ pc = "timers"
  /\ queue = 0
  /\ \/ Visit(Late) /\ refused' = Late /\ queue' = queue /\ pc' = "finish"
     \/ \E t \in Late :
          /\ Visit({s \in Late : s <= t}) /\ refused' = {s \in Late : s < t}
          /\ queue' = queue + 1 /\ pc' = "after"
  /\ UNCHANGED <<irq, net, report, before, taken>>

DrainAfterTimer == pc = "after" /\ PumpOnce("after")

\* Faulty variant: the timers are called once.
EndAfterStops ==
  /\ pc = "after"
  /\ Drained
  /\ pc' = "finish"
  /\ UNCHANGED <<irq, net, queue, due, seen, refused, report, before, taken>>

\* Another call follows while the last one delivered something.
EndAfter ==
  /\ pc = "after"
  /\ Drained
  /\ pc' = IF report.exhausted THEN "finish" ELSE "timers"
  /\ UNCHANGED <<irq, net, queue, due, seen, refused, report, before, taken>>

(***************************************************************************)
(* The end of the poll asks for work left over when the budget was spent.  *)
(* Asking the IRQ adapter (wait with no timeout) takes the semaphore if    *)
(* the ring is empty.  The report's counts are only logged from here on.   *)
(***************************************************************************)
Overdue == \E t \in Timers : due[t] > 0

WorkPending == IrqPending \/ sem = 1 \/ net > 0 \/ Overdue

Finish ==
  /\ pc = "finish"
  /\ report' = [NoReport EXCEPT !.exhausted = report.exhausted, !.result =
       IF report.exhausted /\ (queue > 0 \/ WorkPending) THEN "PARTIAL" ELSE "OK"]
  /\ sem' = IF report.exhausted /\ ~IrqPending THEN 0 ELSE sem
  /\ pc' = "wait"
  /\ UNCHANGED <<ring, decode, net, queue, due, seen, refused, before, taken>>

(***************************************************************************)
(* ev_runtime_app_wait_for_work: no wait with messages queued or a         *)
(* deadline passed, nor with samples in the IRQ ring; otherwise the task   *)
(* blocks on the semaphore until the next deadline, or 100 ms.             *)
(***************************************************************************)
StartPoll ==
  /\ report' = NoReport
  /\ before' = 0 /\ taken' = 0 /\ seen' = NoneDue /\ refused' = {}
  /\ pc' = "irq"

NoWait ==
  /\ pc = "wait"
  /\ queue > 0 \/ Overdue \/ IrqPending
  /\ StartPoll
  /\ UNCHANGED <<irq, net, queue, due>>

\* Faulty variant: the task blocks without looking at the ring.
BlockBlindly ==
  /\ pc = "wait"
  /\ queue = 0 /\ ~Overdue
  /\ pc' = "blocked"
  /\ UNCHANGED <<irq, net, queue, due, seen, refused, report, before, taken>>

Block ==
  /\ pc = "wait"
  /\ queue = 0 /\ ~Overdue /\ ~IrqPending
  /\ pc' = "blocked"
  /\ UNCHANGED <<irq, net, queue, due, seen, refused, report, before, taken>>

Wake ==
  /\ pc = "blocked" /\ sem = 1
  /\ sem' = 0
  /\ StartPoll
  /\ UNCHANGED <<ring, decode, net, queue, due>>

Timeout ==
  /\ pc = "blocked" /\ sem = 0
  /\ StartPoll
  /\ UNCHANGED <<irq, net, queue, due>>

\* The device boots, at first and after reset_port.restart, and with
\* EV_BOOT_STARTED and what follows it queued the first poll begins.
Restart ==
  /\ pc = "restart"
  /\ ring' = << >> /\ decode' = {} /\ sem' = 0
  /\ net' = 0 /\ queue' \in 1 .. QueueCapacity /\ due' = NoneDue
  /\ StartPoll

Poll ==
  \/ CollectIrq \/ EndIrq \/ CollectNet \/ EndNet
  \/ DrainAfterCollect \/ EndDrain
  \/ ReadClock \/ ServeTimers \/ DrainAfterTimer \/ EndAfter
  \/ Finish

Main == Poll \/ NoWait \/ Block \/ Wake \/ Restart

LoopNext == Main \/ Timeout \/ Isr \/ NetCallback \/ Clock

LoopSpec == LoopInit /\ [][LoopNext]_loopVars

\* The main task runs whenever it can, and a wait times out.
LoopFairness == WF_loopVars(Main) /\ WF_loopVars(Timeout)

(***************************************************************************)
(* Properties.                                                             *)
(***************************************************************************)

(* Types, and the capacities of the ring and the queues.                   *)
LoopTypeOK ==
  /\ ring \in Seq(SUBSET Lines) /\ Len(ring) <= IrqCapacity
  /\ decode \subseteq Lines /\ sem \in {0, 1}
  /\ net \in 0 .. NetCapacity /\ queue \in 0 .. QueueCapacity
  /\ due \in [Timers -> Nat] /\ seen \in [Timers -> Nat] /\ refused \subseteq Timers
  /\ \A t \in Timers : due[t] <= MaxDue[t] /\ seen[t] <= due[t]
  /\ pc \in {"irq", "net", "drain", "clock", "timers", "after", "finish",
             "wait", "blocked", "restart"}
  /\ report \in [irq : 0 .. MaxSamples, net : 0 .. MaxSamples, pumps : 0 .. MaxTurns,
                 turns : Nat, messages : Nat, exhausted : BOOLEAN,
                 result : {"OK", "PARTIAL"}]

(* No interrupt is slept through: a task blocked in ev_esp8266_irq_wait    *)
(* has an empty ring or finds the semaphore given, although the ring was   *)
(* looked at before the semaphore and a poll may have taken a stale one.   *)
NoMissedWakeup == pc = "blocked" /\ IrqPending => sem = 1

(* EV_OK from a poll means that no message is left in a mailbox, and when  *)
(* the budget was not spent, that every deadline that had passed when the  *)
(* timers were looked at was served.  What may be left are further missed  *)
(* deadlines of timers to which the last call for them failed to deliver:  *)
(* without a delivery the loop ends (ev_runtime_loop.c:168-171).           *)
OkMeansDone ==
  pc = "wait" /\ report.result = "OK" =>
    /\ queue = 0
    /\ report.exhausted \/ Late \subseteq refused

(* Every poll ends, although interrupts, callbacks and handlers may        *)
(* produce work as fast as the poll consumes it.                           *)
PollsEnd == []<>(pc \in {"wait", "restart"})

(* A flood of interrupts does not lock out the network, which cannot wake  *)
(* the task either: a full network ring gets room again.                   *)
NetServed == net = NetCapacity ~> net < NetCapacity

=============================================================================
