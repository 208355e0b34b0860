------------------------------ MODULE Scheduler ------------------------------
(***************************************************************************)
(* The cooperative scheduling stack: the system pump over execution domains  *)
(* (core/src/ev_system_pump.c), the domain pump over the actors of a domain  *)
(* (core/src/ev_domain_pump.c) and the bounded actor pump                    *)
(* (core/src/ev_actor_runtime.c), called by the runtime scheduler            *)
(* (runtime/src/ev_runtime_scheduler.c).                                     *)
(*                                                                          *)
(* Everything runs on one thread.  Mailboxes are their depths: the pumps     *)
(* read nothing else.  A handler may post to any actors, itself included,    *)
(* and may fail; between two runs anyone may post.                           *)
(***************************************************************************)
EXTENDS Naturals, FiniteSets, Functions

CONSTANTS ActorCount,   \* ev_actor_count(); actors are 0 .. ActorCount - 1
          DomainCount,  \* EV_DOMAIN_COUNT; domains are 0 .. DomainCount - 1
          DomainOf,     \* meta->execution_domain of each actor
          DrainBudget,  \* meta->drain_budget of each actor
          BoundActors,  \* actors with a runtime in the registry
          BoundDomains, \* domains in the active domain mask
          TurnBudget,   \* turn budget of every run (4 in the runtime loop)
          MailboxDepth  \* capacity of every mailbox

Actors == 0..(ActorCount - 1)
Domains == 0..(DomainCount - 1)

ASSUME ShapeAssumption ==
  /\ ActorCount \in Nat \ {0} /\ DomainCount \in Nat \ {0}
  /\ DomainOf \in [Actors -> Domains]
  /\ DrainBudget \in [Actors -> Nat \ {0}]
  /\ BoundActors \subseteq Actors /\ BoundDomains \subseteq Domains
  /\ TurnBudget \in Nat \ {0} /\ MailboxDepth \in Nat \ {0}

VARIABLES pending,    \* messages in each actor's mailbox
          cursor,     \* next_actor_index of each domain pump
          sysCursor,  \* next_domain_index of the system pump
          pc,         \* the innermost loop that is running
          sys,        \* locals and report of ev_system_pump_run
          dom,        \* locals and report of ev_domain_pump_run
          act,        \* locals and report of ev_actor_runtime_pump
          result,     \* what the last run returned
          owed,       \* history: pending at the start of the run, not served
          handled     \* history: messages handled in the run

vars == <<pending, cursor, sysCursor, pc, sys, dom, act, result, owed,
          handled>>

CursorAdvance(i, n) == IF i + 1 >= n THEN 0 ELSE i + 1

SumOver(f, S) == FoldFunctionOnSet(LAMBDA x, y : x + y, 0, f, S)

Members(d) == {a \in BoundActors : DomainOf[a] = d}
DomainPending(d) == SumOver(pending, Members(d))
\* Faulty variant: a domain's quantum does not cover all its actors.
DefaultBudgetOne(d) == 1
DefaultBudget(d) == SumOver(DrainBudget, {a \in Actors : DomainOf[a] = d})
Runnable == {a \in BoundActors : DomainOf[a] \in BoundDomains /\ pending[a] > 0}

\* A scan looks at n indices from start; the first useful one at or after the
\* offset is where it stops next.
IndexAt(start, offset, n) == (start + offset) % n
FirstAt(start, offset, n, S) ==
  CHOOSE k \in offset..(n - 1) :
    /\ IndexAt(start, k, n) \in S
    /\ \A j \in offset..(k - 1) : IndexAt(start, j, n) \notin S
AnyAt(start, offset, n, S) ==
  \E k \in offset..(n - 1) : IndexAt(start, k, n) \in S

NoLoop == [start |-> 0, offset |-> 0, remaining |-> 0, progressed |-> FALSE,
           processed |-> 0, turns |-> 0, domain |-> 0]
NoAct == [actor |-> 0, budget |-> 0, processed |-> 0]

Init ==
  /\ pending = [a \in Actors |-> 0]
  /\ cursor = [d \in Domains |-> 0]
  /\ sysCursor = 0
  /\ pc = "idle"
  /\ sys = NoLoop /\ dom = NoLoop /\ act = NoAct
  /\ result = "EMPTY"
  /\ owed = {}
  /\ handled = 0

\* Delivery to an actor without a runtime, or to a full mailbox, fails.
Posted(p, S) == [a \in Actors |-> IF a \in S \cap BoundActors /\ p[a] < MailboxDepth
                                  THEN p[a] + 1 ELSE p[a]]

\* An event arrives between two runs.
Post(a) ==
  /\ pc = "idle" /\ a \in BoundActors /\ pending[a] < MailboxDepth
  /\ pending' = Posted(pending, {a})
  /\ UNCHANGED <<cursor, sysCursor, pc, sys, dom, act, result, owed,
                 handled>>

-----------------------------------------------------------------------------
(* ev_system_pump_run *)

StartRun ==
  /\ pc = "idle"
  /\ owed' = Runnable
  /\ handled' = 0
  /\ IF Runnable = {}
     THEN /\ result' = "EMPTY"
          /\ UNCHANGED <<pc, sys>>
     ELSE /\ pc' = "sys"
          /\ sys' = [NoLoop EXCEPT !.start = sysCursor, !.remaining = TurnBudget]
          /\ UNCHANGED result
  /\ UNCHANGED <<pending, cursor, sysCursor, dom, act>>

BusyDomains == {d \in BoundDomains : DomainPending(d) > 0}

\* The scan reaches a domain with work and gives it one turn.
SelectDomain ==
  /\ pc = "sys" /\ sys.remaining > 0
  /\ AnyAt(sys.start, sys.offset, DomainCount, BusyDomains)
  /\ LET k == FirstAt(sys.start, sys.offset, DomainCount, BusyDomains)
         d == IndexAt(sys.start, k, DomainCount)
     IN  /\ sys' = [sys EXCEPT !.offset = k + 1, !.domain = d]
         /\ dom' = [NoLoop EXCEPT !.start = cursor[d],
                                  !.remaining = DefaultBudget(d)]
  /\ pc' = "dom"
  /\ UNCHANGED <<pending, cursor, sysCursor, act, result, owed, handled>>

\* No more work in this pass, but the pass made progress: scan again from the
\* cursor.
RestartSystemPass ==
  /\ pc = "sys" /\ sys.remaining > 0 /\ sys.progressed
  /\ ~AnyAt(sys.start, sys.offset, DomainCount, BusyDomains)
  /\ sys' = [sys EXCEPT !.start = sysCursor, !.offset = 0, !.progressed = FALSE]
  /\ UNCHANGED <<pending, cursor, sysCursor, pc, dom, act, result, owed,
                 handled>>

\* Faulty variant: an exhausted turn budget is reported as success.
FinishRunSilent ==
  /\ pc = "sys"
  /\ \/ sys.remaining = 0
     \/ ~sys.progressed /\ ~AnyAt(sys.start, sys.offset, DomainCount, BusyDomains)
  /\ result' = IF sys.turns = 0 THEN "STATE" ELSE "OK"
  /\ pc' = "idle"
  /\ UNCHANGED <<pending, cursor, sysCursor, sys, dom, act, owed, handled>>

\* EV_ERR_PARTIAL is what ev_runtime_scheduler_poll_once makes of an exhausted
\* turn budget.
FinishRun ==
  /\ pc = "sys"
  /\ \/ sys.remaining = 0
     \/ ~sys.progressed /\ ~AnyAt(sys.start, sys.offset, DomainCount, BusyDomains)
  /\ result' = IF sys.turns = 0 THEN "STATE"
               ELSE IF sys.remaining = 0 /\ Runnable # {} THEN "PARTIAL"
               ELSE "OK"
  /\ pc' = "idle"
  /\ UNCHANGED <<pending, cursor, sysCursor, sys, dom, act, owed, handled>>

-----------------------------------------------------------------------------
(* ev_domain_pump_run *)

BusyMembers == {a \in Members(sys.domain) : pending[a] > 0}

SelectActor ==
  /\ pc = "dom" /\ dom.remaining > 0
  /\ AnyAt(dom.start, dom.offset, ActorCount, BusyMembers)
  /\ LET k == FirstAt(dom.start, dom.offset, ActorCount, BusyMembers)
         a == IndexAt(dom.start, k, ActorCount)
     IN  /\ dom' = [dom EXCEPT !.offset = k + 1]
         /\ act' = [actor |-> a, processed |-> 0,
                    budget |-> IF DrainBudget[a] > dom.remaining
                               THEN dom.remaining ELSE DrainBudget[a]]
  /\ pc' = "actor"
  /\ UNCHANGED <<pending, cursor, sysCursor, sys, result, owed, handled>>

RestartDomainPass ==
  /\ pc = "dom" /\ dom.remaining > 0 /\ dom.progressed
  /\ ~AnyAt(dom.start, dom.offset, ActorCount, BusyMembers)
  /\ dom' = [dom EXCEPT !.start = cursor[sys.domain], !.offset = 0,
                        !.progressed = FALSE]
  /\ UNCHANGED <<pending, cursor, sysCursor, pc, sys, act, result, owed,
                 handled>>

\* Faulty variant: the system cursor stays on the failing domain.
FailRunStays(rc, processed) ==
  /\ sys' = [sys EXCEPT !.turns = @ + 1, !.processed = @ + processed]
  /\ result' = rc
  /\ pc' = "idle"
  /\ UNCHANGED sysCursor

\* A failing turn ends the run, and its messages are added to the report.
FailRun(rc, processed) ==
  /\ sysCursor' = CursorAdvance(sys.domain, DomainCount)
  /\ sys' = [sys EXCEPT !.turns = @ + 1, !.processed = @ + processed]
  /\ result' = rc
  /\ pc' = "idle"

\* The domain turn ends; the system pump counts it.
FinishDomain ==
  /\ pc = "dom"
  /\ \/ dom.remaining = 0
     \/ ~dom.progressed /\ ~AnyAt(dom.start, dom.offset, ActorCount, BusyMembers)
  /\ IF dom.processed = 0
     THEN FailRun("STATE", 0)
     ELSE /\ pc' = "sys"
          /\ sysCursor' = CursorAdvance(sys.domain, DomainCount)
          /\ sys' = [sys EXCEPT !.processed = @ + dom.processed,
                                !.turns = @ + 1, !.progressed = TRUE,
                                !.remaining = @ - 1]
                  /\ UNCHANGED result
  /\ UNCHANGED <<pending, cursor, dom, act, owed, handled>>

-----------------------------------------------------------------------------
(* ev_actor_runtime_pump *)

\* One message is handled and disposed; the handler posts to the actors S.
ProcessOne(S) ==
  /\ pc = "actor" /\ act.processed < act.budget /\ pending[act.actor] > 0
  /\ pending' = Posted([pending EXCEPT ![act.actor] = @ - 1], S)
  /\ act' = [act EXCEPT !.processed = @ + 1]
  /\ owed' = owed \ {act.actor}
  /\ handled' = handled + 1
  /\ UNCHANGED <<cursor, sysCursor, pc, sys, dom, result>>

FinishActor ==
  /\ pc = "actor"
  /\ act.processed = act.budget \/ pending[act.actor] = 0
  /\ pc' = "dom"
  /\ cursor' = [cursor EXCEPT ![sys.domain] = CursorAdvance(act.actor, ActorCount)]
  /\ dom' = [dom EXCEPT !.processed = @ + act.processed,
                        !.remaining = @ - act.processed, !.progressed = TRUE]
  /\ UNCHANGED <<pending, sysCursor, sys, act, result, owed, handled>>

\* The handler fails: the error ends the actor pump, the domain turn and the
\* run.  Both cursors have moved on.
HandlerFails(S) ==
  /\ pc = "actor" /\ act.processed < act.budget /\ pending[act.actor] > 0
  /\ pending' = Posted([pending EXCEPT ![act.actor] = @ - 1], S)
  /\ cursor' = [cursor EXCEPT ![sys.domain] = CursorAdvance(act.actor, ActorCount)]
  /\ FailRun("HANDLER_ERROR", dom.processed + act.processed + 1)
  /\ owed' = owed \ {act.actor}
  /\ handled' = handled + 1
  /\ UNCHANGED <<dom, act>>

Run ==
  \/ StartRun \/ SelectDomain \/ RestartSystemPass \/ FinishRun
  \/ SelectActor \/ RestartDomainPass \/ FinishDomain
  \/ FinishActor
  \/ \E S \in SUBSET Actors : ProcessOne(S) \/ HandlerFails(S)

Next == Run \/ \E a \in Actors : Post(a)

\* The firmware calls the runtime loop for ever and handlers return.
Spec == Init /\ [][Next]_vars /\ WF_vars(Run)

-----------------------------------------------------------------------------
(* Properties. *)

\* Depths, cursors and loop locals keep their types and bounds.
TypeOK ==
  /\ pending \in [Actors -> 0..MailboxDepth]
  /\ cursor \in [Domains -> Actors]
  /\ sysCursor \in Domains
  /\ pc \in {"idle", "sys", "dom", "actor"}
  /\ sys.remaining \in 0..TurnBudget /\ sys.turns \in 0..TurnBudget
  /\ dom.remaining \in Nat
  /\ act.actor \in Actors /\ act.processed \in 0..act.budget
  /\ result \in {"OK", "EMPTY", "PARTIAL", "STATE", "HANDLER_ERROR"}

Returned == pc' = "idle" /\ pc # "idle"

\* A run that returns EV_OK leaves no runnable message behind, so that the
\* runtime loop may take OK (not PARTIAL) as "drained"; and the report counts
\* every message handled, also when a handler's error unwinds three loops.
ReportTellsTruth ==
  [][Returned => /\ result' = "OK" => Runnable' = {}
                 /\ sys'.processed = handled']_vars

\* With one turn per domain, a run that is not cut short by a failing handler
\* serves every actor that had work when it began, however much the handlers
\* post meanwhile.
EveryoneServed ==
  [][Returned /\ result' \in {"OK", "PARTIAL"}
       /\ TurnBudget >= Cardinality(BoundDomains) => owed' = {}]_vars

\* No actor starves: a waiting message of a bound actor in a bound domain is
\* eventually handled, even if other actors always post more or always fail.
NoStarvation ==
  \A a \in BoundActors : DomainOf[a] \in BoundDomains =>
    (pending[a] > 0 ~> pc = "actor" /\ act.actor = a)

=============================================================================
