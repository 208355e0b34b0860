---------------------------- MODULE TimerService ----------------------------
(***************************************************************************)
(* The timer service (runtime/src/ev_timer_service.c): a fixed number of   *)
(* slots holding one-shot and periodic deadlines in wrapping milliseconds. *)
(*                                                                         *)
(* The clock of the model counts without wrapping; the program sees it     *)
(* modulo TimeMod.  begun and fired are the history of a slot's present    *)
(* occupant, from which the properties tell the true deadline.             *)
(***************************************************************************)
EXTENDS Integers, Sequences, FiniteSets, FiniteSetsExt

CONSTANTS
  SlotCount,   \* EV_TIMER_SERVICE_CAPACITY
  GenMod,      \* number of values of the slot's generation (2^16)
  TimeMod,     \* number of values of the millisecond clock (2^32)
  Delays,      \* delays and periods clients ask for
  MaxLate,     \* longest time by which polling is late for a deadline
  StartClock,  \* uptime when the service is initialised
  MaxClock,    \* bound: last instant of a run
  MaxTimers    \* bound: timers scheduled in a run

(***************************************************************************)
(* Signed comparison of wrapping times is meaningful while no two of the   *)
(* times compared lie half a turn of the clock apart.                      *)
(***************************************************************************)
ASSUME TimerAssumption ==
  /\ SlotCount \in Nat \ {0}
  /\ {MaxLate, StartClock, MaxClock, MaxTimers} \subseteq Nat
  /\ GenMod \in Nat /\ GenMod > 2
  /\ TimeMod \in Nat \ {0} /\ Delays \subseteq Nat
  /\ \A delay \in Delays : 2 * (delay + MaxLate) < TimeMod

VARIABLES
  slots,       \* the program's slots
  counters,    \* scheduled, cancelled, published
  tokens,      \* every token handed out, in order: clients may keep them
  clock,       \* time, not wrapped
  begun,       \* when a slot's occupant was scheduled
  fired        \* how often its deadline was served

timerVars == <<slots, counters, tokens, clock, begun, fired>>

Slots == 0 .. SlotCount - 1

(***************************************************************************)
(* The program's arithmetic.                                               *)
(***************************************************************************)
NowMs == clock % TimeMod

\* (int32_t)(a - b) >= 0
NotBefore(a, b) == 2 * ((a - b) % TimeMod) < TimeMod

ev_timer_is_due(now, deadline) == NotBefore(now, deadline)

NextGeneration(g) == IF (g + 1) % GenMod = 0 THEN 1 ELSE (g + 1) % GenMod

Active == {i \in Slots : slots[i].active}
Due == {i \in Active : ev_timer_is_due(NowMs, slots[i].deadline)}

\* Faulty variant: deadlines compared as unsigned numbers.
NextDeadlineUnsigned ==
  IF Active = {} THEN [found |-> FALSE, at |-> 0]
  ELSE [found |-> TRUE, at |-> Min({slots[i].deadline : i \in Active})]

\* The best of the first i slots in the loop of ev_timer_next_deadline_ms.
BestDeadline[i \in 0 .. SlotCount] ==
  IF i = 0 THEN [found |-> FALSE, at |-> 0]
  ELSE LET slot == slots[i - 1]
           prev == BestDeadline[i - 1]
       IN  IF /\ slot.active
              /\ prev.found => ~NotBefore(slot.deadline, prev.at)
           THEN [found |-> TRUE, at |-> slot.deadline]
           ELSE prev

NextDeadline == BestDeadline[SlotCount]

TimerInit ==
  /\ slots = [i \in Slots |-> [active |-> FALSE, periodic |-> FALSE,
                               generation |-> 0, deadline |-> 0, period |-> 0]]
  /\ counters = [scheduled |-> 0, cancelled |-> 0, published |-> 0]
  /\ tokens = << >>
  /\ clock = StartClock
  /\ begun = [i \in Slots |-> 0]
  /\ fired = [i \in Slots |-> 0]

(***************************************************************************)
(* ev_timer_schedule takes the first free slot.  With none free, or with a *)
(* delay of zero, it returns an error and changes nothing.                 *)
(***************************************************************************)
Schedule(delay, periodic) ==
  /\ delay # 0
  /\ Active # Slots
  /\ counters.scheduled < MaxTimers
  /\ LET i == Min(Slots \ Active)
         g == NextGeneration(slots[i].generation)
     IN  /\ slots' = [slots EXCEPT ![i] =
              [active |-> TRUE, periodic |-> periodic, generation |-> g,
               deadline |-> (NowMs + delay) % TimeMod, period |-> delay]]
         /\ tokens' = Append(tokens, [slot |-> i, generation |-> g])
         /\ begun' = [begun EXCEPT ![i] = clock]
         /\ fired' = [fired EXCEPT ![i] = 0]
  /\ counters' = [counters EXCEPT !.scheduled = @ + 1]
  /\ UNCHANGED clock

\* Faulty variant: the token's generation is not compared.
TokenValidAnyGeneration(t) == t.slot < SlotCount /\ slots[t.slot].active

ev_timer_token_valid(t) ==
  /\ t.slot < SlotCount
  /\ slots[t.slot].active
  /\ slots[t.slot].generation = t.generation

\* An invalid token gets EV_ERR_NOT_FOUND and changes nothing.
Cancel(t) ==
  /\ ev_timer_token_valid(tokens[t])
  /\ slots' = [slots EXCEPT ![tokens[t].slot].active = FALSE]
  /\ counters' = [counters EXCEPT !.cancelled = @ + 1]
  /\ UNCHANGED <<tokens, clock, begun, fired>>

(***************************************************************************)
(* ev_timer_publish_due serves due slots in index order until max of them  *)
(* were delivered.  ok is the set of due slots whose target accepts the    *)
(* message; a refused one is served too and costs no budget.               *)
(***************************************************************************)
Visited(ok, max) == {i \in Due : Cardinality({j \in ok : j < i}) < max}

\* Faulty variant: the next period is counted from the poll, not from the deadline.
ServedDrifting(slot) ==
  IF slot.periodic
    THEN [slot EXCEPT !.deadline = (NowMs + slot.period) % TimeMod]
    ELSE [slot EXCEPT !.active = FALSE]

Served(slot) ==
  IF slot.periodic
    THEN [slot EXCEPT !.deadline = (@ + slot.period) % TimeMod]
    ELSE [slot EXCEPT !.active = FALSE]

PublishDue(max, ok) ==
  /\ max # 0
  /\ ok \subseteq Due
  /\ LET visited == Visited(ok, max)
     IN  /\ slots' = [i \in Slots |->
              IF i \in visited THEN Served(slots[i]) ELSE slots[i]]
         /\ fired' = [i \in Slots |->
              IF i \in visited THEN fired[i] + 1 ELSE fired[i]]
         /\ counters' = [counters EXCEPT !.published = @ + Cardinality(visited \cap ok)]
  /\ UNCHANGED <<tokens, clock, begun>>

\* The true deadline of a slot's occupant.
Deadline(i) == begun[i] + (fired[i] + 1) * slots[i].period

(***************************************************************************)
(* Time passes, and the poll loop never lets a deadline wait longer than   *)
(* MaxLate.                                                                *)
(***************************************************************************)
TimerTick ==
  /\ clock < MaxClock
  /\ \A i \in Active : clock + 1 <= Deadline(i) + MaxLate
  /\ clock' = clock + 1
  /\ UNCHANGED <<slots, counters, tokens, begun, fired>>

TimerNext ==
  \/ \E delay \in Delays, periodic \in BOOLEAN : Schedule(delay, periodic)
  \/ \E t \in DOMAIN tokens : Cancel(t)
  \/ \E max \in 0 .. SlotCount, ok \in SUBSET Due : PublishDue(max, ok)
  \/ TimerTick

TimerSpec == TimerInit /\ [][TimerNext]_timerVars

(***************************************************************************)
(* Properties.                                                             *)
(***************************************************************************)

(* Types of the slots, tokens and counters; a generation stays in its 16   *)
(* bits and an active slot never has the generation 0 of a zeroed token.   *)
TimerTypeOK ==
  /\ slots \in [Slots -> [active : BOOLEAN, periodic : BOOLEAN,
                          generation : 0 .. GenMod - 1,
                          deadline : 0 .. TimeMod - 1, period : Nat]]
  /\ \A i \in Active : slots[i].generation # 0 /\ slots[i].period # 0
  /\ counters \in [scheduled : Nat, cancelled : Nat, published : Nat]
  /\ tokens \in Seq([slot : Slots, generation : 1 .. GenMod - 1])
  /\ clock \in Nat
  /\ begun \in [Slots -> Nat] /\ fired \in [Slots -> Nat]

(* ev_timer_is_due is exact across wraps of the clock: a slot is due when  *)
(* fewer deadlines of its occupant were served than periods have passed    *)
(* since it was scheduled.  No deadline is served early, none is skipped   *)
(* by a late poll or a refused delivery, and a periodic timer does not     *)
(* drift.                                                                  *)
DueIsExact ==
  \A i \in Active :
    i \in Due <=> fired[i] < (clock - begun[i]) \div slots[i].period

(* ev_timer_next_deadline_ms returns the earliest true deadline, although  *)
(* it compares wrapped times of overdue and future slots pairwise.         *)
NextDeadlineExact ==
  /\ NextDeadline.found <=> Active # {}
  /\ Active # {} => NextDeadline.at = Min({Deadline(i) : i \in Active}) % TimeMod

(* A token cancels the timer it was issued for and no later occupant of    *)
(* its slot, unless it was kept for a whole turn of the generation.        *)
CancelHitsOwn ==
  \A t \in DOMAIN tokens :
    ev_timer_token_valid(tokens[t]) =>
      LET later == {u \in DOMAIN tokens : u > t /\ tokens[u].slot = tokens[t].slot}
      IN  later = {} \/ Cardinality(later) >= GenMod - 1

=============================================================================
