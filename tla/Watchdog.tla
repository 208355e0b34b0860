------------------------------- MODULE Watchdog -------------------------------
(***************************************************************************)
(* The watchdog actor (actors/framework/ev_watchdog_actor.c) with the      *)
(* liveness function of the demo (apps/demo/ev_demo_policy.c): on every    *)
(* tick of one second it compares the pumps' counters with the ones it saw *)
(* a tick ago, and feeds the hardware only if they moved.                  *)
(*                                                                         *)
(* The pumps are abstracted to those counters.  A domain pump counts its   *)
(* call when it starts; the system pump adds the turns of a call when the  *)
(* call ends, so a tick handled inside a call does not see them.  The      *)
(* empty and budget counters of a domain move only with its calls.         *)
(***************************************************************************)
EXTENDS Naturals

CONSTANTS
  WdDomains,      \* EV_DOMAIN_FAST_LOOP, EV_DOMAIN_SLOW_IO
  WdMod,          \* number of values of the turn counter (2^32)
  WdCallMod,      \* number of values of a domain's counter (2^32)
  WdBurst         \* bound: turns of a call, and between two ticks

ASSUME WdAssumption ==
  /\ {WdMod, WdCallMod, WdBurst} \subseteq Nat \ {0}
  /\ 3 * WdBurst < WdMod /\ WdBurst < WdCallMod

VARIABLES
  wd,             \* ev_watchdog_actor_ctx_t
  wdSys,          \* what the liveness function reads of the pumps
  wdOpen,         \* turns of the system pump's call that is under way
  wdSince,        \* since the last tick: turns, a call ended, domains pumped
  wdTick          \* the last tick: alive, fed; the one before: alive and not fed

wdVars == <<wd, wdSys, wdOpen, wdSince, wdTick>>

WdNone == [turns |-> 0, ended |-> FALSE, pumped |-> {}]

WdInit ==
  /\ wd = [enabled |-> FALSE, refused |-> FALSE, has_last |-> FALSE, turns |-> 0,
           calls |-> [d \in WdDomains |-> 0]]
  /\ wdSys = [turns |-> 0, healthy |-> TRUE, arming |-> FALSE,
              calls |-> [d \in WdDomains |-> 0], pending |-> {}, failing |-> {}]
  /\ wdOpen = 0
  /\ wdSince = WdNone
  /\ wdTick = [alive |-> FALSE, fed |-> FALSE, missed |-> FALSE]

\* ev_watchdog_actor_init: a board whose watchdog is not supported or cannot be
\* enabled does not start.
WdEnable ==
  /\ ~wd.enabled /\ ~wd.refused
  /\ \E ok \in BOOLEAN : wd' = [wd EXCEPT !.enabled = ok, !.refused = ~ok]
  /\ UNCHANGED <<wdSys, wdOpen, wdSince, wdTick>>

\* A domain takes a turn, with a healthy result or not, and leaves messages or
\* not.
WdPump ==
  /\ wd.enabled
  /\ wdSince.turns < WdBurst /\ wdOpen < WdBurst
  /\ \E d \in WdDomains, failing, left \in BOOLEAN :
       /\ wdSys' = [wdSys EXCEPT
                      !.calls[d] = (@ + 1) % WdCallMod,
                      !.failing = IF failing THEN @ \cup {d} ELSE @ \ {d},
                      !.pending = IF left THEN @ \cup {d} ELSE @ \ {d}]
       /\ wdSince' = [wdSince EXCEPT !.turns = @ + 1, !.pumped = @ \cup {d}]
  /\ wdOpen' = wdOpen + 1
  /\ UNCHANGED <<wd, wdTick>>

\* The system pump's call ends.
WdCallEnds ==
  /\ wdOpen > 0
  /\ \E ok \in BOOLEAN :
       wdSys' = [wdSys EXCEPT !.turns = (@ + wdOpen) % WdMod, !.healthy = ok]
  /\ wdOpen' = 0
  /\ wdSince' = [wdSince EXCEPT !.ended = TRUE]
  /\ UNCHANGED <<wd, wdTick>>

\* A message for a domain.
WdPost ==
  /\ wd.enabled
  /\ \E d \in WdDomains : wdSys' = [wdSys EXCEPT !.pending = @ \cup {d}]
  /\ UNCHANGED <<wd, wdOpen, wdSince, wdTick>>

\* ev_demo_app_sleep_arm, ev_demo_app_sleep_disarm
WdArm ==
  /\ wd.enabled
  /\ wdSys' = [wdSys EXCEPT !.arming = ~@]
  /\ UNCHANGED <<wd, wdOpen, wdSince, wdTick>>

\* ev_watchdog_snapshot_is_healthy
WdHealthy ==
  /\ ~wdSys.arming
  /\ wdSys.healthy
  /\ wdSys.turns # 0
  /\ wd.has_last => wdSys.turns > wd.turns
  /\ \A d \in WdDomains :
       /\ d \notin wdSys.failing
       /\ wd.has_last /\ d \in wdSys.pending => wdSys.calls[d] # wd.calls[d]

\* What the check is for, told without the counters.
WdAlive ==
  /\ ~wdSys.arming /\ wdSys.healthy /\ wdSys.failing = {}
  /\ wdSince.ended
  /\ wd.has_last => wdSys.pending \subseteq wdSince.pumped

WdNextTick(fed) ==
  [alive |-> WdAlive, fed |-> fed, missed |-> wdTick.alive /\ ~wdTick.fed]

\* Faulty variant: a snapshot that is rejected is not kept.
WdHandleTickForgetful ==
  /\ wd.enabled
  /\ wd' = IF WdHealthy
             THEN [wd EXCEPT !.has_last = TRUE, !.turns = wdSys.turns, !.calls = wdSys.calls]
             ELSE wd
  /\ wdTick' = WdNextTick(WdHealthy)
  /\ wdSince' = WdNone
  /\ UNCHANGED <<wdSys, wdOpen>>

\* ev_watchdog_actor_handle on EV_TICK_1S: the snapshot is kept whether it is
\* rejected, fed, or the feeding failed.
WdHandleTick ==
  /\ wd.enabled
  /\ wd' = [wd EXCEPT !.has_last = TRUE, !.turns = wdSys.turns, !.calls = wdSys.calls]
  /\ wdTick' = WdNextTick(WdHealthy)
  /\ wdSince' = WdNone
  /\ UNCHANGED <<wdSys, wdOpen>>

\* The board did not start: nothing more happens.
WdStopped == wd.refused /\ UNCHANGED wdVars

WdNext ==
  \/ WdEnable \/ WdPump \/ WdCallEnds \/ WdPost \/ WdArm \/ WdHandleTick
  \/ WdStopped

-----------------------------------------------------------------------------

\* A tick feeds the hardware only if since the tick before a call of the system
\* pump ended, every domain with messages was pumped, no pump reports an error
\* and the board is not arming for sleep; and a board that is alive at two
\* ticks in a row is fed at one of them, although the counters it is judged by
\* wrap and pass zero (ev_watchdog_actor.c:66-91).
FedMeansAlive ==
  /\ wdTick.fed => wdTick.alive
  /\ wdTick.missed /\ wdTick.alive => wdTick.fed
=============================================================================
