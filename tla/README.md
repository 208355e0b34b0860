# A verification project for the ESP8266 event-driven framework

The framework runs actors on one cooperative task: interrupts and network
callbacks leave samples in small rings, a poll loop turns them into messages,
routes carry the messages into the actors' mailboxes, and pumps hand them to the
actors' handlers under budgets.  Everything is statically allocated, so every
ring, pool, mailbox and budget has a limit, and what happens at the limits is
where the design lives.  This directory holds TLA+ modules of that machinery, TLC
configurations that check them, and machine-checked proofs of most of their safety
properties for every value of the constants.

Paths below are relative to the repository's root; `[x]` after a module names the run.

## 1. Inventory

| Component | State it keeps | Operations | Talks to | What makes it correct |
|---|---|---|---|---|
| Lease pool `core/src/ev_lease_pool.c` | slots with reference count, generation, size; diagnostics | acquire, retain, release, attach to an envelope, envelope callbacks | envelopes, mailboxes, network payloads | each share is released once; no buffer is recycled under a holder; stale handles are refused |
| Message envelope `core/src/ev_msg.c`, `ev_dispose.c` | event, payload kind, storage, lifecycle callbacks | init, set payload, retain, dispose, validate | lease pool, mailbox | a copy has a share of its own; dispose is idempotent |
| Mailbox `core/src/ev_mailbox.c` | ring, head, tail, count, statistics | push (four kinds), push with QoS, pop, reset | delivery, actor runtime | order kept, merging exact, every lease released once |
| Actor runtime, registry `core/src/ev_actor_runtime.c` | mailbox, handler, statistics | deliver, process one, pump | delivery, domain pump | at most the drain budget per pump |
| Domain pump `core/src/ev_domain_pump.c` | round-robin cursor | run with a quantum | actor runtimes | every actor of the domain gets a share |
| System pump `core/src/ev_system_pump.c` | cursor over domains, statistics | run with a turn budget | domain pumps | every domain gets a turn; reports are exact also on errors |
| Runtime scheduler `runtime/src/ev_runtime_scheduler.c` | active domains | poll once | system pump, runtime loop | OK means drained, PARTIAL means more to do |
| Runtime builder, graph `runtime/src/ev_runtime_graph.c` | requested actors, instances, flags | add, bind routes, build, initialise | route table, registry | enabled routes have an actor behind them |
| Active route table `runtime/src/ev_active_route_table.c` | state and reason per route | add, span of an event | builder, delivery | grouped by event |
| QoS contract `runtime/src/ev_qos_contract.c` | - | classify failures, validate routes | builder, delivery | strict classes fail loudly, others drop |
| Delivery service `runtime/src/ev_delivery_service.c` | report of the publication | publish, send | route table, registry, metrics, fault bus | result, report and counters tell what reached whom |
| Timer service `runtime/src/ev_timer_service.c` | slots with wrapping deadlines and generations | schedule, cancel, publish due, next deadline | runtime loop, quiescence | no deadline early, skipped or drifting, across a wrap |
| Runtime loop `runtime/src/ev_runtime_loop.c` | the poll's report | poll once | collection, scheduler, timers | a poll ends within its budgets, and its result is true |
| Demo poll `apps/demo/ev_demo_app.c` | policy, flags | collect ingress, work pending | IRQ and network adapters | no source locks out another |
| Runtime application `.../ev_runtime_app.c` | - | poll, wait, restart | demo poll, IRQ adapter | no wakeup is missed |
| IRQ adapter `.../ev_irq_adapter.c` | sample ring, semaphore, lines, sleep mask | ISR, pop, wait, enable, prepare/abort/commit sleep | main task, system adapter | samples wake the task; failed sleep leaves lines armed |
| Network adapter `.../ev_net_adapter.c` | connection flags, ring, payload slots | Wi-Fi and MQTT callbacks, poll, publish | network actor | flags tell the truth, the link recovers, no payload slot leaks |
| Network actor `actors/framework/ev_network_actor.c` | connection state, rate limit | handle link events, telemetry | network adapter | not behind the adapter for good; telemetry counted and limited |
| Power actor, power state machine, sleep policy, quiescence | phase of the sleep protocol | handle the sleep command | system adapter, IRQ adapter, timers | no sample slept over; failure restores |
| OLED actor `actors/device/ev_oled_actor.c` | framebuffer, staging, dirty windows, state, retry delay | boot, tick, text, commit | panel over I2C, supervisor | READY means that the framebuffer is on the glass; staged contents get there |
| DS18B20 actor, driver `actors/device/ev_ds18b20_actor.c` | conversion pending, clock of handled ticks | boot, tick | 1-Wire sensor | a scratchpad is read when its conversion is over |
| BH1750 actor, driver `actors/device/ev_bh1750_actor.c` | measurement pending, retry delay | boot, tick | sensor over I2C | an absent sensor is left alone ever longer |
| RTC actor `actors/device/ev_rtc_actor.c` | last edge and poll, time | boot, tick, interrupt | clock chip | the published time is true and fresh |
| MCP23008, panel actors `actors/device/ev_mcp23008_actor.c`, `ev_panel_actor.c` | shadows of inputs and LEDs; debouncing per button | boot, tick, LED command; inputs, tick | port expander, application | application, panel and expander agree |
| Supervisor `actors/framework/ev_supervisor_actor.c` | seen devices, settling ticks | boot, READY, tick | device actors, application | SYSTEM_READY names the devices there are |
| Watchdog actor `actors/framework/ev_watchdog_actor.c` | last snapshot of the pumps' counters | tick | pumps, hardware watchdog | fed only while the system makes progress |
| Command actor `actors/framework/ev_command_actor.c` | armed nonce, last execution per kind | message, tick | network actor, LED, display, power actor | sleep only after arm and confirm |
| Demo actors `apps/demo/ev_demo_policy.c`, `ev_demo_presentation.c` | place of the block, paused flag, snapshot, lease slots | ready, tick, button, snapshot | display, LED | what is seen follows the actor; no slot leaks |
| I2C adapter `.../ev_i2c_adapter.c` | mutex, lines, deadline | write, read, write-read, probe, recover, sleep | device actors | the bus is returned free however a call ends |
| Ingress service, outbox, fault bus `runtime/src/` | rings with wrapping sequence numbers; records by key | push, pop; emit, drain, acknowledge | delivery, quiescence | nothing accepted is lost or counted twice |
| Trace ring, metrics, catalogs and descriptors, 1-Wire adapter, board support and HIL targets, tools, boot diagnostics, demo wiring, power manager, simple poll | see PROJECT.json | | | not modelled, section 7 |

(`...` is `adapters/esp8266_rtos_sdk/components/ev_platform`.)

**How they interact.** The GPIO interrupt pushes a sample and gives a semaphore; the
Wi-Fi and MQTT tasks of the SDK push network events under a critical section. The
main task alone runs everything else: `ev_esp8266_runtime_app_run` calls
`ev_demo_app_poll`, whose `ev_runtime_loop_poll_once` collects samples, publishes
them through the delivery service, drains mailboxes through the scheduler, serves
timers, drains again and says whether to wait. Handlers publish too, from inside the
pumps, so a run of the scheduler changes the queues it is draining. An error of any
handler unwinds actor pump, domain pump, system pump, loop and poll, and the main
task answers everything but `EV_ERR_PARTIAL` with a restart.

**What is hard here.** (1) Ownership: a lease is shared by handles and by copies of
envelopes that nobody counts in one place, and the callbacks of an envelope ignore
generations. (2) Preemption: interrupts and two SDK tasks step in between any two
steps of the main task and of each other. (3) Limits: each ring that is full drops
something, and three layers count it. (4) Partial failure: a fan-out that fails in
the middle, a build that fails half registered, a sleep preparation that fails with
some lines off, a bus transaction abandoned inside a byte. (5) Wrapping numbers:
generations, milliseconds, ticks, sequence numbers, and with them every comparison of
ages. (6) Fairness by budget: nothing is preempted, so liveness rests on cursors and
quanta. `hazards` in
PROJECT.json lists each at its line with the properties aimed at it.

## 2. Plan

In this order, the most important behaviour first; done items have their run.

1. `LeasePool` and its proofs, because every payload rests on it. Done [lease_pool].
2. `MailboxContract` (messages, policies on a sequence), `MailboxQueue` (the abstract
   mailbox), `Mailbox` (the ring), the ring shown to implement the queue. Done [mailbox].
3. `Scheduler`: the three nested pumps, with starvation freedom. Done [scheduler].
4. `QosContract`, `Delivery`: building a graph and publishing, over `MailboxContract`. Done [delivery].
5. `TimerService`. Done [services].
6. `NetLink`: network adapter with network actor. Done [main_loop].
7. `RuntimeLoop`: main task, loop, collection and interrupts. Done [main_loop].
8. `SleepEntry`: power actor, state machine, policy and adapters. Done [actors].
9. `Oled`: the display actor over a bus that fails half-way. Done [actors].
10. The payloads and services around these: `NetPayload`, `Telemetry`, `I2cBus`,
    `Queues`, `Watchdog`. Done [services].
11. The other actors: `Ds18b20`, `Bh1750`, `Rtc`, `Buttons`, `Startup`, `Command`,
    `Demo`. Done [actors].
12. Proofs of the safety properties the runs check, a module of proofs per module of
    composition: `LeasePoolProofs`, `MailboxProofs`, `SchedulerProofs`, `MainLoopProofs`,
    `ServicesProofs`, `ActorsProofs`, `DeliveryProofs`, with `CommonLemmas` underneath.
    Done: every safety property of a passing run is a theorem; section 6 lists them.
13. Open: what section 7 names, in particular the 1-Wire adapter and the power manager
    once something in the product asks it.

Room for runs and properties is limited on purpose: a new component comes with the
two or three properties a reader of the code would argue about.

## 3. Modules

Each definition's source lines are in PROJECT.json under `map`. Names follow the
source where TLA+ allows it. Definitions introduced by a comment "Faulty variant"
are not used by any specification; they are the plausible bugs with which each
property is shown to be sensitive (`mutants`).

**LeasePool.** `slots` and `stats` are `ev_lease_pool_t`. A client is one
`ev_lease_handle_t` variable; an element of `Msgs` is one envelope. `Acquire`,
`Retain`, `Release`, `AttachMsg` are the functions of the same name; `CopyMsg` and
`DisposeMsg` are `ev_msg_retain` and `ev_msg_dispose`, which reach the pool through
the envelope's callbacks (`PoolRetain`, `ReleaseFromSlot`: these check in-use, size
and reference count, not the generation). `owns`, `incarnation`, `handleInc`,
`msgInc` are history variables. A client releases its share once; a handle without a
share may still be used and must be refused once its slot has been given back.

**MailboxContract / MailboxQueue / Mailbox.** The contract defines what a push does
to the *sequence* of pending messages; `Mailbox` does it in the ring with head, tail,
count and per-kind branches as in `ev_mailbox.c`, and also counts the shares of
each lease. Producers fill envelopes, push them (the queue retains a copy) and
dispose of theirs; `Pop` hands the queued share to the handler's envelope, and
`Consumed` disposes of it. `Mailbox!ImplementsQueue` is the refinement.

**Scheduler.** Mailboxes are depths. `pc` says which of the three loops is running;
`sys`, `dom`, `act` are their locals and reports. A handler posts to any set of
actors or fails; failure unwinds all three loops in one step, `FailRun`, which is
lines 219-241 of the system pump with everything they return through.

**QosContract / Delivery.** Builder calls in any order, then publications, one route
of the fan-out per step, so that intermediate reports are states. Mailboxes are
sequences that obey `MailboxContract`. The registry's, the runtimes' and the metrics'
counters are all kept, because agreeing is what could go wrong. The fault registry
is bounded as in the code: full, it drops a record of a new key, and neither the builder
nor delivery looks at the result. No code of the product drains it, so it fills once.

**TimerService.** Slots and tokens as in the code. The program sees the clock modulo
`TimeMod`; the model's clock does not wrap, so that true deadlines can be compared.

**NetLink.** `wifi_connected`, `mqtt_connected` are the adapter's flags; `wifiTodo`
and `mqttTodo` hold what a callback has left to do after its locked section, since
each push takes the lock anew. `Poll` moves an event into the network actor.
The access point, the radio and the MQTT session are the environment.

**RuntimeLoop.** `pc` walks through one poll: collect IRQ samples, collect network
samples, drain, read the clock, serve timers, drain, finish, wait, block. Interrupts,
network callbacks and the clock step in between any two of these. Actors are a number
of queued messages: what becomes of each is in `Scheduler` and `Delivery`. A timer is
a number of missed deadlines; one call for due timers visits each slot at most once and
stops at the first successful delivery, and the poll ends when a call delivers nothing.

**SleepEntry.** The handler of `EV_SYS_GOTO_SLEEP_CMD` step by step: arm, guard,
flush the log, look at the ring, turn lines off one by one, park the buses, look at
the ring again, save, commit, enter. Edges, deadlines and failures between any two.

**Oled.** `oled` is `ev_oled_actor_ctx_t` together with the glass. A handler is the
set of contexts it may leave, one for each place where a transfer fails; what was sent
before that place is on the glass. `pending_flush` and the page mask follow from the
windows. `retry_due_tick - tick_counter` is `wait`: in ERROR a due tick either leaves the
state or schedules anew, so the wrapping counter never gets half a turn behind. The
contents of the glass at power-on and after a restart are the panel's, not the actor's.

**NetPayload.** The slots of MQTT messages too long for an event. The MQTT task
acquires a slot, copies, and pushes into the ring or releases, each under a lock of its
own; the main loop attaches the slot to a message, one share per delivery, and each
actor's envelope gives its share back. A short message holds no slot.

**Telemetry.** The network actor's `publish` path: what the actor believes of the
connection, the adapter's flag, and the client's session are three variables, and the
MQTT task may run between the adapter's look at its flag and its call of the client.
Every message ends as sent, failed, limited or dropped.

**I2cBus.** The bit-banging master; one action is the code between two releases of the
clock line. The device may withhold an acknowledge, stretch the clock, or be left inside
a byte; the deadline passes at any moment. A byte has one data bit and its acknowledge.
A stream read of no bytes is accepted, and makes the device transmit while the master wants
to stop. Calls with invalid arguments return without coming to the bus.

**Queues.** Ingress ring, network outbox and fault registry, three parts that share only
the constants. `inOwed` and `obOwed` are history: what was accepted and is still owed.

**Watchdog.** The counters of the pumps, moved by a small model of when the pumps move
them, and the actor that judges them on its tick and feeds the hardware.

**Ds18b20, Bh1750.** Each actor with its driver and sensor. The actor's clock is the
number of ticks it handled; the sensor's time is real, and ticks wait in the mailbox.

**Rtc.** Registers in BCD in either hour mode, the square wave that may never start or
stop, and the actor's decoding and calendar loops. The reference is a count of seconds.

**Buttons.** Expander, MCP23008 actor and panel actor with their mailboxes: ticks reach
the panel first, and register transfers fail one by one.

**Startup.** The supervisor and the mailbox of READYs and ticks, for three boards.

**Command.** Payloads are sequences of pairs, values sequences of characters, so that
the parsing of keys, nonces and numbers with their limits is modelled by what it does.
`cmdOut` keeps the command a message published and that message; `cmdArm` is history, taken
from the arm message itself, so that the confirm received is compared with it.

**Demo.** Application and diagnostics actor, display and LED, and the slots scenes and
snapshots travel in. The four slots and their reference counts are the lease pool of the
application; what the pool itself guarantees is in `LeasePool`.

**Services, Actors, MainLoop.** Sums of these modules: `part`, chosen by `Init` and
never changed, says which one runs. The parts share no variable, so a behaviour of all
of them is an interleaving of one of each, and an invariant or an action property of one part
holds of all behaviours if it holds of those in which only this part runs. What a part needs of
another (a full mailbox, a failing bus, a restart) is a step of its own model. In `MainLoop`
each part has its own fairness.

`MC*` modules give constants their values. `*Proofs` modules hold theorems, each about the
module it is named for, and `CommonLemmas` what they share; section 6.

## 4. Runs

Passing runs (`expect: pass`):

| Run | Bounds | What it shows |
|---|---|---|
| `lease_pool` | 2 slots, 2 handles, 2 envelopes, generations modulo 3, 4 acquires, 3 retains, 1 refusal | counts are shares, no recycling under a holder, stale handles refused, owners accepted |
| `mailbox` | ring of 2, all 4 kinds, 4 events (one of each payload kind and merging class), 2 leases, 3 pushes | no lease leaked or freed early, merging, reports, refinement of `MailboxQueue` |
| `scheduler` | 4 actors, 3 domains of which 2 are active, budgets 1 and 2, depth 2 | OK means drained, everybody is served, reports are exact, nobody starves |
| `delivery` | 3 actors, 7 routes over 6 QoS classes, one actor the board lacks, mailboxes of 1, 2 posts by 2 actors, 2 fault records | results, reports, table and counters agree |
| `services` | timers: 2 slots, 3 timers, clock modulo 11 wrapping in the run, generations modulo 3, polls 2 late; 2 payload slots, ring and mailboxes of 2; telemetry of 2 kinds, 3 messages, ticks modulo 4; I2C: 2 bytes of payload and none, 3 recovery pulses; queues of 3, sequence numbers modulo 6, 4 faults of 3 keys in 2 records; watchdog: 2 domains, counters modulo 7 and 3, bursts of 2 | deadlines exact across the wrap, tokens hit their own timer; no payload slot leaked or reused early; telemetry counted and spaced; the bus returned; nothing lost in the stores; fed means alive |
| `main_loop` | loop: 2 lines, rings of 2 and 1, 2 timers late by up to 1 and 2 deadlines, 2 samples, 2 turns, 3 messages per poll; link: ring of 2, reconnect window of 2 steps | no missed wakeup, OK means done, polls end, no lock-out; flags, the actor's view, recovery |
| `actors` | sleep: 3 lines, ring of 2; display: 2 pages of 2 columns, 3 scenes, texts in 2 places, 2 failing transfers, 1 restart, delay 2; DS18B20: tick 2, wait 3, clock modulo 12, 2 waiting ticks; BH1750: delay 1 doubling to 10, clock modulo 26; RTC: 4 seconds, from just before a new year, a leap day, the first of March in a leap and in a common year, and noon; 2 buttons, debounce 1, long press 2; start-up: 3 devices, 3 boards; commands: 25 messages, window 2, ticks modulo 6; demo: 2 slots, mailbox of 2, 3 columns, 2 pages | no sample slept over, failure restores; READY shows the framebuffer, what is pending is shown in time; no read earlier than the lag; backoff; fresh time; buttons agree; readiness is told; sleep is confirmed; no scene slot leaks, what is seen follows the actor |

Some properties have several parts because they answer one question.
`PushTellsTruth`, `ReportTellsTruth`, `ResultTellsTruth` and `TelemetryTellsTruth` each
compare everything one call reports with what it did; `FailureRestores` includes that the
power state machine allows every step the handler takes; `ReadyShowsFramebuffer` that dirty windows cover
what differs.

*Why these bounds are enough.* Each is the smallest at which the case it is there
for occurs, and the mutants confirm that it does: two sharers of one slot plus a
second slot, and a generation counter that wraps within four acquires; a ring of two
that both overflows and wraps within three pushes and a pop; two actors in one
domain with unequal budgets next to a second domain, plus one bound actor in a domain
outside the mask; a fan-out with a strict route between droppable ones; a wrap of the clock
while a periodic timer is overdue; two callbacks of different tasks in flight at
once, and a ring with less room than one callback pushes; three lines, so that preparation can fail in
the middle with lines on both sides; two pages of two columns, so that a transfer fails
between pages and inside one, and a second failure hits the recovery from the first; a
third message for two payload slots; a device that holds the line for longer than the
recovery's pulses, and one that does not; sequence numbers that wrap twice in a ring of three;
a delay that doubles four times and then meets its limit, on a clock that
wraps meanwhile; the ends of the year and of February, in leap and common years; a nonce, a text and a number one
beyond each limit. Symbols of commands are those the parser tells apart.

Runs that show a disagreement (`expect: violation`), each with its entry under `findings`:

- `net_reconnect`: a disconnection within a second of the previous attempt is not
  answered, and nothing tries again: the link stays down after the access point is back.
- `sleep_rejection`: a sleep command that is rejected for a pending sample makes the
  handler fail, which restarts the device and loses the sample.
- `oled_sync`: when the transfer of the framebuffer after the init sequence fails, the
  retry is scheduled but the state becomes READY: nothing retries, and the panel keeps
  its old contents. `ReadyShowsFramebuffer` excepts exactly this (`sync_lost`), and so
  says that it is the only way to get there.
- `ds18b20_early`: ticks that wait when a conversion starts count towards it, and the
  scratchpad is read early by that much. `EarlyByLagOnly` says that by no more.
- `button_absorbed`: after a failed read the expander is configured anew, and what that
  reads becomes the shadow: a change in between is never published. `ButtonsAgree`
  excepts exactly this (`btAbsorbed`).

Smaller ones without a run of their own: a poll tests its turn budget before a
call of the scheduler and then grants a whole `scheduler_turn_budget`, so it may
exceed `max_turns` by that less one; a
handle released twice while an envelope shares its slot is accepted the second time;
`ev_system_pump_run` adds 1 to the cumulative turn counter on its error path, and not the
turns that ended well before it; the transition to ENTERING_DEEP_SLEEP comes after the call
that does not return, so on the device the last recorded state is RTC_STATE_SAVED;
a button pressed before SYSTEM_READY pauses the block and turns the LED off (`dmEarly`
in `PanelTellsTruth`); a transmit command the adapter refuses fails its handler, which
restarts the device (nobody in the demo sends one); and a measurement published when the tick
counter is `UINT32_MAX` stores the value that means "never", so the next one is not
limited (the exception in `TlSpaced`). A poll ends when a call for due timers delivers
nothing: a periodic timer that missed several deadlines and whose delivery fails keeps all
but one of them, and the poll still says EV_OK with budget to spare
(`ev_runtime_loop.c:168-171`; the exception in `OkMeansDone`; the main task does not wait
with a passed deadline, so the next poll goes on). A stream read of no bytes leaves the
device transmitting, so that the STOP may fail and a healthy bus is reported locked; the
recovery that follows has freed it (`ev_i2c_adapter.c:833`, the exception in
`BusIsReturned`), and calls with invalid arguments report a locked bus too. A full fault
registry drops the record of a failed delivery, and nobody hears of it
(`ev_fault_bus.c:36-40`, the exception in `ResultTellsTruth`).

Deadlock is checked in every run. `SYMMETRY` is used for handles, envelopes and lease
payloads only, which no definition distinguishes, and in no run with a liveness property.

## 5. Fairness

- `Scheduler!Spec`: `WF(Run)`. The main task calls the scheduler again and again, and
  the step of a run that has started is always taken. Posting is not fair.
- `RuntimeLoop!LoopFairness`: `WF(Main)`, the main task takes its steps (it is the only
  task at its priority that computes, and interrupts are finite work), and `WF(Timeout)`, the
  semaphore's wait has a timeout. Interrupts and callbacks are not fair, and may be
  as frequent as they like.
- `NetLink!NetFairness`: time passes, SDK tasks finish their callbacks, the poll loop
  polls, an attempt to connect has an outcome. Strong fairness on a *successful*
  attempt says only that an access point which is there again and again lets one attempt
  succeed; it is what "the operator restores the AP" means. `Prompt` is FALSE in
  `main_loop`: the SDK takes longer than the window to report a failed attempt. With
  `Prompt` TRUE, `net_reconnect` shows what happens otherwise.
- `Services` and `Actors` have none. `PendingIsShown` says when, not only that: while
  transfers succeed, what is pending is shown within `RetryDelay` ticks.

Safety properties hold of every behaviour, fairness aside.

## 6. Proofs

A theorem holds for every value of the constants that satisfies the assumptions named in
the modules. Those ask for what the code fixes: capacities and budgets that are
positive, finite sets of actors, lines and slots, counters whose width exceeds what can
pass between two readings, a ring whose size divides the width of its sequence numbers.
Bounds on the number of calls are arbitrary naturals, so they exclude no finite behaviour.

| Module of proofs | Theorems about the runs' properties | Inductive invariant |
|---|---|---|
| `LeasePoolProofs` | SharesCounted, EnvelopesSafe, OwnersAccepted, StaleRefused | `IInv` |
| `MailboxProofs` | SharesConserved, PushIsTold, RingImplementsQueue | `MbInv` |
| `SchedulerProofs` | ReportsAreTrue, AllAreServed | `ScInv`, `WorkLeft` |
| `MainLoopProofs` | NoWakeupIsMissed, OkPollIsDone; FlagsAreTrue, EveryConnectionIsSeen | `LoopInv`, `NetInv` |
| `ServicesProofs` | TimerDueIsExact, NextDeadlineIsEarliest, TokenCancelsItsOwn; BusIsAlwaysReturned; TelemetryIsTold; WatchdogFedMeansAlive; StoresConserveAll; PayloadsAreHeld | `TimerInv`, `TokenInv`; `I2cInv`; `TlInv`; `WdInv`; `InInv`, `ObInv`, `FbInv`; `NpInv` |
| `ActorsProofs` | NeverSleepsOverASample, EveryFailureRestores; GlassIsKnown, TicksShowWhatIsPending; NoEarlyRead; RetriesAreSpaced; ClockIsFresh; ThreeViewsAgree; HardwareIsTold; SleepNeedsConfirm; SlotsNeverLeak, PanelFollowsActor | `SleepInv`; `OledInv`; `DsInv`; `BhInv`; `RtcInv`; `BtInv`; `SvInv`; `CmdInv`; `DmInv` |
| `DeliveryProofs` | TableAgrees, CountersAgree, ResultIsTold | `DvInv` |
| `CommonLemmas` | counters that wrap, least elements, sums over sets, loops over integers | |

The type invariants of `LeasePool`, `Mailbox`, `Scheduler`, `SleepEntry`, `RuntimeLoop`,
`NetLink`, `TimerService`, `Oled` and `Delivery` are theorems as well. A part of a sum (`Services`,
`Actors`, `MainLoop`) is proved by itself, `PartInit /\ [][PartNext]_partVars =>
[]PartInv`, and carried over to the sum, whose steps are steps or stutters of each part.
`MainLoopProofs!PartsRunTheirSpecs` states that for both parts of `MainLoop`.

*Lease pool.* `RefcountIsShares` alone is not inductive: whether a release is accepted
depends on generations, so that shares could be taken by a stale handle. `IInv` conjoins
TypeOK, RefcountIsShares and InUseIsExact with four facts:

- `HoldersOK`: who owns a share names a slot (an envelope also the kind that may carry one);
- `EnvelopesCurrent`: an envelope was attached to the *present* incarnation of its
  slot and agrees with its size. That is why callbacks can ignore generations: its own
  share keeps the slot from being recycled;
- `OwnersCurrent`: likewise for handles, whose generation is then the slot's;
- `GenerationsTrack`: the generation a handle carries is determined by the number of
  acquisitions since it was issued, as long as that number is within one turn of the counter.
  From this a stale handle is refused: equal generations within a turn mean equal
  incarnations.

The heart of the argument is how the set of sharers and its cardinality change
(`ShareAdded`, `ShareRemoved`, `LastHolder`): the last release is the one that frees
the slot, because the set of sharers is then a singleton, and re-attaching the slot an envelope
already carries passes through one share more, never one less (`AttachedPool`).
Reference counts are naturals: a wrap at 2^32 shares would need that many envelopes.

*Mailbox.* `MbInv` says that head, tail and count agree (`RingOf`), that slots outside
the pending ones hold no lease, that the shares of a lease are those in the ring, in the
producers' and in the handler's envelope, and that the handler's envelope is blank between
messages. The refinement maps the ring to the sequence it holds (`QueueOf`); each push
of each kind is shown to do to that sequence what `MailboxContract` says.

*Scheduler.* Nobody's turn can be read off the mailboxes alone, since handlers post while the
scans go on. `ScInv` therefore says where each actor that is still owed a turn is: its domain
is ahead of the system pump's scan or has its turn (`OwedDomains`), and then the actor is
ahead of the domain pump's scan or is the one running and has handled nothing
(`OwedActors`). `TurnsLeft` and `QuantumLeft` pay for that: what remains of the turn
budget covers the bound domains ahead, what remains of the quantum the drain budgets of
the members ahead, as long as somebody there is owed. That holds because the quantum
is the sum of the drain budgets of *all* the domain's actors, and a message uses up one of its
own actor's. `ScanStops` is the lemma about the wrapped scan: it skips nobody. For the
report, `Counted` adds up the three loops' counts, and `FullPass` says that a run which found
nothing to do has looked at every domain. `RunIsBounded` states what cooperative latency rests
on: a run handles at most `TurnBudget` times the largest quantum (`WorkLeft`), although its
passes start again and handlers post to themselves. No run names it.

*Runtime loop.* `LoopInv` adds to the types that a turn or message spent is accounted
for (`SpentIsNoted`) and that the poll reached its end by running out of budget, or of
work with only timers left over to which the last call failed to deliver (`EndIsEarned`). Then OK cannot hide pending work, and a sample that arrives after
the last look has left the semaphore given.

*Network link.* The actor may lag behind the adapter by what the ring still holds.
`WifiHeard` and `MqttHeard` say that the ring explains the lag: unless an event was lost to
a full ring, the events in it bring the actor to the adapter's state.

*Sleep entry.* `PowerAt` ties the power state machine to the handler's position,
`LinesAt` says that an enabled line either interrupts or is remembered by whoever turned
it off, that the loop over the lines passed all lines below its own, and that once all are off
and the ring was looked at again no sample is in it.

*Timers.* `DeadlinesKept`: a slot's deadline is its true deadline modulo the clock's
width, and the present lies between the period before that and the greatest lateness
after it, so that the signed comparison of `ev_timer_service_is_due` is right.
`GenerationsCount`: a slot's generation is a token's plus the number of later tokens for
that slot, modulo the number of generations. `BestDeadline` folds over the slots; that it is the least
follows by well-ordering.

*I2C.* `I2cWay`: how the recovery was entered and where it returns to; `I2cHold`: for how
many more pulses the device may hold the line at each point; `I2cBlame`: a device that is stuck
was noted; `I2cFreed`: a bus is found locked after a stuck device or the deadline, or by a
read of no bytes, which then is in the recovery that frees the bus or past it (`I2cLoose`);
`I2cOutcome`: an OK means that the device was closed and, like every end of a call, that
the master let go.

*Telemetry.* `TlPlaces` and `TlCounted`: at each step of a publication which counters have
already been moved; between two publications they reconcile. `TlAged`: how long ago a kind
was measured, and that the wrapping difference of ticks tells it.

*Watchdog.* `WdInv` contains that some number of turns, less than the width of the counter,
was counted since the last tick, and likewise for each domain's calls; so an unchanged
reading means that nothing was counted, and a changed one that something was.

*Stores.* `QuRingOf`: the ring holds, from the read index on, what is owed; the low bits of
a sequence number do not see its wrap because the capacity divides the width
(`QuIndexIs`), and fewer numbers in a row than the capacity do not collide
(`QuIndexDistinct`). `ObInv` adds the counts of the categories, `FbInv` that a key has
one record and that this holds what was emitted of it and is not gone.

*Payload slots.* `NpAgrees`: a slot's count is the number of holders, added up over the task,
the main loop, ring and mailboxes (`NpHeld`); a retained or released slot moves both by
one. `NpFitsAll`, `NpTaskFits`: what a holder refers to is the slot's present message. A
slot that is held is not acquired, hence not overwritten (`NpSame`), and that carries
these facts over every step. The
holders are told apart by their places, so that the sum is a cardinality (`NpHeldIs`).

*Display.* `OledGood`: wherever staging and framebuffer differ, the column is in its page's
dirty window, and in READY the framebuffer is what the glass shows unless synchronising failed. `OledTimely`: the ticks for which
contents have been pending, plus the rest of the retry delay, are within that delay.

*DS18B20, start-up, demo.* `DsOnTime`: the deadline is the actor's clock at the start plus
the wait, and what is left of the conversion exceeds what is left of the wait by no more than
the lag then. `SvStage`: for each stage of start-up, what the supervisor's context, its mailbox
and the devices that published READY can be. `DmOwned`: each slot in use is carried by exactly one message of exactly one box;
`DmHears`, `DmShows`, `DmLit`, `DmWaits`: the last message to each of display and LED
is what the actor last decided.

*BH1750, buttons.* `BhInv` contains that the wait of an absent sensor is what the clock,
which wraps, says is left of it (`BhWaits`), and that the delay is at least the doubled one
or the longest. `BtTold`: the shadow that no configuration replaced is the last mask in the
panel's mailbox or, if none waits, the panel's; it survives the time in which the expander
waits to be configured. `BtStepHeard`: the events of one button's step take what the application
believes to what the button then is.

*Commands.* `CmdInv`: an arm the actor keeps is the one in force with its nonce, and its expiry is what is left
of its window, modulo the width of the tick counter (`CmdInForce`); so the comparison, which takes
less than half a turn for past, finds it live exactly inside the window. What the parser's loop over the digits yields is
their decimal value (`LoopTyped`), below the overflow check's limit.

*Clock.* `RtcCalendar` is the calendar in closed form, without loops: the days of the
years before, of the months before and of the month. The lemmas show that the actor's loops
over years and months compute it, that each register's BCD and both hour formats decode to
what the chip holds, and that one second later the chip's date is the calendar's next, leap days
and ends of years included. `RtcInv` bounds how far the published time lags by the seconds
whose edge was lost. The chip takes 2100 for a leap year and the actor does not, so the
model ends with 2099 (`RtcThisCentury`), and the registers' century bit is left out.

*Delivery.* `DvGraph`: the registered actors are among those requested, the table
matches the build's, and a build that succeeded without a late addition registered every
actor requested. `DvFresh`: an actor that is not registered was sent nothing. `DvFanout`:
during a publication the routes passed were served or counted as dropped, and the error
held is the first refused route's; `DvNoted`: its record is in the registry or that is full. The sums over actors and their changes are
`CommonLemmas!SumChanges`.

Only model-checked:

- all liveness (`NoStarvation`, `PollsEnd`, `NetServed`, `Recovers`): fairness and ENABLED are
  outside the prover's reach;
- that the exceptions of section 4's findings really occur: the runs that expect a violation.

Induction over data is not available as a rule. Where a fold or a loop matters, the fact about
it is proved from the well-ordering of the naturals (`LeastElement`, `NaturalsBySteps`): that a sum
is what the fold takes and in any order (`SumIsTaken`, `SumsInAnyOrder`), that a loop over
integers exists and what it computes (`LoopTyped`). `TypeOK` and
`InUseIsExact` of the pool, and the other type invariants that no run names, are proved
because the rest relies on them.

## 7. What is left out

- *Not reachable in the product*, found while modelling: `ev_esp8266_net_stop_fn` has
  no caller and is not modelled; nor is `ev_command_security.c`, which nothing calls.
  Commands to transmit are modelled, and have no sender in the demo.
- *Unmodelled parts of modelled components* are named in their `note` in PROJECT.json.
  In particular: levels and edge directions of IRQ lines; boot and logging of the runtime
  application; the scan of the I2C bus; registry binding and single steps of actors;
  nearly all diagnostic counters; the text of topics, bodies, scenes and lines, and the
  values of measurements other than the time.
- `SleepEntry` takes a board with all three resources, and that an SDK call which turned
  a line off can turn it on again: `gpio_set_intr_type` refuses only bad arguments, and
  those were accepted before. The guard is modelled as one step: messages, busy actors,
  ingress and critical faults are one condition (`work`), deadlines another. Deadlines
  that pass after the guard are not looked at again by the code, and neither are network events; the
  model has them, and no property forbids sleeping over them.
- `TimerService` assumes that delays and lateness stay below half a turn of the
  clock (24 days); the interface does not refuse longer delays, and such a timer is due at once.
- `Oled` leaves out fonts and layout (a text or a scene is any contents), messages that
  point off the panel, which no actor sends, and a panel that loses its contents
  without a failing transfer, which the actor cannot notice.
- `Delivery` assumes the generated table is grouped by event.
- `Ds18b20` takes the 1-Wire bus as answers: presence or not, a scratchpad whose CRC is
  good or not. `I2cBus` has one device on the bus at a time; `Bh1750`, `Rtc`, `Buttons`
  and `Oled` see a transfer succeed or fail, which is what `I2cBus` returns.
- `Watchdog` moves the pumps' counters itself, in the order `Scheduler`'s pumps do.
- *Not modelled*: components listed as such in PROJECT.json. The 1-Wire adapter is timed
  bit slots with interrupts off, in which nothing interleaves; trace ring and metrics are
  written and never read to decide; catalogs, descriptors and wiring are constant
  tables, which enter as CONSTANTS; boot diagnostics format; the power manager is a predicate
  the demo does not ask, the simple poll a drain for host programs; host tools and
  hardware test programs are not part of the product.

## 8. Running it

In this directory: `tlc -config MCMailbox.cfg MCMailbox` (and likewise for each
configuration; `MCNetReconnect`, `MCSleepRejection`, `MCOledSync`, `MCDs18b20Early` and
`MCButtonAbsorbed` are configurations of the module that `runs` names), and
`tlapm LeasePoolProofs.tla` (and likewise for each module of proofs). Every run takes at
most a few minutes. From nothing, `ActorsProofs` takes about ten minutes to prove,
`ServicesProofs` four, `DeliveryProofs` two, the others about one each.
