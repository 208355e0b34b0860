--------------------------------- MODULE Oled ---------------------------------
(***************************************************************************)
(* The OLED actor (actors/device/ev_oled_actor.c) and the panel it drives. *)
(* The actor keeps the framebuffer, what it takes to be on the glass, and  *)
(* a staging framebuffer with one window of changed columns per page.      *)
(* Texts and scenes go into staging; a flush sends the windows over I2C    *)
(* and copies staging into the framebuffer.  A transfer may fail with part *)
(* of it already on the glass; the actor then initialises the panel again  *)
(* from a later tick.                                                      *)
(*                                                                         *)
(* One action is one message handled; `oled` is the actor's context with   *)
(* the glass, and a handler is the set of contexts it may leave, depending *)
(* on where a transfer fails.                                              *)
(***************************************************************************)
EXTENDS Integers

CONSTANTS
  PageCount, Width,   \* EV_OLED_PAGE_COUNT, EV_OLED_WIDTH
  Pixels, Blank,      \* contents of one column of a page
  TextPlaces,         \* <<page, column>> of the text commands
  Scenes,             \* the frames the application composes
  PowerOnGlass,       \* what the glass may show at power-on
  RetryDelay,         \* EV_OLED_RETRY_DELAY_TICKS
  MaxFaults,          \* bound: transfers that fail
  MaxRestarts         \* bound: restarts of the device

ASSUME OledAssumption ==
  /\ {PageCount, Width, RetryDelay} \subseteq Nat \ {0}
  /\ {MaxFaults, MaxRestarts} \subseteq Nat
  /\ Blank \in Pixels

Pages == 0 .. PageCount - 1
Columns == 0 .. Width - 1
Frames == [Pages -> [Columns -> Pixels]]

ASSUME FramesAssumption ==
  /\ TextPlaces \subseteq Pages \X Columns
  /\ Scenes \cup PowerOnGlass \subseteq Frames

Windows == [from : 0 .. Width, to : 0 .. Width]

VARIABLES
  oled,      \* ev_oled_actor_ctx_t, and the glass
  oledRestarts   \* restarts so far

oledVars == <<oled, oledRestarts>>

-----------------------------------------------------------------------------
(* Dirty windows.  pending_flush and dirty_page_mask are set and reset     *)
(* together with them.                                                     *)

NoWindow == [from |-> Width, to |-> 0]
WholePage == [from |-> 0, to |-> Width]
Clean == [p \in Pages |-> NoWindow]

Smaller(a, b) == IF a < b THEN a ELSE b

InWindow(w, c) == w.from <= c /\ c < w.to
OledPending(o) == \E p \in Pages : o.dirty[p].from < o.dirty[p].to

\* ev_oled_actor_mark_dirty: the window grows to take in the columns.
MarkDirty(w, from, to) ==
  [from |-> IF from < w.from THEN from ELSE w.from,
   to |-> IF to > w.to THEN to ELSE w.to]

-----------------------------------------------------------------------------
(* Transfers.                                                              *)

\* ev_oled_actor_apply_address_window for the pages in turn, cut short in
\* `page` before `column`: what is then on the glass.
SentUntil(glass, source, windows, page, column) ==
  [p \in Pages |-> [c \in Columns |->
     IF InWindow(windows[p], c) /\ (p < page \/ (p = page /\ c < column))
       THEN source[p][c] ELSE glass[p][c]]]

Sent(glass, source, windows) ==
  SentUntil(glass, source, windows, PageCount, 0)

\* ev_oled_actor_schedule_retry; `wait` is retry_due_tick - tick_counter.
ScheduleRetry(o) ==
  [o EXCEPT !.state = "ERROR", !.wait = RetryDelay, !.faults = @ + 1]

\* A transfer that fails somewhere, with what precedes it on the glass.
CutShort(o, source, windows) ==
  {[ScheduleRetry(o) EXCEPT
      !.glass = SentUntil(o.glass, source, windows, at[1], at[2])] :
     at \in {a \in Pages \X (0 .. Width) :
               /\ o.faults < MaxFaults
               /\ windows[a[1]].from < windows[a[1]].to
               /\ windows[a[1]].from <= a[2] /\ a[2] <= windows[a[1]].to}}

\* ev_oled_actor_flush_pending
FlushPending(o) ==
  IF ~OledPending(o) THEN {o}
  ELSE CutShort(o, o.staging, o.dirty) \cup
       {[o EXCEPT !.glass = Sent(o.glass, o.staging, o.dirty),
                  !.framebuffer = o.staging,
                  !.dirty = Clean]}

\* ev_oled_actor_sync_full_framebuffer returns EV_OK on failure too.  The
\* history field sync_lost says that the last one failed.
SyncFullFramebuffer(o) ==
  LET whole == [p \in Pages |-> WholePage]
  IN  {[q EXCEPT !.sync_lost = TRUE] : q \in CutShort(o, o.framebuffer, whole)}
      \cup {[o EXCEPT !.glass = Sent(o.glass, o.framebuffer, whole),
                      !.sync_lost = FALSE]}

\* The READY publication may be refused, which fails the handler; then what
\* is pending is flushed.
Announce(o) ==
  FlushPending(o)
  \cup (IF oledRestarts < MaxRestarts THEN {[o EXCEPT !.failed = TRUE]} ELSE {})

\* Faulty variant: the framebuffer is not sent after the init sequence.
TryInitializeWithoutSync(o) ==
  (IF o.faults < MaxFaults THEN {ScheduleRetry(o)} ELSE {})
  \cup Announce([o EXCEPT !.state = "READY"])

\* ev_oled_actor_try_initialize: the init sequence fails, or the framebuffer
\* is sent and the state is READY, whether it arrived or not.
TryInitialize(o) ==
  (IF o.faults < MaxFaults THEN {ScheduleRetry(o)} ELSE {})
  \cup UNION {Announce([q EXCEPT !.state = "READY"]) :
                q \in SyncFullFramebuffer(o)}

-----------------------------------------------------------------------------
(* The handlers.                                                           *)

\* ev_oled_actor_init, after a restart with whatever the glass shows.
OledBooted(glass, faults) ==
  [state |-> "WAIT_BOOT", wait |-> 0, boot_observed |-> FALSE,
   framebuffer |-> [p \in Pages |-> [c \in Columns |-> Blank]],
   staging |-> [p \in Pages |-> [c \in Columns |-> Blank]],
   dirty |-> Clean, glass |-> glass, faults |-> faults,
   sync_lost |-> FALSE, failed |-> FALSE, unshown |-> 0]

OledInit ==
  /\ \E glass \in PowerOnGlass : oled = OledBooted(glass, 0)
  /\ oledRestarts = 0

\* EV_BOOT_COMPLETED
OledBoot ==
  /\ ~oled.failed /\ ~oled.boot_observed
  /\ oled' \in TryInitialize([oled EXCEPT !.boot_observed = TRUE])
  /\ UNCHANGED oledRestarts

\* Faulty variant: a tick only retries.
HandleTickWithoutFlush(o) ==
  LET t == [o EXCEPT !.wait = IF @ = 0 THEN 0 ELSE @ - 1]
  IN  IF t.boot_observed /\ t.state # "READY" /\ t.wait = 0
        THEN TryInitialize(t) ELSE {t}

\* ev_oled_actor_handle_tick: what a tick makes of the context.
HandleTick(o) ==
  LET t == [o EXCEPT !.wait = IF @ = 0 THEN 0 ELSE @ - 1]
  IN  CASE ~t.boot_observed -> {t}
        [] t.boot_observed /\ t.state = "READY" -> FlushPending(t)
        [] t.boot_observed /\ t.state # "READY" ->
             IF t.wait > 0 THEN {t} ELSE TryInitialize(t)

\* EV_TICK_1S.  The history field unshown counts the ticks that left something
\* pending although no transfer failed.
OledTick ==
  /\ ~oled.failed
  /\ \E o \in HandleTick(oled) :
       oled' = [o EXCEPT !.unshown =
         IF o.boot_observed /\ OledPending(o) /\ o.faults = oled.faults
           THEN Smaller(@ + 1, RetryDelay) ELSE 0]
  /\ UNCHANGED oledRestarts

\* ev_oled_actor_render_text_into: the page is redrawn from a column on.
RenderTextInto(frame, p, c, text) ==
  [frame EXCEPT ![p] = [i \in Columns |-> IF i < c THEN frame[p][i] ELSE text[i]]]

\* EV_OLED_DISPLAY_TEXT_CMD: staged until a commit or a tick.
DisplayText ==
  /\ ~oled.failed
  /\ \E at \in TextPlaces : \E text \in [at[2] .. Width - 1 -> Pixels] :
       LET base == IF OledPending(oled) THEN oled.staging ELSE oled.framebuffer
       IN  oled' = [oled EXCEPT
             !.staging = RenderTextInto(base, at[1], at[2], text),
             !.dirty[at[1]] = MarkDirty(@, at[2], Width)]
  /\ UNCHANGED oledRestarts

\* ev_oled_actor_prepare_scene_commit: a complete frame in staging, and one
\* window per page around the columns that differ from the framebuffer.
PrepareSceneCommit(o, scene) ==
  LET differs(p) == {c \in Columns : scene[p][c] # o.framebuffer[p][c]}
  IN  [o EXCEPT
         !.staging = scene,
         !.dirty = [p \in Pages |->
            IF differs(p) = {} THEN NoWindow
            ELSE [from |-> CHOOSE c \in differs(p) : \A d \in differs(p) : c <= d,
                  to |-> 1 + CHOOSE c \in differs(p) : \A d \in differs(p) : c >= d]]]

\* EV_OLED_COMMIT_FRAME, with a scene or to flush what is staged.
CommitFrame ==
  /\ ~oled.failed
  /\ \E o \in {oled} \cup {PrepareSceneCommit(oled, scene) : scene \in Scenes} :
       oled' \in IF o.state = "READY" THEN FlushPending(o) ELSE {o}
  /\ UNCHANGED oledRestarts

\* The main task restarts the device after an error, of this handler
\* or of another; the glass keeps what it shows.
OledRestart ==
  /\ oledRestarts < MaxRestarts
  /\ oledRestarts' = oledRestarts + 1
  /\ oled' = OledBooted(oled.glass, oled.faults)

OledNext == OledBoot \/ OledTick \/ DisplayText \/ CommitFrame \/ OledRestart

OledSpec == OledInit /\ [][OledNext]_oledVars

-----------------------------------------------------------------------------

OledTypeOK ==
  /\ oledRestarts \in 0 .. MaxRestarts
  /\ oled \in [state : {"WAIT_BOOT", "READY", "ERROR"}, wait : 0 .. RetryDelay,
               boot_observed : BOOLEAN, framebuffer : Frames, staging : Frames,
               dirty : [Pages -> Windows], glass : Frames,
               faults : 0 .. MaxFaults, sync_lost : BOOLEAN, failed : BOOLEAN,
               unshown : 0 .. RetryDelay]

\* In READY the framebuffer is what is on the glass, after transfers that
\* failed half-way and restarts under an unknown glass, unless the
\* synchronisation of the last initialisation failed; the diff of a scene
\* against the framebuffer (ev_oled_actor.c:471) relies on it.  And every column
\* that differs between staging and framebuffer is in its page's dirty window,
\* whatever texts, scenes and failed flushes came before: a flush that copies
\* staging into the framebuffer has sent all of it.
ReadyShowsFramebuffer ==
  /\ oled.state = "READY" /\ ~oled.sync_lost => oled.glass = oled.framebuffer
  /\ \A p \in Pages, c \in Columns :
       oled.staging[p][c] # oled.framebuffer[p][c] => InWindow(oled.dirty[p], c)

\* What is pending gets onto the glass once the bus works again, after at most
\* RetryDelay ticks without another failure: ticks flush, and after an error
\* they initialise the panel again when the delay is over.
PendingIsShown == ~oled.failed => oled.unshown < RetryDelay

\* oled_actor.h:162: after a transport failure "The actor moves into
\* EV_OLED_STATE_ERROR".
FailureMovesToError ==
  [][oled'.faults > oled.faults => oled'.state = "ERROR"]_oledVars
=============================================================================
