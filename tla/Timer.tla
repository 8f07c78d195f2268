------------------------------- MODULE Timer -------------------------------
(***************************************************************************)
(* A Timer, the libuv timer handle it drives and the listener it calls.    *)
(* Time is abstract: an active timer may come due whenever the loop runs,  *)
(* and a timeout or a repeat interval only tells one value from another.   *)
(* OnTimer is the last thing done when a timer comes due, so what the      *)
(* listener does in it (stop, restart, close, delete the timer) are calls  *)
(* that follow.  Who may call when is in module EventLoop.                 *)
(***************************************************************************)
EXTENDS Naturals

CONSTANT Times    \* timeouts and repeat intervals; 0 is "at once" and "never again"

ASSUME TimesAssumption == Times \subseteq Nat /\ 0 \in Times

VARIABLES
  timer,    \* the object: [mem, closed, timeout, repeat]
  uvTimer,  \* its handle: [state, active, due, again]: what it waits for now and
            \* what it will wait for each time after
  shots     \* calls of OnTimer since the last Start or Restart (2 for more)

timerVars == <<timer, uvTimer, shots>>

\* Handle states.  "aborted" stands for what must not happen: libuv found the
\* handle in the wrong state, or called an object that was deleted.
HandleStates == {"none", "open", "closing", "freed", "aborted"}

-----------------------------------------------------------------------------
\* libuv.

uv_timer_start(due, again) ==
  uvTimer' = [state |-> IF uvTimer.state = "open" THEN "open" ELSE "aborted",
              active |-> TRUE, due |-> due, again |-> again]

uv_timer_stop ==
  uvTimer' = [uvTimer EXCEPT !.active = FALSE, !.due = 0, !.again = 0]

\* uv_close stops the timer.
uv_close_timer ==
  uvTimer' = [state |-> IF uvTimer.state = "open" THEN "closing" ELSE "aborted",
              active |-> FALSE, due |-> 0, again |-> 0]

-----------------------------------------------------------------------------
TimerInit ==
  /\ timer = [mem |-> "none", closed |-> FALSE, timeout |-> 0, repeat |-> 0]
  /\ uvTimer = [state |-> "none", active |-> FALSE, due |-> 0, again |-> 0]
  /\ shots = 0

\* The constructor; if uv_timer_init fails it deletes the handle and throws.
ConstructTimer ==
  /\ timer.mem = "none"
  /\ timer' = [timer EXCEPT !.mem = "live"]
  /\ uvTimer' = [uvTimer EXCEPT !.state = "open"]
  /\ UNCHANGED shots

CloseTimer ==
  /\ timer.mem = "live"
  /\ timer' = [timer EXCEPT !.closed = TRUE]
  /\ IF timer.closed THEN UNCHANGED uvTimer ELSE uv_close_timer
  /\ UNCHANGED shots

\* Mistake: the destructor leaves the handle open.
DeleteTimerOpen ==
  /\ timer.mem = "live"
  /\ timer' = [timer EXCEPT !.mem = "deleted"]
  /\ UNCHANGED <<uvTimer, shots>>

\* delete: the destructor closes if need be.
DeleteTimer ==
  /\ timer.mem = "live"
  /\ timer' = [timer EXCEPT !.mem = "deleted", !.closed = TRUE]
  /\ IF timer.closed THEN UNCHANGED uvTimer ELSE uv_close_timer
  /\ UNCHANGED shots

\* A call on a closed timer throws and does nothing.
Usable == timer.mem = "live" /\ ~timer.closed

\* Start; that it stops an active timer first makes no difference to uv_timer_start.
Start(timeout, repeat) ==
  /\ Usable
  /\ timer' = [timer EXCEPT !.timeout = timeout, !.repeat = repeat]
  /\ uv_timer_start(timeout, repeat)
  /\ shots' = 0

Stop == Usable /\ uv_timer_stop /\ UNCHANGED <<timer, shots>>

\* Mistake: a timer that is not running is started too.
ResetAlways ==
  /\ Usable
  /\ uv_timer_start(timer.repeat, timer.repeat)
  /\ UNCHANGED <<timer, shots>>

\* Reset lets a running, repeating timer wait for a whole interval again.
Reset ==
  /\ Usable
  /\ IF uvTimer.active /\ timer.repeat # 0
     THEN uv_timer_start(timer.repeat, timer.repeat)
     ELSE UNCHANGED uvTimer
  /\ UNCHANGED <<timer, shots>>

\* Restart starts it as the last Start did.
Restart ==
  /\ Usable
  /\ uv_timer_start(timer.timeout, timer.repeat)
  /\ shots' = 0
  /\ UNCHANGED timer

TimerCalls ==
  \/ ConstructTimer \/ CloseTimer \/ DeleteTimer
  \/ \E timeout, repeat \in Times : Start(timeout, repeat)
  \/ Stop \/ Reset \/ Restart

\* The timer comes due: libuv stops it, starts it again if it repeats, and calls
\* OnUvTimer, which calls OnTimer.
OnUvTimer ==
  /\ uvTimer.active
  /\ uvTimer' = [state |-> IF timer.mem = "live" THEN uvTimer.state ELSE "aborted",
                 active |-> uvTimer.again # 0,
                 due |-> uvTimer.again, again |-> uvTimer.again]
  /\ shots' = IF shots < 2 THEN shots + 1 ELSE 2
  /\ UNCHANGED timer

\* onClose deletes the handle.
OnCloseTimer ==
  /\ uvTimer.state = "closing"
  /\ uvTimer' = [uvTimer EXCEPT !.state = "freed"]
  /\ UNCHANGED <<timer, shots>>

-----------------------------------------------------------------------------
TimerTypeOK ==
  /\ timer \in [mem : {"none", "live", "deleted"}, closed : BOOLEAN,
                timeout : Times, repeat : Times]
  /\ uvTimer \in [state : HandleStates, active : BOOLEAN, due : Times, again : Times]
  /\ shots \in 0..2

\* What libuv waits for is what the object remembers (GetTimeout and GetRepeat,
\* which Restart and Reset rely on), and a timer that does not repeat calls
\* OnTimer once for each Start or Restart, whatever Stop, Reset and Close come
\* in between or from within OnTimer.
TimerAsTold ==
  /\ uvTimer.active =>
       /\ timer.mem = "live" /\ ~timer.closed
       /\ uvTimer.again = timer.repeat
       /\ uvTimer.due \in {timer.timeout, timer.repeat}
  /\ timer.repeat = 0 => shots <= 1
=============================================================================
