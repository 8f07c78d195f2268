------------------------------ MODULE DepLibUV ------------------------------
(***************************************************************************)
(* DepLibUV: the one event loop, and whose turn it is on the one thread    *)
(* that runs it.                                                           *)
(***************************************************************************)
VARIABLES
  loop,   \* DepLibUV::loop: "none" (nullptr), "live", "deleted" (but not nullptr)
  turn    \* "main" (outside uv_run), "loop" (inside it), "hook" (in a listener's
          \* function that a callback has called)

loopVars == <<loop, turn>>

LoopInit == loop = "none" /\ turn = "main"

\* The application may make calls.
AppTurn == loop = "live" /\ turn \in {"main", "hook"}

ClassInit ==
  /\ loop = "none" /\ turn = "main"
  /\ loop' = "live"
  /\ UNCHANGED turn

\* RunLoop enters uv_run in its default mode.
RunLoop ==
  /\ loop = "live" /\ turn = "main"
  /\ turn' = "loop"
  /\ UNCHANGED loop

\* uv_run calls a callback; those that call a hook hand the application its turn,
\* until the hook returns.
Callback == turn = "loop" /\ UNCHANGED loopVars

CallbackWithHook == turn = "loop" /\ turn' = "hook" /\ UNCHANGED loop

HookReturns == turn = "hook" /\ turn' = "loop" /\ UNCHANGED loop

\* Mistake: uv_run is asked for one turn only.
RunLoopReturnsEarly(alive) ==
  /\ turn = "loop"
  /\ turn' = "main"
  /\ UNCHANGED loop

\* uv_run returns when nothing is active or closing any more.
RunLoopReturns(alive) ==
  /\ turn = "loop" /\ ~alive
  /\ turn' = "main"
  /\ UNCHANGED loop

\* What uv_loop_close says is not looked at, the loop is deleted whatever is left
\* in it.
ClassDestroy ==
  /\ loop = "live" /\ turn = "main"
  /\ loop' = "deleted"
  /\ UNCHANGED turn
=============================================================================
