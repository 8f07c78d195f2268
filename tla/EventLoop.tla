----------------------------- MODULE EventLoop ------------------------------
(***************************************************************************)
(* A program on the event loop: it initialises DepLibUV, makes a Timer, a  *)
(* SignalsHandler or a UnixStreamSocket, runs the loop, and makes further  *)
(* calls from the functions the loop calls back and after the loop has     *)
(* returned.  Everything is on one thread.  When nothing of its own is     *)
(* open any more it may take DepLibUV down.                                *)
(***************************************************************************)
EXTENDS DepLibUV, Timer, SignalsHandler, UnixStreamSocket

CONSTANT Programs   \* the sets of kinds of objects a program may use

Kinds == {"Timer", "SignalsHandler", "UnixStreamSocket"}

ASSUME ProgramsAssumption == Programs \subseteq SUBSET Kinds

VARIABLES
  uses,    \* the kinds this program uses
  idle     \* the loop has returned, and no call was made since

vars == <<loopVars, timerVars, signalVars, pipeVars, uses, idle>>

-----------------------------------------------------------------------------
Init ==
  /\ LoopInit /\ TimerInit /\ SignalsInit /\ PipeInit
  /\ uses \in Programs /\ idle = FALSE

\* A step of one of the objects leaves the others alone.
OfTimer(A)   == A /\ UNCHANGED <<signalVars, pipeVars, uses>>
OfSignals(A) == A /\ UNCHANGED <<timerVars, pipeVars, uses>>
OfPipe(A)    == A /\ UNCHANGED <<timerVars, signalVars, uses>>
OfLoop(A)    == A /\ UNCHANGED <<timerVars, signalVars, pipeVars, uses>>

\* What keeps uv_run going: an active handle or request, or one that is closing.
Alive ==
  \/ uvTimer.active \/ uvTimer.state = "closing"
  \/ \E h \in Sigs : uvSignal[h] \in {"started", "closing"}
  \/ reading \/ queue # <<>> \/ completed # <<>> \/ shutting = "requested"
  \/ handle = "closing"

\* The objects the program has are all closed.
AllClosed ==
  /\ timer.mem # "none" => timer.closed
  /\ signals.mem # "none" => signals.closed
  /\ pipe.mem # "none" => pipe.closed

-----------------------------------------------------------------------------
AppCalls ==
  /\ AppTurn
  /\ \/ "Timer" \in uses /\ OfTimer(TimerCalls)
     \/ "SignalsHandler" \in uses /\ OfSignals(SignalCalls)
     \/ "UnixStreamSocket" \in uses /\ OfPipe(PipeCalls)
  /\ idle' = FALSE
  /\ UNCHANGED loopVars

Hooks ==
  /\ CallbackWithHook
  /\ \/ OfTimer(OnUvTimer)
     \/ \E h \in Sigs : OfSignals(OnUvSignal(h))
     \/ OfPipe(PipeHooks)
  /\ UNCHANGED idle

\* The steps of the loop that call no hook.
TimerFreed   == Callback /\ OfTimer(OnCloseTimer) /\ UNCHANGED idle
SignalFreed  == Callback /\ (\E h \in Sigs : OfSignals(OnCloseSignal(h))) /\ UNCHANGED idle
PipeWritten  == Callback /\ OfPipe(OnWrite) /\ UNCHANGED idle
PipeShutDown == Callback /\ OfPipe(OnShutdown) /\ UNCHANGED idle
PipeFreed    == Callback /\ OfPipe(OnClosePipe) /\ UNCHANGED idle
PipeSent     == Callback /\ OfPipe(PipeMoves) /\ UNCHANGED idle

\* The peer may vanish at any time.
PeerBreaks == OfPipe(PipeBreaks) /\ UNCHANGED <<loopVars, idle>>

Inits    == OfLoop(ClassInit) /\ UNCHANGED idle
HookEnds == OfLoop(HookReturns) /\ UNCHANGED idle

Runs    == OfLoop(RunLoop) /\ idle' = FALSE
Returns == OfLoop(RunLoopReturns(Alive)) /\ idle' = TRUE

\* DepLibUV is taken down once the loop has returned and everything is closed.
Destroys == OfLoop(ClassDestroy) /\ idle /\ AllClosed /\ UNCHANGED idle

Next ==
  \/ Inits \/ AppCalls \/ Hooks \/ HookEnds
  \/ TimerFreed \/ SignalFreed
  \/ PipeWritten \/ PipeShutDown \/ PipeFreed \/ PipeSent \/ PeerBreaks
  \/ Runs \/ Returns \/ Destroys

Spec == Init /\ [][Next]_vars

\* uv_run goes on as long as something is alive, callbacks that are due run, hooks
\* return, and the peer reads what it is sent or breaks.
Fairness ==
  /\ WF_vars(TimerFreed) /\ WF_vars(SignalFreed) /\ WF_vars(PipeWritten)
  /\ WF_vars(PipeShutDown) /\ WF_vars(PipeFreed) /\ WF_vars(PipeSent)
  /\ WF_vars(Returns) /\ WF_vars(HookEnds)

FairSpec == Spec /\ Fairness

-----------------------------------------------------------------------------
\* Properties.

TypeOK ==
  /\ loop \in {"none", "live", "deleted"} /\ turn \in {"main", "loop", "hook"}
  /\ uses \in Programs /\ idle \in BOOLEAN
  /\ TimerTypeOK /\ SignalsTypeOK /\ PipeTypeOK

\* No order of calls, from outside the loop or from within a hook, makes libuv
\* abort on a handle that is closed twice, started or written to after its close,
\* and no callback calls an object that was deleted.
NoAbort ==
  /\ uvTimer.state # "aborted"
  /\ \A h \in Sigs : uvSignal[h] # "aborted"
  /\ ~fault

\* What is left in the loop when DepLibUV deletes it: nothing, but for the handles
\* of signals that AddSignal threw for, which nobody can close any more.  (With
\* such a handle uv_loop_close fails, and that is not noticed.)
CleanDestroy ==
  loop = "deleted" =>
    /\ uvTimer.state \in {"none", "freed"} /\ handle \in {"raw", "freed"}
    /\ \A h \in Sigs : uvSignal[h] \in {"none", "freed", "unstarted"}

\* The bytes of the pipe refine the byte channel.
PipeSpec == PipeChannel!Spec

\* Once everything is closed RunLoop returns, unless a hook makes a new object.
LoopReturns ==
  turn # "main" /\ AllClosed ~> turn = "main" \/ ~AllClosed
=============================================================================
