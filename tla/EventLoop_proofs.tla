-------------------------- MODULE EventLoop_proofs --------------------------
(***************************************************************************)
(* For any timeouts, signals, writes and buffer sizes, and any sets of     *)
(* objects a program may use: no call sequence makes libuv abort, timers   *)
(* do as told, a pipe's subclass is told of its end once and its bytes are *)
(* those of a ByteChannel, and DepLibUV leaves no handle behind but those  *)
(* of signals that AddSignal threw for.  The one hypothesis is that a      *)
(* UnixStreamSocket is given the descriptor of a pipe open in both         *)
(* directions.  Each kind of object has an inductive invariant of its own, *)
(* and the loop's relates them to whose turn it is.                        *)
(***************************************************************************)
EXTENDS EventLoop, SequenceTheorems, TLAPS

-----------------------------------------------------------------------------
\* The inductive invariant.

\* The handle of a timer is open exactly as long as the object is not closed, and
\* a timer that does not repeat has not called OnTimer as long as it is active.
TimerInv ==
  /\ TimerTypeOK /\ TimerAsTold
  /\ uvTimer.state # "aborted"
  /\ timer.mem = "none" => ~timer.closed /\ uvTimer.state = "none" /\ ~uvTimer.active
  /\ timer.mem = "deleted" => timer.closed
  /\ timer.mem # "none" /\ ~timer.closed => uvTimer.state = "open"
  /\ timer.closed => uvTimer.state \in {"closing", "freed"}
  /\ uvTimer.active /\ timer.repeat = 0 => shots = 0

\* The vector holds exactly the handles that were started.
SignalsInv ==
  /\ SignalsTypeOK
  /\ signals.mem = "none" => ~signals.closed /\ uvHandles = {}
  /\ signals.mem = "deleted" => signals.closed
  /\ \A h \in Sigs \ uvHandles : uvSignal[h] \in {"none", "unstarted"}
  /\ \A h \in uvHandles :
       IF signals.closed THEN uvSignal[h] \in {"closing", "freed"}
       ELSE uvSignal[h] = "started"

\* What a UnixStreamSocket may look like.
Pipes == [mem : {"none", "live", "deleted"}, role : Roles, data : BOOLEAN,
          writable : BOOLEAN, closed : BOOLEAN, isClosedByPeer : BOOLEAN,
          hasError : BOOLEAN, bufferDataLen : 0..BufferSize]

PipeTypes ==
  /\ handle \in {"raw", "open", "closing", "freed"}
  /\ reading \in BOOLEAN /\ fault \in BOOLEAN
  /\ shutting \in {"none", "requested", "done"}
  /\ pipe \in Pipes
  /\ told \in Nat

\* The object points to an open handle until it closes; then the handle waits for
\* its shutdown or closes, never both.
PipeInv ==
  /\ PipeTypes /\ PipeToldOnce
  /\ ~fault /\ pipe.writable
  /\ pipe.mem = "none" => ~pipe.closed
  /\ pipe.mem = "none" <=> handle = "raw"
  /\ pipe.mem = "deleted" => pipe.closed
  /\ pipe.data <=> pipe.mem # "none" /\ ~pipe.closed
  /\ pipe.mem # "none" /\ ~pipe.closed => handle = "open"
  /\ ~pipe.closed => shutting = "none"
  /\ pipe.closed /\ handle = "open" => shutting = "requested"
  /\ shutting = "requested" => handle = "open"
  /\ handle \in {"raw", "freed"} => completed = <<>>
  /\ reading => pipe.data

\* An idle loop has nothing alive in it, and a deleted one was left so.
LoopInv ==
  /\ loop \in {"none", "live", "deleted"} /\ turn \in {"main", "loop", "hook"}
  /\ idle \in BOOLEAN
  /\ idle => turn = "main" /\ ~Alive
  /\ loop # "live" => turn = "main"
  /\ CleanDestroy

IInv == TimerInv /\ SignalsInv /\ PipeInv /\ LoopInv

-----------------------------------------------------------------------------
\* Each object keeps its own invariant.

\* What is called on a timer, and what the loop does with its handle.
LEMMA TimerStep ==
  ASSUME TimerInv, TimerCalls \/ OnUvTimer \/ OnCloseTimer
  PROVE  TimerInv'
  <1> USE TimesAssumption DEF TimerInv, TimerTypeOK, TimerAsTold, HandleStates
  <1>1. CASE ConstructTimer
    BY <1>1 DEF ConstructTimer
  <1>2. CASE CloseTimer
    <2>1. CASE timer.closed
      BY <1>2, <2>1 DEF CloseTimer
    <2>2. CASE ~timer.closed
      <3>1. uvTimer' = [state |-> "closing", active |-> FALSE, due |-> 0, again |-> 0]
        BY <1>2, <2>2 DEF CloseTimer, uv_close_timer
      <3> QED BY <1>2, <2>2, <3>1 DEF CloseTimer
    <2> QED BY <2>1, <2>2
  <1>3. CASE DeleteTimer
    <2>1. CASE timer.closed
      BY <1>3, <2>1 DEF DeleteTimer
    <2>2. CASE ~timer.closed
      <3>1. uvTimer' = [state |-> "closing", active |-> FALSE, due |-> 0, again |-> 0]
        BY <1>3, <2>2 DEF DeleteTimer, uv_close_timer
      <3> QED BY <1>3, <2>2, <3>1 DEF DeleteTimer
    <2> QED BY <2>1, <2>2
  <1>4. ASSUME NEW timeout \in Times, NEW repeat \in Times, Start(timeout, repeat)
        PROVE  TimerInv'
    <2>1. uvTimer' = [state |-> "open", active |-> TRUE, due |-> timeout, again |-> repeat]
      BY <1>4 DEF Start, Usable, uv_timer_start
    <2>2. timer' = [mem |-> "live", closed |-> FALSE, timeout |-> timeout,
                    repeat |-> repeat]
      BY <1>4 DEF Start, Usable
    <2>3. shots' = 0
      BY <1>4 DEF Start
    <2>4. TimerTypeOK'
      BY <2>1, <2>2, <2>3
    <2>5. TimerAsTold'
      BY <2>1, <2>2, <2>3
    <2> QED BY <2>1, <2>2, <2>3, <2>4, <2>5
  <1>5. CASE Stop
    <2>1. uvTimer' = [state |-> "open", active |-> FALSE, due |-> 0, again |-> 0]
      BY <1>5 DEF Stop, Usable, uv_timer_stop
    <2> QED BY <1>5, <2>1 DEF Stop, Usable
  <1>6. CASE Reset
    <2>1. CASE uvTimer.active /\ timer.repeat # 0
      <3>1. /\ uvTimer' = [state |-> "open", active |-> TRUE, due |-> timer.repeat,
                           again |-> timer.repeat]
            /\ UNCHANGED <<timer, shots>>
        BY <1>6, <2>1 DEF Reset, Usable, uv_timer_start
      <3> QED BY <2>1, <3>1
    <2>2. CASE ~(uvTimer.active /\ timer.repeat # 0)
      BY <1>6, <2>2 DEF Reset
    <2> QED BY <2>1, <2>2
  <1>7. CASE Restart
    <2>1. uvTimer' = [state |-> "open", active |-> TRUE, due |-> timer.timeout,
                      again |-> timer.repeat]
      BY <1>7 DEF Restart, Usable, uv_timer_start
    <2> QED BY <1>7, <2>1 DEF Restart, Usable
  <1>8. CASE OnUvTimer
    BY <1>8 DEF OnUvTimer
  <1>9. CASE OnCloseTimer
    BY <1>9 DEF OnCloseTimer
  <1> QED BY <1>1, <1>2, <1>3, <1>4, <1>5, <1>6, <1>7, <1>8, <1>9 DEF TimerCalls

\* The same for the handles of signals.
LEMMA SignalStep ==
  ASSUME SignalsInv,
         SignalCalls \/ \E h \in Sigs : OnUvSignal(h) \/ OnCloseSignal(h)
  PROVE  SignalsInv'
  <1> USE DEF SignalsInv, SignalsTypeOK
  <1>1. CASE ConstructSignals
    BY <1>1 DEF ConstructSignals
  <1>2. CASE CloseSignals
    BY <1>2 DEF CloseSignals, CloseHandles
  <1>3. CASE DeleteSignals
    BY <1>3 DEF DeleteSignals, CloseHandles
  <1>4. ASSUME NEW h \in Sigs, AddSignal(h)
        PROVE  SignalsInv'
    BY <1>4 DEF AddSignal
  <1>5. ASSUME NEW h \in Sigs, AddSignalThrows(h)
        PROVE  SignalsInv'
    BY <1>5 DEF AddSignalThrows
  <1>6. ASSUME NEW h \in Sigs, OnUvSignal(h)
        PROVE  SignalsInv'
    BY <1>6 DEF OnUvSignal
  <1>7. ASSUME NEW h \in Sigs, OnCloseSignal(h)
        PROVE  SignalsInv'
    BY <1>7 DEF OnCloseSignal
  <1> QED BY <1>1, <1>2, <1>3, <1>4, <1>5, <1>6, <1>7 DEF SignalCalls

\* A record of such fields is an object.
LEMMA PipeRecord ==
  ASSUME NEW m \in {"none", "live", "deleted"}, NEW r \in Roles, NEW d \in BOOLEAN,
         NEW v \in BOOLEAN, NEW c \in BOOLEAN, NEW i \in BOOLEAN, NEW e \in BOOLEAN,
         NEW n \in 0..BufferSize
  PROVE  [mem |-> m, role |-> r, data |-> d, writable |-> v, closed |-> c,
          isClosedByPeer |-> i, hasError |-> e, bufferDataLen |-> n] \in Pipes
  BY DEF Pipes

\* In particular an object that was closed is one.
LEMMA ClosedRecord ==
  ASSUME NEW p \in Pipes
  PROVE  [mem |-> p.mem, role |-> p.role, data |-> FALSE,
          writable |-> p.writable, closed |-> TRUE,
          isClosedByPeer |-> p.isClosedByPeer, hasError |-> p.hasError,
          bufferDataLen |-> p.bufferDataLen] \in Pipes
  <1>1. /\ p.mem \in {"none", "live", "deleted"} /\ p.role \in Roles
        /\ p.writable \in BOOLEAN /\ p.isClosedByPeer \in BOOLEAN /\ p.hasError \in BOOLEAN
        /\ p.bufferDataLen \in 0..BufferSize
    BY DEF Pipes
  <1> QED BY <1>1 DEF Pipes

\* Close on an open pipe, whatever flags its caller has set, after which the
\* subclass is told or not.
LEMMA CloseStep ==
  ASSUME PipeInv, pipe.mem = "live",
         NEW p \in Pipes, p.mem # "none",
         p.closed = pipe.closed, p.data = pipe.data, p.writable = pipe.writable,
         Close(p),
         \/ told' = told /\ p.isClosedByPeer = pipe.isClosedByPeer /\ p.hasError = pipe.hasError
         \/ told' = told + 1 /\ ~pipe.closed,
         handle' \in {"raw", "freed"} => completed' = <<>>
  PROVE  PipeInv'
  <1> USE DEF PipeInv, PipeTypes, PipeToldOnce
  <1>1. CASE p.closed
    <2>1. pipe' = p /\ UNCHANGED <<reading, handle, shutting, fault>> /\ told' = told
      BY <1>1 DEF Close
    <2> QED BY <1>1, <2>1 DEF Pipes
  <1>2. CASE ~p.closed
    <2>1. /\ pipe' = [mem |-> p.mem, role |-> p.role, data |-> FALSE,
                     writable |-> p.writable, closed |-> TRUE,
                     isClosedByPeer |-> p.isClosedByPeer, hasError |-> p.hasError,
                     bufferDataLen |-> p.bufferDataLen]
          /\ reading' = FALSE /\ handle = "open" /\ shutting = "none"
      BY <1>2 DEF Close, Pipes
    <2>2. pipe' \in Pipes
      <3> DEFINE r == [mem |-> p.mem, role |-> p.role, data |-> FALSE,
                       writable |-> p.writable, closed |-> TRUE,
                       isClosedByPeer |-> p.isClosedByPeer, hasError |-> p.hasError,
                       bufferDataLen |-> p.bufferDataLen]
      <3>1. r \in Pipes
        BY ClosedRecord, Zenon
      <3>2. pipe' = r
        BY <2>1, Zenon
      <3> QED BY <3>1, <3>2, Zenon
    <2>3. told' \in Nat
      OBVIOUS
    <2>4. reading' = FALSE
      BY <2>1
    <2>5. CASE ~p.hasError /\ ~p.isClosedByPeer
      <3>1. shutting' = "requested" /\ handle' = "open" /\ fault' = FALSE
        BY <1>2, <2>1, <2>5 DEF Close, UvShutdown, Writable
      <3>2. PipeTypes'
        BY <2>2, <2>3, <2>4, <3>1
      <3>3. PipeToldOnce'
        BY <1>2, <2>1, <2>5
      <3> QED BY <1>2, <2>1, <3>1, <3>2, <3>3
    <2>6. CASE p.hasError \/ p.isClosedByPeer
      <3>1. shutting' = "none" /\ handle' = "closing" /\ fault' = FALSE
        BY <1>2, <2>1, <2>6 DEF Close, UvClose
      <3>2. PipeTypes'
        BY <2>2, <2>3, <2>4, <3>1
      <3>3. PipeToldOnce'
        BY <1>2, <2>1, <2>6
      <3> QED BY <1>2, <2>1, <3>1, <3>2, <3>3
    <2> QED BY <2>5, <2>6
  <1> QED BY <1>1, <1>2

\* The same for a pipe, its callbacks and its libuv stream.
LEMMA PipeStep ==
  ASSUME PipeInv, BadFds = FALSE,
         \/ PipeCalls \/ PipeHooks \/ OnWrite \/ OnShutdown \/ OnClosePipe
         \/ PipeMoves \/ PipeBreaks
  PROVE  PipeInv'
  <1> USE PipeAssumption DEF PipeInv, PipeTypes, Pipes
  <1>1. ASSUME NEW role \in Roles, NEW fd \in Fds, ConstructPipe(role, fd)
        PROVE  PipeInv'
    BY <1>1 DEF ConstructPipe, PipeToldOnce
  <1>2. CASE ClosePipe
    <2>1. pipe.mem = "live" /\ Close(pipe) /\ UNCHANGED <<completed, told>>
      BY <1>2 DEF ClosePipe
    <2>2. handle' \in {"raw", "freed"} => completed' = <<>>
      BY <2>1 DEF Close, UvShutdown, UvClose
    <2> QED BY <2>1, <2>2, CloseStep
  <1>3. CASE DeletePipe
    <2> DEFINE p == [pipe EXCEPT !.mem = "deleted"]
    <2>1. pipe.mem = "live" /\ Close(p) /\ UNCHANGED <<completed, told>>
      BY <1>3 DEF DeletePipe
    <2>2. handle' \in {"raw", "freed"} => completed' = <<>>
      BY <2>1 DEF Close, UvShutdown, UvClose
    <2> QED BY <2>1, <2>2, CloseStep
  <1>4. CASE ConsumePipe
    BY <1>4 DEF ConsumePipe, streamVars, PipeToldOnce
  <1>5. ASSUME NEW w \in Writes, NEW d, WriteRefused(w, d)
        PROVE  PipeInv'
    BY <1>5 DEF WriteRefused, streamVars, PipeToldOnce
  <1>6. ASSUME NEW w \in Writes, NEW d, WriteAll(w, d)
        PROVE  PipeInv'
    BY <1>6 DEF WriteAll, MayWrite, Writable, PipeToldOnce
  <1>7. ASSUME NEW w \in Writes, NEW d, WriteError(w, d)
        PROVE  PipeInv'
    <2>1. /\ pipe.mem = "live" /\ Close(pipe) /\ ~pipe.closed
          /\ told' = told + 1 /\ UNCHANGED completed
      BY <1>7 DEF WriteError, MayWrite, TellSubclass
    <2>2. handle' \in {"raw", "freed"} => completed' = <<>>
      BY <2>1 DEF Close, UvShutdown, UvClose
    <2> QED BY <2>1, <2>2, CloseStep
  <1>8. ASSUME NEW w \in Writes, NEW d, NEW r, WriteQueued(w, d, r)
        PROVE  PipeInv'
    BY <1>8 DEF WriteQueued, MayWrite, UvWrite, Writable, PipeToldOnce
  <1>9. ASSUME NEW n \in 1..BufferSize, OnUvReadData(n)
        PROVE  PipeInv'
    BY <1>9 DEF OnUvReadData, Room, PipeToldOnce
  <1>10. ASSUME NEW byPeer \in BOOLEAN, OnUvReadEnd(byPeer)
         PROVE  PipeInv'
    <2> DEFINE p == IF byPeer THEN [pipe EXCEPT !.isClosedByPeer = TRUE]
                    ELSE [pipe EXCEPT !.hasError = TRUE]
    <2>1. /\ pipe.data /\ Close(p) /\ handle = "open"
          /\ told' = told + 1 /\ UNCHANGED completed
      BY <1>10 DEF OnUvReadEnd, TellSubclass
    <2>2. handle' \in {"raw", "freed"} => completed' = <<>>
      BY <2>1 DEF Close, UvShutdown, UvClose
    <2>3. pipe.mem = "live" /\ ~pipe.closed /\ p.closed = pipe.closed /\ p.data = pipe.data
          /\ p.writable = pipe.writable
      BY <2>1
    <2> QED BY <2>1, <2>2, <2>3, CloseStep
  <1>11. CASE OnWriteError
    <2> DEFINE p == [pipe EXCEPT !.hasError =
                       @ \/ Head(completed).status \notin {"EPIPE", "ENOTCONN"}]
    <2>1. /\ pipe.data /\ Close(p) /\ told' = told + 1
      BY <1>11 DEF OnWriteError, TellSubclass
    <2>2. pipe.mem = "live" /\ ~pipe.closed /\ handle = "open"
      BY <2>1
    <2>3. p.closed = pipe.closed /\ p.data = pipe.data
          /\ p.writable = pipe.writable
      OBVIOUS
    <2>4. handle' \notin {"raw", "freed"}
      BY <2>1, <2>2, <2>3 DEF Close, UvShutdown, UvClose
    <2> QED BY <2>1, <2>2, <2>3, <2>4, CloseStep
  <1>12. CASE OnWrite
    BY <1>12 DEF OnWrite, PipeToldOnce
  <1>13. CASE OnShutdown
    BY <1>13 DEF OnShutdown, ShutdownEnds, PipeToldOnce
  <1>14. CASE OnClosePipe
    BY <1>14 DEF OnClosePipe, CloseEnds, PipeToldOnce
  <1>15. CASE PipeMoves
    BY <1>15 DEF PipeMoves, FlushHead, FailHead, CancelQueue, PipeToldOnce
  <1>16. CASE PipeBreaks
    BY <1>16 DEF PipeBreaks, Break, PipeToldOnce
  <1> QED BY <1>1, <1>2, <1>3, <1>4, <1>5, <1>6, <1>7, <1>8, <1>9, <1>10, <1>11,
             <1>12, <1>13, <1>14, <1>15, <1>16
          DEF PipeCalls, PipeHooks

-----------------------------------------------------------------------------
\* The loop's own conjunct.

\* With the loop idle and everything closed, no handle is left but those of failed
\* calls of AddSignal.
LEMMA NothingLeft ==
  ASSUME TimerInv, SignalsInv, PipeInv, ~Alive, AllClosed
  PROVE  /\ uvTimer.state \in {"none", "freed"} /\ handle \in {"raw", "freed"}
         /\ \A h \in Sigs : uvSignal[h] \in {"none", "freed", "unstarted"}
  <1>1. uvTimer.state \in {"none", "freed"}
    BY DEF TimerInv, TimerTypeOK, Alive, AllClosed
  <1>2. handle \in {"raw", "freed"}
    BY DEF PipeInv, PipeTypes, Alive, AllClosed
  <1>3. \A h \in Sigs : uvSignal[h] \in {"none", "freed", "unstarted"}
    BY DEF SignalsInv, SignalsTypeOK, Alive, AllClosed
  <1> QED BY <1>1, <1>2, <1>3

\* Only a loop that is running or idle changes anything that LoopInv speaks of.
LEMMA LoopStep == IInv /\ [Next]_vars => LoopInv'
  <1> SUFFICES ASSUME IInv, [Next]_vars PROVE LoopInv'
    OBVIOUS
  <1> USE DEF IInv, LoopInv, CleanDestroy
  <1>1. CASE UNCHANGED vars
    BY <1>1 DEF vars, loopVars, timerVars, signalVars, pipeVars, streamVars, Alive
  <1>2. CASE Inits
    BY <1>2 DEF Inits, OfLoop, ClassInit, timerVars, signalVars, pipeVars, streamVars,
                Alive
  <1>3. CASE AppCalls
    BY <1>3 DEF AppCalls, AppTurn, loopVars
  <1>4. CASE Hooks
    BY <1>4 DEF Hooks, CallbackWithHook
  <1>5. CASE HookEnds
    BY <1>5 DEF HookEnds, OfLoop, HookReturns
  <1>6. CASE \/ TimerFreed \/ SignalFreed
             \/ PipeWritten \/ PipeShutDown \/ PipeFreed \/ PipeSent
    BY <1>6 DEF TimerFreed, SignalFreed, PipeWritten, PipeShutDown, PipeFreed,
                PipeSent, Callback, loopVars
  <1>7. CASE PeerBreaks
    BY <1>7 DEF PeerBreaks, OfPipe, PipeBreaks, Break, timerVars, signalVars, loopVars,
                Alive
  <1>8. CASE Runs
    BY <1>8 DEF Runs, OfLoop, RunLoop
  <1>9. CASE Returns
    BY <1>9 DEF Returns, OfLoop, RunLoopReturns, timerVars, signalVars, pipeVars,
                streamVars, Alive
  <1>10. CASE Destroys
    <2>1. /\ loop' = "deleted" /\ UNCHANGED <<turn, idle>> /\ idle /\ AllClosed
          /\ UNCHANGED <<timerVars, signalVars, pipeVars>>
      BY <1>10 DEF Destroys, OfLoop, ClassDestroy
    <2>2. UNCHANGED <<uvTimer, uvSignal, reading, queue, completed, shutting, handle>>
      BY <2>1 DEF timerVars, signalVars, pipeVars, streamVars
    <2>3. ~Alive /\ ~Alive'
      BY <2>1, <2>2 DEF Alive
    <2> QED BY <2>1, <2>2, <2>3, NothingLeft
  <1> QED BY <1>1, <1>2, <1>3, <1>4, <1>5, <1>6, <1>7, <1>8, <1>9, <1>10 DEF Next

\* A step of one object leaves the invariants of the others alone.
LEMMA NextInv == BadFds = FALSE /\ IInv /\ [Next]_vars => IInv'
  <1> SUFFICES ASSUME BadFds = FALSE, IInv, [Next]_vars PROVE IInv'
    OBVIOUS
  <1>1. LoopInv'
    BY LoopStep
  <1>2. UNCHANGED timerVars => TimerInv'
    BY DEF IInv, timerVars, TimerInv, TimerTypeOK, TimerAsTold
  <1>3. UNCHANGED signalVars => SignalsInv'
    BY DEF IInv, signalVars, SignalsInv, SignalsTypeOK
  <1>4. UNCHANGED pipeVars => PipeInv'
    BY DEF IInv, pipeVars, streamVars, PipeInv, PipeTypes, PipeToldOnce
  <1>5. TimerInv'
    <2>1. \/ UNCHANGED timerVars \/ TimerCalls \/ OnUvTimer \/ OnCloseTimer
      BY DEF Next, vars, Inits, AppCalls, Hooks, HookEnds, TimerFreed, SignalFreed,
             PipeWritten, PipeShutDown, PipeFreed, PipeSent, PeerBreaks, Runs, Returns,
             Destroys, OfTimer, OfSignals, OfPipe, OfLoop
    <2> QED BY <2>1, <1>2, TimerStep DEF IInv
  <1>6. SignalsInv'
    <2>1. \/ UNCHANGED signalVars \/ SignalCalls
          \/ \E h \in Sigs : OnUvSignal(h) \/ OnCloseSignal(h)
      BY DEF Next, vars, Inits, AppCalls, Hooks, HookEnds, TimerFreed, SignalFreed,
             PipeWritten, PipeShutDown, PipeFreed, PipeSent, PeerBreaks, Runs, Returns,
             Destroys, OfTimer, OfSignals, OfPipe, OfLoop
    <2> QED BY <2>1, <1>3, SignalStep DEF IInv
  <1>7. PipeInv'
    <2>1. \/ UNCHANGED pipeVars
          \/ PipeCalls \/ PipeHooks \/ OnWrite \/ OnShutdown \/ OnClosePipe
          \/ PipeMoves \/ PipeBreaks
      BY DEF Next, vars, Inits, AppCalls, Hooks, HookEnds, TimerFreed, SignalFreed,
             PipeWritten, PipeShutDown, PipeFreed, PipeSent, PeerBreaks, Runs, Returns,
             Destroys, OfTimer, OfSignals, OfPipe, OfLoop
    <2> QED BY <2>1, <1>4, PipeStep DEF IInv
  <1> QED BY <1>1, <1>5, <1>6, <1>7 DEF IInv

\* The invariant holds at the start.
LEMMA InitInv == Init => IInv
  <1> SUFFICES ASSUME Init PROVE IInv
    OBVIOUS
  <1> USE TimesAssumption, PipeAssumption DEF Init
  <1>1. TimerInv
    BY DEF TimerInit, TimerInv, TimerTypeOK, TimerAsTold, HandleStates
  <1>2. SignalsInv
    BY DEF SignalsInit, SignalsInv, SignalsTypeOK
  <1>3. PipeInv
    <2>1. pipe = [mem |-> "none", role |-> "PRODUCER", data |-> FALSE,
                  writable |-> TRUE, closed |-> FALSE, isClosedByPeer |-> FALSE,
                  hasError |-> FALSE, bufferDataLen |-> 0]
      BY DEF PipeInit
    <2>2. "PRODUCER" \in Roles /\ 0 \in 0..BufferSize
      BY DEF Roles
    <2>3. pipe \in Pipes
      BY ONLY <2>1, <2>2 DEF Pipes
    <2>4. PipeTypes
      BY <2>3 DEF PipeInit, PipeTypes
    <2> QED BY <2>4 DEF PipeInit, PipeInv, PipeToldOnce
  <1>4. LoopInv
    BY DEF LoopInit, LoopInv, CleanDestroy
  <1> QED BY <1>1, <1>2, <1>3, <1>4 DEF IInv

\* The invariant, as long as every UnixStreamSocket gets the descriptor of a pipe.
THEOREM Invariant == BadFds = FALSE /\ Spec => []IInv
  <1>1. ASSUME BadFds = FALSE PROVE IInv /\ [Next]_vars => IInv'
    BY <1>1, NextInv
  <1>2. SUFFICES ASSUME BadFds = FALSE PROVE Spec => []IInv
    OBVIOUS
  <1> QED BY <1>1, <1>2, InitInv, PTL DEF Spec

\* libuv never aborts on a handle closed twice, started or written to after its
\* close, and no callback reaches a deleted Timer, SignalsHandler or pipe.
THEOREM NeverAborts == BadFds = FALSE /\ Spec => []NoAbort
  <1>1. IInv => NoAbort
    BY DEF IInv, TimerInv, SignalsInv, SignalsTypeOK, PipeInv, NoAbort
  <1> QED BY <1>1, Invariant, PTL

\* A timer waits for what the object remembers, and calls OnTimer once when it does
\* not repeat.
THEOREM TimersAsTold == BadFds = FALSE /\ Spec => []TimerAsTold
  <1>1. IInv => TimerAsTold
    BY DEF IInv, TimerInv
  <1> QED BY <1>1, Invariant, PTL

\* The subclass of a pipe is told of its end once.
THEOREM PipesToldOnce == BadFds = FALSE /\ Spec => []PipeToldOnce
  <1>1. IInv => PipeToldOnce
    BY DEF IInv, PipeInv
  <1> QED BY <1>1, Invariant, PTL

\* ClassDestroy leaves no handle in the loop but those of failed calls of AddSignal.
THEOREM NothingLeftBehind == BadFds = FALSE /\ Spec => []CleanDestroy
  <1>1. IInv => CleanDestroy
    BY DEF IInv, LoopInv
  <1> QED BY <1>1, Invariant, PTL

-----------------------------------------------------------------------------
(***************************************************************************)
(* The bytes of a pipe, as they are accepted, leave and end, are those of  *)
(* a ByteChannel.                                                          *)
(***************************************************************************)
\* The stream's own variables, and those that only the bytes depend on.
StreamTypes ==
  /\ fin \in BOOLEAN /\ sock \in {"ok", "broken"}
  /\ queue \in Seq([w : Writes, end : Nat])
  /\ completed \in Seq([w : Writes, status : Statuses])
  /\ backlog \in Seq(Byte) /\ wire \in Seq(Byte) /\ accepted \in Seq(Byte)
  /\ issued \subseteq Writes /\ received \in 0..MaxRecv

\* The write queue: every request ends within the bytes given to uv_write, the
\* ends are in order, and on a sound open stream the last request ends with the
\* last byte.
StreamLen == Len(wire) + Len(backlog)

Backlog ==
  /\ wire \o backlog = accepted
  /\ \A i \in DOMAIN queue : queue[i].end \in Len(wire) + 1 .. StreamLen
  /\ \A i, j \in DOMAIN queue : i < j => queue[i].end < queue[j].end
  /\ sock = "ok" /\ handle \in {"raw", "open"} =>
       IF queue = <<>> THEN backlog = <<>> ELSE queue[Len(queue)].end = StreamLen

\* A stream that was shut down in order is closing or gone, and stays so.
Sealed ==
  fin => pipe.closed /\ shutting = "done" /\ handle \in {"closing", "freed"}

StreamInv == PipeInv /\ StreamTypes /\ Backlog /\ Sealed

-----------------------------------------------------------------------------
\* Lemmas about the bytes of a write.

\* The bytes of a write are bytes.
LEMMA DataType ==
  ASSUME NEW w \in Writes, NEW n \in 0..MaxLen
  PROVE  Data(w, n) \in Seq(Byte) /\ Len(Data(w, n)) = n
  <1>1. \A k \in 1..n : <<w, k>> \in Byte
    BY PipeAssumption DEF Byte
  <1> QED BY <1>1, PipeAssumption DEF Data

\* The two parts a sequence is cut into after n elements.
LEMMA SplitParts ==
  ASSUME NEW S, NEW s \in Seq(S), NEW n \in 0..Len(s)
  PROVE  /\ SubSeq(s, 1, n) \in Seq(S) /\ Len(SubSeq(s, 1, n)) = n
         /\ SubSeq(s, n + 1, Len(s)) \in Seq(S)
         /\ Len(SubSeq(s, n + 1, Len(s))) = Len(s) - n
  <1>1. Len(s) \in Nat /\ n \in Int /\ \A i \in 1..Len(s) : s[i] \in S
    OBVIOUS
  <1>2. /\ SubSeq(s, 1, n) \in Seq(S)
        /\ Len(SubSeq(s, 1, n)) = IF 1 <= n THEN n - 1 + 1 ELSE 0
    BY <1>1, SubSeqProperties
  <1>3. /\ SubSeq(s, n + 1, Len(s)) \in Seq(S)
        /\ Len(SubSeq(s, n + 1, Len(s))) = IF n + 1 <= Len(s) THEN Len(s) - (n + 1) + 1 ELSE 0
    <2>1. \A i \in n + 1 .. Len(s) : s[i] \in S
      BY <1>1
    <2>2. n + 1 \in Int /\ Len(s) \in Int
      BY <1>1
    <2> QED BY <2>1, <2>2, SubSeqProperties
  <1> QED BY <1>1, <1>2, <1>3

\* They make it up again.
LEMMA SplitJoins ==
  ASSUME NEW S, NEW s \in Seq(S), NEW n \in 0..Len(s)
  PROVE  SubSeq(s, 1, n) \o SubSeq(s, n + 1, Len(s)) = s
  <1>1. /\ Len(s) \in Nat
        /\ 1 \in 1..Len(s) + 1 /\ n \in 1 - 1 .. Len(s) /\ Len(s) \in n..Len(s)
    OBVIOUS
  <1>2. SubSeq(s, 1, n) \o SubSeq(s, n + 1, Len(s)) = SubSeq(s, 1, Len(s))
    BY <1>1, ConcatAdjacentSubSeq
  <1> QED BY <1>2, SubSeqFull

\* Results of uv_try_write that hand the write over to uv_write, how many bytes
\* they have put on the wire, which ones, and what is left.
Partial(d) == {EAGAIN} \cup 1..Len(d)
Written(r) == IF r = EAGAIN THEN 0 ELSE r
Taken(d, r) == SubSeq(d, 1, Written(r))
Pending(d, r) == SubSeq(d, Written(r) + 1, Len(d))

\* What is left continues what uv_try_write took.
LEMMA PendingCompletes ==
  ASSUME NEW d \in Seq(Byte), NEW r \in Partial(d)
  PROVE  /\ Written(r) \in 0..Len(d)
         /\ Taken(d, r) \in Seq(Byte) /\ Pending(d, r) \in Seq(Byte)
         /\ Len(Taken(d, r)) = Written(r) /\ Len(Pending(d, r)) = Len(d) - Written(r)
         /\ Taken(d, r) \o Pending(d, r) = d
  <1>1. Written(r) \in 0..Len(d)
    BY DEF Partial, Written, EAGAIN
  <1> QED BY <1>1, SplitParts, SplitJoins DEF Taken, Pending

\* A write of the bytes d.
WriteOf(w, d) ==
  \/ WriteRefused(w, d) \/ WriteAll(w, d) \/ WriteError(w, d)
  \/ \E r \in Partial(d) : WriteQueued(w, d, r)

\* Every call of Write is a write of some bytes.
LEMMA WriteForm ==
  ASSUME NEW w \in Writes, NEW n \in 0..MaxLen,
         \/ WriteRefused(w, Data(w, n)) \/ WriteAll(w, Data(w, n))
         \/ WriteError(w, Data(w, n))
         \/ \E r \in TryWrite(n) : WriteQueued(w, Data(w, n), r)
  PROVE  \E d \in Seq(Byte) : WriteOf(w, d)
  <1> DEFINE d == Data(w, n)
  <1>1. d \in Seq(Byte)
    BY DataType
  <1>2. \/ WriteRefused(w, d) \/ WriteAll(w, d) \/ WriteError(w, d)
        \/ \E r \in TryWrite(n) : WriteQueued(w, d, r)
    OBVIOUS
  <1> HIDE DEF d
  <1>3. ASSUME NEW r, WriteQueued(w, d, r) PROVE r \in Partial(d)
    BY <1>1, <1>3 DEF WriteQueued, Partial, TryWrite, UvTryWrite, EAGAIN, TryError
  <1> QED BY <1>1, <1>2, <1>3 DEF WriteOf

\* What a step of a pipe may be, with the writes named by their bytes.
LEMMA PipeForm ==
  ASSUME \/ PipeCalls \/ PipeHooks \/ OnWrite \/ OnShutdown \/ OnClosePipe
         \/ PipeMoves \/ PipeBreaks
  PROVE  \/ \E role \in Roles, fd \in Fds : ConstructPipe(role, fd)
         \/ ClosePipe \/ DeletePipe \/ ConsumePipe
         \/ \E w \in Writes, d \in Seq(Byte) : WriteOf(w, d)
         \/ \E n \in 1..BufferSize : OnUvReadData(n)
         \/ \E byPeer \in BOOLEAN : OnUvReadEnd(byPeer)
         \/ OnWriteError \/ OnWrite \/ OnShutdown \/ OnClosePipe
         \/ PipeMoves \/ PipeBreaks
  <1>1. (\E w \in Writes, n \in 0..MaxLen :
           \/ WriteRefused(w, Data(w, n)) \/ WriteAll(w, Data(w, n))
           \/ WriteError(w, Data(w, n))
           \/ \E r \in TryWrite(n) : WriteQueued(w, Data(w, n), r))
        => \E w \in Writes, d \in Seq(Byte) : WriteOf(w, d)
    BY WriteForm
  <1> QED BY <1>1 DEF PipeCalls, PipeHooks

-----------------------------------------------------------------------------
\* The types of the stream.

\* The bytes of the oldest request are all in the backlog.
LEMMA HeadFits ==
  ASSUME StreamTypes, Backlog, queue # <<>>, NEW n \in 1..(Head(queue).end - Len(wire))
  PROVE  n \in 0..Len(backlog)
  <1>1. Head(queue) = queue[1] /\ 1 \in DOMAIN queue
    BY DEF StreamTypes
  <1>2. Head(queue).end \in Len(wire) + 1 .. Len(wire) + Len(backlog)
    BY <1>1 DEF Backlog, StreamLen
  <1> QED BY <1>2 DEF StreamTypes

\* Closing leaves the stream's bytes and requests to its caller.
LEMMA TypesStep ==
  ASSUME StreamInv,
         \/ PipeCalls \/ PipeHooks \/ OnWrite \/ OnShutdown \/ OnClosePipe
         \/ PipeMoves \/ PipeBreaks
  PROVE  StreamTypes'
  <1> USE DEF StreamInv, StreamTypes, streamVars
  <1>1. ASSUME UNCHANGED <<fin, sock, queue, completed, backlog, wire, accepted, issued,
                           received>>
        PROVE  StreamTypes'
    BY <1>1
  <1>2. CASE \E role \in Roles, fd \in Fds : ConstructPipe(role, fd)
    BY <1>1, <1>2 DEF ConstructPipe
  <1>3. CASE ClosePipe \/ DeletePipe \/ ConsumePipe
    BY <1>1, <1>3 DEF ClosePipe, DeletePipe, ConsumePipe
  <1>4. ASSUME NEW w \in Writes, NEW d \in Seq(Byte), WriteOf(w, d)
        PROVE  StreamTypes'
    <2>1. CASE WriteRefused(w, d) \/ WriteError(w, d)
      BY <2>1 DEF WriteRefused, WriteError
    <2>2. CASE WriteAll(w, d)
      BY <2>2 DEF WriteAll
    <2>3. ASSUME NEW r \in Partial(d), WriteQueued(w, d, r) PROVE StreamTypes'
      <3>1. Pending(d, r) \in Seq(Byte) /\ Taken(d, r) \in Seq(Byte)
        BY PendingCompletes
      <3>2. wire' = wire \o Taken(d, r) /\ UvWrite(w, Pending(d, r))
        BY <2>3 DEF WriteQueued, Taken, Pending, Written
      <3>3. wire' \in Seq(Byte)
        BY <3>1, <3>2
      <3>4. queue' \in Seq([w : Writes, end : Nat]) /\ backlog' \in Seq(Byte)
        BY <3>1, <3>2, <3>3 DEF UvWrite
      <3> QED BY <2>3, <3>3, <3>4 DEF WriteQueued
    <2> QED BY <1>4, <2>1, <2>2, <2>3 DEF WriteOf
  <1>5. ASSUME NEW n \in 1..BufferSize, OnUvReadData(n) PROVE StreamTypes'
    BY <1>5, PipeAssumption DEF OnUvReadData
  <1>6. CASE \E byPeer \in BOOLEAN : OnUvReadEnd(byPeer)
    BY <1>1, <1>6 DEF OnUvReadEnd
  <1>7. CASE OnWriteError \/ OnWrite
    <2>1. completed # <<>> /\ completed' = Tail(completed)
      BY <1>7 DEF OnWriteError, OnWrite
    <2>2. completed' \in Seq([w : Writes, status : Statuses])
      BY <2>1, HeadTailProperties
    <2>3. UNCHANGED <<fin, sock, queue, backlog, wire, accepted, issued, received>>
      BY <1>7 DEF OnWriteError, OnWrite
    <2> QED BY <2>2, <2>3
  <1>8. CASE OnShutdown
    <2>1. fin' \in BOOLEAN
      BY <1>8 DEF OnShutdown, ShutdownEnds
    <2> QED BY <1>8, <2>1 DEF OnShutdown
  <1>a. CASE OnClosePipe
    BY <1>1, <1>a DEF OnClosePipe
  <1>b. /\ queue # <<>> => /\ Head(queue) \in [w : Writes, end : Nat]
                           /\ Tail(queue) \in Seq([w : Writes, end : Nat])
        /\ queue # <<>> => \A s \in Statuses :
             Append(completed, [w |-> Head(queue).w, status |-> s])
               \in Seq([w : Writes, status : Statuses])
    <2>1. queue # <<>> => /\ Head(queue) \in [w : Writes, end : Nat]
                          /\ Tail(queue) \in Seq([w : Writes, end : Nat])
      BY HeadTailProperties
    <2>2. ASSUME queue # <<>>, NEW s \in Statuses
          PROVE  Append(completed, [w |-> Head(queue).w, status |-> s])
                   \in Seq([w : Writes, status : Statuses])
      BY <2>1, <2>2
    <2> QED BY <2>1, <2>2
  <1>9. CASE PipeMoves /\ FlushHead
    <2>1. PICK n \in 1..(Head(queue).end - Len(wire)) :
            /\ wire' = wire \o SubSeq(backlog, 1, n)
            /\ backlog' = SubSeq(backlog, n + 1, Len(backlog))
      BY <1>9 DEF FlushHead
    <2>2. n \in 0..Len(backlog)
      BY <1>9, HeadFits DEF FlushHead
    <2>3. wire' \in Seq(Byte) /\ backlog' \in Seq(Byte)
      BY <2>1, <2>2, SplitParts, ConcatProperties
    <2> QED BY <1>9, <1>b, <2>3 DEF PipeMoves, FlushHead, Statuses
  <1>10. CASE PipeMoves /\ FailHead
    BY <1>10, <1>b DEF PipeMoves, FailHead, Statuses
  <1>11. CASE PipeMoves /\ CancelQueue
    <2> DEFINE c == [i \in DOMAIN queue |-> [w |-> queue[i].w, status |-> "ECANCELED"]]
    <2>1. c \in Seq([w : Writes, status : Statuses])
      <3>1. \A i \in 1..Len(queue) : queue[i] \in [w : Writes, end : Nat]
        BY ElementOfSeq
      <3>2. \A i \in 1..Len(queue) :
              [w |-> queue[i].w, status |-> "ECANCELED"] \in [w : Writes, status : Statuses]
        BY <3>1 DEF Statuses
      <3>3. DOMAIN queue = 1..Len(queue) /\ Len(queue) \in Nat
        OBVIOUS
      <3> QED BY <3>2, <3>3
    <2>2. completed' = completed \o c
      BY <1>11 DEF CancelQueue
    <2>3. completed' \in Seq([w : Writes, status : Statuses])
      BY <2>1, <2>2, ConcatProperties
    <2> QED BY <1>11, <2>3 DEF PipeMoves, CancelQueue
  <1>12. CASE PipeBreaks
    BY <1>12 DEF PipeBreaks, Break
  <1> QED BY <1>2, <1>3, <1>4, <1>5, <1>6, <1>7, <1>8, <1>a, <1>9, <1>10, <1>11,
             <1>12, PipeForm DEF PipeMoves

-----------------------------------------------------------------------------
\* The write queue.

\* Concatenation of bytes is associative.
LEMMA Assoc ==
  \A s, t, u \in Seq(Byte) : (s \o t) \o u = s \o (t \o u)
  <1> TAKE s, t, u \in Seq(Byte)
  <1> QED BY ConcatAssociative

\* A write that is taken goes behind what waits: to the wire only when nothing
\* does, or to the end of the backlog.
LEMMA WriteBacklog ==
  ASSUME StreamInv, NEW w \in Writes, NEW d \in Seq(Byte), WriteOf(w, d)
  PROVE  Backlog'
  <1>1. pipe.mem = "live" /\ ~pipe.closed => handle = "open" /\ shutting = "none"
    BY DEF StreamInv, PipeInv
  <1>2. wire \in Seq(Byte) /\ backlog \in Seq(Byte) /\ accepted \in Seq(Byte) /\ Backlog
    BY DEF StreamInv, StreamTypes
  <1>3. CASE WriteRefused(w, d)
    BY <1>2, <1>3 DEF WriteRefused, streamVars, Backlog, StreamLen
  <1>4. CASE WriteError(w, d)
    <2>1. UNCHANGED <<wire, backlog, accepted, queue, sock>>
          /\ (handle' \in {"raw", "open"} => handle \in {"raw", "open"})
      BY <1>4 DEF WriteError, Close, UvShutdown, UvClose
    <2> QED BY <1>2, <2>1 DEF Backlog, StreamLen
  <1>5. CASE WriteAll(w, d)
    <2>1. Len(d) \in Nat \ {0}
      BY <1>5 DEF WriteAll
    <2>2. queue = <<>> /\ sock = "ok" /\ handle = "open"
      BY <1>1, <1>5, <2>1 DEF WriteAll, MayWrite, TryWrite, UvTryWrite, EAGAIN, TryError
    <2>3. backlog = <<>> /\ accepted = wire
      BY <1>2, <2>2, ConcatEmptySeq DEF Backlog
    <2>4. wire' = wire \o d /\ accepted' = accepted \o d
          /\ UNCHANGED <<queue, backlog, sock, handle>>
      BY <1>5 DEF WriteAll
    <2>5. wire' \o backlog' = accepted'
      BY <1>2, <2>3, <2>4, ConcatEmptySeq
    <2> QED BY <2>2, <2>3, <2>4, <2>5 DEF Backlog
  <1>6. ASSUME NEW r \in Partial(d), WriteQueued(w, d, r)
        PROVE  Backlog'
    <2> DEFINE rest == Pending(d, r)
               taken == Taken(d, r)
    <2>1. /\ rest \in Seq(Byte) /\ taken \in Seq(Byte) /\ taken \o rest = d
          /\ Len(taken) = Written(r) /\ Len(rest) = Len(d) - Written(r)
          /\ Written(r) \in 0..Len(d)
      BY PendingCompletes
    <2>2. /\ wire' = wire \o taken /\ backlog' = backlog \o rest
          /\ accepted' = accepted \o d
          /\ queue' = Append(queue, [w |-> w, end |-> Len(wire') + Len(backlog) + Len(rest)])
          /\ UNCHANGED <<sock, handle>>
      BY <1>6 DEF WriteQueued, UvWrite, Taken, Pending, Written
    <2>3. Len(rest) \in Nat \ {0}
      <3>1. d # <<>> /\ r # Len(d) /\ Len(d) \in Nat
        BY <1>6 DEF WriteQueued
      <3>2. Len(d) # 0
        BY <3>1
      <3>3. Written(r) # Len(d)
        BY <3>1, <3>2 DEF Written
      <3> QED BY <2>1, <3>1, <3>3
    <2>4. taken = <<>> \/ (backlog = <<>> /\ queue = <<>>)
      <3>1. CASE r = EAGAIN
        <4>1. Len(taken) = 0
          BY <2>1, <3>1 DEF Written
        <4> HIDE DEF taken
        <4> QED BY <2>1, <4>1
      <3>2. CASE r # EAGAIN
        <4>1. queue = <<>> /\ sock = "ok" /\ handle = "open"
          BY <1>1, <1>6, <3>2 DEF WriteQueued, MayWrite, TryWrite, UvTryWrite, EAGAIN, TryError
        <4> QED BY <1>2, <4>1 DEF Backlog
      <3> QED BY <3>1, <3>2
    <2> HIDE DEF rest, taken
    <2>0. rest \in Seq(Byte) /\ taken \in Seq(Byte)
      BY <2>1
    <2>5. wire' \o backlog' = accepted'
      <3>2. CASE taken = <<>>
        <4>1. d = rest /\ wire' = wire
          BY <1>2, <2>1, <2>2, <3>2, ConcatEmptySeq
        <4>2. (wire \o backlog) \o rest = wire \o (backlog \o rest)
          BY <1>2, <2>0, Assoc, ZenonT(60)
        <4> QED BY <1>2, <2>2, <4>1, <4>2 DEF Backlog
      <3>3. CASE backlog = <<>>
        <4>1. backlog' = rest /\ accepted = wire
          BY <1>2, <2>1, <2>2, <3>3, ConcatEmptySeq DEF Backlog
        <4>2. (wire \o taken) \o rest = wire \o (taken \o rest)
          BY <1>2, <2>0, Assoc, ZenonT(60)
        <4> QED BY <2>1, <2>2, <4>1, <4>2
      <3> QED BY <2>4, <3>2, <3>3
    <2>6. /\ Len(wire) \in Nat /\ Len(backlog) \in Nat /\ Len(taken) \in Nat
          /\ Len(wire') = Len(wire) + Len(taken)
          /\ Len(backlog') = Len(backlog) + Len(rest)
          /\ Len(taken) = 0 \/ queue = <<>>
      <3>1. wire \in Seq(Byte) /\ backlog \in Seq(Byte)
        BY <1>2
      <3>2. /\ Len(wire \o taken) = Len(wire) + Len(taken)
            /\ Len(backlog \o rest) = Len(backlog) + Len(rest)
        BY <2>0, <3>1, ConcatProperties
      <3>3. Len(taken) = 0 \/ queue = <<>>
        BY <2>4
      <3>4. wire' = wire \o taken /\ backlog' = backlog \o rest
        BY <2>2, Zenon
      <3>5. Len(wire) \in Nat /\ Len(backlog) \in Nat /\ Len(taken) \in Nat
        BY <2>0, <3>1, LenProperties
      <3> QED BY <3>2, <3>3, <3>4, <3>5, Zenon
    <2> DEFINE new == Len(wire') + Len(backlog) + Len(rest)
    <2>7. new = StreamLen' /\ new \in Len(wire') + 1 .. StreamLen'
          /\ (new > StreamLen \/ queue = <<>>)
      BY <2>3, <2>6 DEF StreamLen
    <2>8. /\ Len(queue) \in Nat /\ queue' # <<>> /\ DOMAIN queue = 1..Len(queue)
          /\ Len(queue') = Len(queue) + 1 /\ DOMAIN queue' = 1..Len(queue) + 1
          /\ \A i \in 1..Len(queue) : queue'[i] = queue[i]
          /\ queue'[Len(queue) + 1].end = new
      <3> DEFINE entry == [w |-> w, end |-> new]
                 T == [w : Writes, end : Nat]
      <3>1. entry \in T /\ entry.end = new
        BY <2>3, <2>6
      <3>2. queue' = Append(queue, entry) /\ queue \in Seq(T)
        BY <2>2 DEF StreamInv, StreamTypes
      <3> HIDE DEF entry, new, T
      <3>3. /\ queue' # <<>> /\ Len(queue') = Len(queue) + 1 /\ queue' \in Seq(T)
            /\ \A i \in 1..Len(queue) : queue'[i] = queue[i]
            /\ queue'[Len(queue) + 1] = entry
        BY <3>1, <3>2, AppendProperties
      <3> QED BY <3>1, <3>2, <3>3
    <2>9. /\ \A i \in 1..Len(queue) : queue[i].end \in Len(wire) + 1 .. StreamLen
          /\ \A i, j \in 1..Len(queue) : i < j => queue[i].end < queue[j].end
          /\ StreamLen = Len(wire) + Len(backlog)
          /\ StreamLen' = Len(wire') + Len(backlog')
      BY <1>2, <2>8 DEF Backlog, StreamLen
    <2> HIDE DEF new
    <2>10. \A i \in 1..Len(queue) :
             queue[i].end \in Len(wire') + 1 .. StreamLen' /\ queue[i].end < new
      BY <2>3, <2>6, <2>7, <2>9
    <2>11. \A i \in DOMAIN queue' : queue'[i].end \in Len(wire') + 1 .. StreamLen'
      BY <2>7, <2>8, <2>10
    <2>12. \A i, j \in DOMAIN queue' : i < j => queue'[i].end < queue'[j].end
      BY <2>8, <2>9, <2>10, SMTT(20)
    <2>13. queue'[Len(queue')].end = StreamLen'
      BY <2>7, <2>8
    <2> QED BY <2>5, <2>8, <2>11, <2>12, <2>13 DEF Backlog
  <1> QED BY <1>3, <1>4, <1>5, <1>6 DEF WriteOf

\* Taking the oldest request away keeps the rest in order.
LEMMA TailBacklog ==
  ASSUME StreamTypes, Backlog, queue # <<>>
  PROVE  /\ DOMAIN Tail(queue) = 1..Len(queue) - 1
         /\ Len(queue) \in Nat \ {0} /\ Len(Tail(queue)) = Len(queue) - 1
         /\ \A i \in 1..Len(queue) - 1 : Tail(queue)[i] = queue[i + 1]
         /\ Head(queue) = queue[1]
         /\ \A i \in 1..Len(queue) - 1 :
              Tail(queue)[i].end \in queue[1].end + 1 .. StreamLen
         /\ \A i, j \in 1..Len(queue) - 1 :
              i < j => Tail(queue)[i].end < Tail(queue)[j].end
  <1>1. /\ queue \in Seq([w : Writes, end : Nat])
        /\ DOMAIN queue = 1..Len(queue) /\ Len(queue) \in Nat \ {0}
    BY DEF StreamTypes
  <1>2. /\ Tail(queue) \in Seq([w : Writes, end : Nat])
        /\ Len(Tail(queue)) = Len(queue) - 1
        /\ \A i \in 1..Len(Tail(queue)) : Tail(queue)[i] = queue[i + 1]
    BY <1>1, HeadTailProperties
  <1>3. Head(queue) = queue[1]
    BY <1>1
  <1>4. /\ \A i \in 1..Len(queue) : queue[i].end \in Len(wire) + 1 .. StreamLen
        /\ \A i, j \in 1..Len(queue) : i < j => queue[i].end < queue[j].end
        /\ Len(wire) \in Nat /\ StreamLen \in Nat
    <2>1. Len(wire) \in Nat /\ StreamLen \in Nat
      BY DEF StreamTypes, StreamLen
    <2> QED BY <1>1, <2>1 DEF Backlog
  <1>5. ASSUME NEW i \in 1..Len(queue) - 1
        PROVE  Tail(queue)[i].end \in queue[1].end + 1 .. StreamLen
    <2>1. i + 1 \in 1..Len(queue) /\ 1 \in 1..Len(queue) /\ 1 < i + 1
          /\ Tail(queue)[i] = queue[i + 1]
      BY <1>1, <1>2
    <2> QED BY <1>4, <2>1
  <1>6. ASSUME NEW i \in 1..Len(queue) - 1, NEW j \in 1..Len(queue) - 1, i < j
        PROVE  Tail(queue)[i].end < Tail(queue)[j].end
    <2>1. /\ i + 1 \in 1..Len(queue) /\ j + 1 \in 1..Len(queue) /\ i + 1 < j + 1
          /\ Tail(queue)[i] = queue[i + 1] /\ Tail(queue)[j] = queue[j + 1]
      BY <1>1, <1>2, <1>6
    <2> QED BY <1>4, <2>1
  <1> QED BY <1>1, <1>2, <1>3, <1>5, <1>6

\* What leaves is the front of the backlog.
LEMMA FlushBacklog ==
  ASSUME StreamTypes, Backlog, FlushHead, UNCHANGED accepted
  PROVE  Backlog'
  <1> DEFINE first == queue[1].end
  <1>1. queue # <<>> /\ handle = "open" /\ sock = "ok" /\ UNCHANGED <<handle, sock>>
    BY DEF FlushHead
  <1>2. Head(queue) = queue[1] /\ first \in Len(wire) + 1 .. StreamLen
        /\ Len(queue) \in Nat \ {0} /\ DOMAIN queue = 1..Len(queue)
    BY <1>1, TailBacklog DEF Backlog, StreamTypes
  <1>3. PICK n \in 1..(first - Len(wire)) :
          /\ wire' = wire \o SubSeq(backlog, 1, n)
          /\ backlog' = SubSeq(backlog, n + 1, Len(backlog))
          /\ IF n = first - Len(wire) THEN queue' = Tail(queue) ELSE queue' = queue
    BY <1>2 DEF FlushHead
  <1>4. /\ wire \in Seq(Byte) /\ backlog \in Seq(Byte)
        /\ Len(wire) \in Nat /\ Len(backlog) \in Nat
        /\ StreamLen = Len(wire) + Len(backlog)
        /\ StreamLen' = Len(wire') + Len(backlog')
    BY DEF StreamTypes, StreamLen
  <1>5. n \in 0..Len(backlog) /\ n \in Nat
    BY <1>1, <1>2, <1>3, HeadFits
  <1>6. /\ SubSeq(backlog, 1, n) \in Seq(Byte) /\ Len(SubSeq(backlog, 1, n)) = n
        /\ backlog' \in Seq(Byte) /\ Len(backlog') = Len(backlog) - n
        /\ SubSeq(backlog, 1, n) \o backlog' = backlog
    BY <1>3, <1>4, <1>5, SplitParts, SplitJoins
  <1>7. wire' \o backlog' = accepted'
    <2>1. wire' \o backlog' = wire \o (SubSeq(backlog, 1, n) \o backlog')
      BY <1>3, <1>4, <1>6, Assoc, ZenonT(60)
    <2> QED BY <1>6, <2>1 DEF Backlog
  <1>8. Len(wire') = Len(wire) + n /\ StreamLen' = StreamLen
    <2>1. Len(wire') = Len(wire) + Len(SubSeq(backlog, 1, n))
      BY <1>3, <1>4, <1>6, ConcatProperties
    <2>2. Len(SubSeq(backlog, 1, n)) = n /\ Len(backlog') = Len(backlog) - n
      BY <1>6
    <2>3. StreamLen' = Len(wire') + Len(backlog') /\ StreamLen = Len(wire) + Len(backlog)
          /\ Len(wire) \in Nat /\ Len(backlog) \in Nat /\ n \in Nat
      BY <1>4, <1>5
    <2> QED BY <2>1, <2>2, <2>3
  <1>9. /\ \A i \in 1..Len(queue) : queue[i].end \in Len(wire) + 1 .. StreamLen
        /\ \A i, j \in 1..Len(queue) : i < j => queue[i].end < queue[j].end
        /\ queue[Len(queue)].end = StreamLen
    BY <1>1, <1>2 DEF Backlog
  <1>a. first \in Int /\ n \in Int /\ n <= first - Len(wire) /\ first = queue[1].end
        /\ Len(wire) \in Int
    BY <1>2, <1>3, <1>4, <1>5
  <1> HIDE DEF first
  <1>10. CASE n = first - Len(wire)
    <2>1. /\ queue' = Tail(queue) /\ Len(wire') = first
          /\ first = queue[1].end
      <3>1. queue' = Tail(queue)
        BY <1>3, <1>10
      <3>2. Len(wire') = first
        BY <1>8, <1>a, <1>10
      <3> QED BY <3>1, <3>2, <1>a
    <2>2. /\ DOMAIN queue' = 1..Len(queue) - 1 /\ Len(queue') = Len(queue) - 1
          /\ \A i \in 1..Len(queue) - 1 : queue'[i] = queue[i + 1]
          /\ \A i \in 1..Len(queue) - 1 : queue'[i].end \in Len(wire') + 1 .. StreamLen'
          /\ \A i, j \in 1..Len(queue) - 1 : i < j => queue'[i].end < queue'[j].end
      BY <1>1, <1>8, <2>1, TailBacklog
    <2>3. CASE Len(queue) = 1
      <3>1. queue' = <<>>
        <4>1. queue \in Seq([w : Writes, end : Nat])
          BY DEF StreamTypes
        <4>2. Tail(queue) \in Seq([w : Writes, end : Nat]) /\ Len(Tail(queue)) = 0
          BY <1>1, <2>3, <4>1, HeadTailProperties
        <4> QED BY <2>1, <4>2
      <3>2. Len(wire') = StreamLen'
        BY <1>2, <1>8, <1>9, <2>1, <2>3
      <3>3. backlog' = <<>>
        BY <1>4, <1>6, <1>8, <3>2
      <3> QED BY <1>7, <3>1, <3>3 DEF Backlog
    <2>4. CASE Len(queue) > 1
      <3>1. queue' # <<>> /\ queue'[Len(queue')].end = StreamLen'
        <4>1. Len(queue) - 1 \in 1..Len(queue) - 1 /\ Len(queue) - 1 + 1 = Len(queue)
          BY <1>2, <2>4
        <4>2. queue'[Len(queue) - 1] = queue[Len(queue)]
          BY <2>2, <4>1
        <4> QED BY <1>8, <1>9, <2>2, <2>4, <4>1, <4>2
      <3> QED BY <1>7, <2>2, <3>1 DEF Backlog
    <2> QED BY <1>2, <2>3, <2>4
  <1>11. CASE n # first - Len(wire)
    <2>1. queue' = queue /\ Len(wire') < first
      BY <1>3, <1>8, <1>a, <1>11
    <2>2. \A i \in 1..Len(queue) : queue[i].end >= first
      BY <1>2, <1>9 DEF first
    <2>3. \A i \in 1..Len(queue) : queue[i].end \in Len(wire') + 1 .. StreamLen'
      BY <1>2, <1>4, <1>8, <1>9, <2>1, <2>2, <1>5
    <2> QED BY <1>1, <1>2, <1>7, <1>8, <1>9, <2>1, <2>3 DEF Backlog
  <1> QED BY <1>10, <1>11

\* Every step of a pipe keeps the backlog in order.
LEMMA BacklogStep ==
  ASSUME StreamInv, BadFds = FALSE,
         \/ PipeCalls \/ PipeHooks \/ OnWrite \/ OnShutdown \/ OnClosePipe
         \/ PipeMoves \/ PipeBreaks
  PROVE  Backlog'
  <1> USE DEF StreamInv, streamVars
  <1>1. ASSUME UNCHANGED <<wire, backlog, accepted, queue, sock>>,
               handle' \in {"raw", "open"} => handle \in {"raw", "open"}
        PROVE  Backlog'
    BY <1>1 DEF Backlog, StreamLen
  <1>2. ASSUME NEW p, Close(p)
        PROVE  handle' \in {"raw", "open"} => handle \in {"raw", "open"}
    BY <1>2 DEF Close, UvShutdown, UvClose
  <1>3. CASE \E role \in Roles, fd \in Fds : ConstructPipe(role, fd)
    <2>1. handle = "raw"
      BY <1>3 DEF ConstructPipe, PipeInv
    <2> QED BY <1>1, <1>3, <2>1 DEF ConstructPipe
  <1>4. CASE ClosePipe \/ DeletePipe \/ ConsumePipe
    BY <1>1, <1>2, <1>4 DEF ClosePipe, DeletePipe, ConsumePipe
  <1>5. CASE \E w \in Writes, d \in Seq(Byte) : WriteOf(w, d)
    BY <1>5, WriteBacklog
  <1>6. CASE \E n \in 1..BufferSize : OnUvReadData(n)
    BY <1>1, <1>6 DEF OnUvReadData
  <1>7. CASE \E byPeer \in BOOLEAN : OnUvReadEnd(byPeer)
    BY <1>1, <1>2, <1>7 DEF OnUvReadEnd
  <1>8. CASE OnWriteError
    BY <1>1, <1>2, <1>8 DEF OnWriteError
  <1>9. CASE OnWrite \/ OnShutdown \/ OnClosePipe
    BY <1>1, <1>9 DEF OnWrite, OnShutdown, OnClosePipe
  <1>10. CASE PipeMoves /\ FlushHead
    BY <1>10, FlushBacklog DEF PipeMoves
  <1>11. CASE PipeMoves /\ FailHead
    <2>1. /\ queue # <<>> /\ queue' = Tail(queue) /\ sock' = "broken"
          /\ UNCHANGED <<wire, backlog, accepted>>
      BY <1>11 DEF PipeMoves, FailHead
    <2>2. queue[1].end \in Len(wire) + 1 .. StreamLen
          /\ Len(wire) \in Nat /\ StreamLen' = StreamLen
      BY <2>1, TailBacklog DEF Backlog, StreamLen, StreamTypes
    <2>3. /\ DOMAIN queue' = 1..Len(queue) - 1
          /\ \A i \in 1..Len(queue) - 1 : queue'[i].end \in queue[1].end + 1 .. StreamLen
          /\ \A i, j \in 1..Len(queue) - 1 : i < j => queue'[i].end < queue'[j].end
      BY <2>1, TailBacklog
    <2>4. \A i \in DOMAIN queue' : queue'[i].end \in Len(wire') + 1 .. StreamLen'
      BY <2>1, <2>2, <2>3
    <2> QED BY <2>1, <2>3, <2>4 DEF Backlog
  <1>12. CASE PipeMoves /\ CancelQueue
    <2>1. queue' = <<>> /\ handle' = "closing" /\ UNCHANGED <<wire, backlog, accepted>>
      BY <1>12 DEF PipeMoves, CancelQueue
    <2> QED BY <2>1 DEF Backlog
  <1>13. CASE PipeBreaks
    BY <1>13 DEF PipeBreaks, Break, Backlog, StreamLen
  <1> QED BY <1>3, <1>4, <1>5, <1>6, <1>7, <1>8, <1>9, <1>10, <1>11, <1>12, <1>13,
             PipeForm DEF PipeMoves

-----------------------------------------------------------------------------
\* Prefixes.

\* A sequence begins a longer one, and itself.
LEMMA PrefixOf ==
  ASSUME NEW s \in Seq(Byte), NEW t \in Seq(Byte)
  PROVE  s \in PipeChannel!Prefixes(s \o t) /\ s \in PipeChannel!Prefixes(s)
  <1>1. SubSeq(s, 1, Len(s)) = s /\ Len(s) \in Nat
    BY SubSeqFull
  <1>2. SubSeq(s \o t, 1, Len(s)) = s /\ Len(s) \in 0..Len(s \o t)
    <2>1. /\ s \o t \in Seq(Byte) /\ Len(s \o t) = Len(s) + Len(t)
          /\ Len(s) \in Nat /\ Len(t) \in Nat
          /\ \A i \in 1..Len(s) + Len(t) :
               (s \o t)[i] = IF i <= Len(s) THEN s[i] ELSE t[i - Len(s)]
      BY ConcatProperties
    <2> DEFINE st == s \o t
    <2>2. st \in Seq(Byte) /\ Len(s) \in 0..Len(st)
      BY <2>1
    <2>3. \A i \in 1..Len(s) : st[i] = s[i] /\ st[i] \in Byte
      BY <2>1
    <2> HIDE DEF st
    <2>4. /\ SubSeq(st, 1, Len(s)) \in Seq(Byte) /\ Len(SubSeq(st, 1, Len(s))) = Len(s)
          /\ \A i \in 1..Len(s) : SubSeq(st, 1, Len(s))[i] = st[i]
      <3>1. /\ SubSeq(st, 1, Len(s)) \in Seq(Byte)
            /\ Len(SubSeq(st, 1, Len(s))) = IF 1 <= Len(s) THEN Len(s) - 1 + 1 ELSE 0
            /\ \A i \in 1..Len(s) - 1 + 1 : SubSeq(st, 1, Len(s))[i] = st[1 + i - 1]
        <4>1. 1 \in Int /\ Len(s) \in Int /\ \A i \in 1..Len(s) : st[i] \in Byte
          BY <2>1, <2>3
        <4> QED BY <4>1, SubSeqProperties
      <3> QED BY <2>1, <3>1
    <2>5. SubSeq(st, 1, Len(s)) = s
      BY <2>3, <2>4, SeqEqual
    <2> QED BY <2>2, <2>5 DEF st
  <1>3. s \in PipeChannel!Prefixes(s)
    <2>1. Len(s) \in 0..Len(s) /\ s = SubSeq(s, 1, Len(s))
      BY <1>1
    <2>2. \E n \in 0..Len(s) : s = SubSeq(s, 1, n)
      BY <2>1, Zenon
    <2> QED BY <2>2, Zenon DEF PipeChannel!Prefixes
  <1>4. s \in PipeChannel!Prefixes(s \o t)
    <2>1. \E n \in 0..Len(s \o t) : s = SubSeq(s \o t, 1, n)
      BY <1>2, Zenon
    <2> QED BY <2>1, Zenon DEF PipeChannel!Prefixes
  <1> QED BY <1>3, <1>4

-----------------------------------------------------------------------------
\* The end of the stream is written down only where it happens.
LEMMA SealedStep ==
  ASSUME StreamInv, BadFds = FALSE,
         \/ PipeCalls \/ PipeHooks \/ OnWrite \/ OnShutdown \/ OnClosePipe
         \/ PipeMoves \/ PipeBreaks
  PROVE  Sealed'
  <1> USE DEF StreamInv, streamVars
  <1>1. ASSUME NEW p, p.closed = pipe.closed, Close(p), UNCHANGED fin
        PROVE  Sealed'
    <2>1. CASE p.closed
      BY <1>1, <2>1 DEF Close, Sealed
    <2>2. CASE ~p.closed
      <3>1. ~fin'
        BY <1>1, <2>2 DEF Sealed
      <3> QED BY <3>1 DEF Sealed
    <2> QED BY <2>1, <2>2
  <1>2. ASSUME UNCHANGED <<fin, shutting, handle>>, pipe'.closed = pipe.closed
        PROVE  Sealed'
    BY <1>2 DEF Sealed
  <1>3. CASE \E role \in Roles, fd \in Fds : ConstructPipe(role, fd)
    <2>1. ~fin /\ UNCHANGED fin
      BY <1>3 DEF ConstructPipe, PipeInv, Sealed
    <2> QED BY <2>1 DEF Sealed
  <1>4. CASE ClosePipe
    BY <1>1, <1>4 DEF ClosePipe
  <1>5. CASE DeletePipe
    <2> DEFINE p == [pipe EXCEPT !.mem = "deleted"]
    <2>1. p.closed = pipe.closed
      BY DEF PipeInv, PipeTypes, Pipes
    <2>2. Close(p) /\ UNCHANGED fin
      BY <1>5 DEF DeletePipe
    <2> HIDE DEF p
    <2> QED BY <1>1, <2>1, <2>2
  <1>6. CASE ConsumePipe
    <2>1. pipe'.closed = pipe.closed
      BY <1>6 DEF ConsumePipe, PipeInv, PipeTypes, Pipes
    <2> QED BY <1>2, <1>6, <2>1 DEF ConsumePipe
  <1>7. ASSUME NEW w \in Writes, NEW d \in Seq(Byte), WriteOf(w, d) PROVE Sealed'
    <2>1. CASE WriteError(w, d)
      BY <1>1, <2>1 DEF WriteError
    <2>2. CASE WriteRefused(w, d) \/ WriteAll(w, d) \/ \E r \in Partial(d) : WriteQueued(w, d, r)
      BY <1>2, <2>2 DEF WriteRefused, WriteAll, WriteQueued
    <2> QED BY <1>7, <2>1, <2>2 DEF WriteOf
  <1>8. ASSUME NEW n \in 1..BufferSize, OnUvReadData(n) PROVE Sealed'
    <2>1. pipe'.closed = pipe.closed
      BY <1>8 DEF OnUvReadData, PipeInv, PipeTypes, Pipes
    <2> QED BY <1>2, <1>8, <2>1 DEF OnUvReadData
  <1>9. ASSUME NEW byPeer \in BOOLEAN, OnUvReadEnd(byPeer) PROVE Sealed'
    <2>1. ~fin /\ UNCHANGED fin
      BY <1>9 DEF OnUvReadEnd, Sealed
    <2> QED BY <2>1 DEF Sealed
  <1>10. CASE OnWriteError
    <2>1. ~fin /\ UNCHANGED fin
      BY <1>10 DEF OnWriteError, PipeInv, Sealed
    <2> QED BY <2>1 DEF Sealed
  <1>11. CASE OnWrite
    BY <1>2, <1>11 DEF OnWrite
  <1>12. CASE OnShutdown
    BY <1>12 DEF OnShutdown, ShutdownEnds, PipeInv, Sealed
  <1>13. CASE OnClosePipe
    BY <1>13 DEF OnClosePipe, Sealed
  <1>14. CASE PipeMoves \/ PipeBreaks
    BY <1>2, <1>14 DEF PipeMoves, FlushHead, FailHead, CancelQueue, PipeBreaks, Break
  <1> QED BY <1>3, <1>4, <1>5, <1>6, <1>7, <1>8, <1>9, <1>10, <1>11, <1>12, <1>13,
             <1>14, PipeForm

-----------------------------------------------------------------------------
\* Steps of a pipe as steps of the channel.

\* A step that writes nothing and leaves the stream as it was.
LEMMA Stutter ==
  ASSUME UNCHANGED <<accepted, wire, fin>>, pipe'.closed = pipe.closed,
         handle' \in {"closing", "freed"} <=> handle \in {"closing", "freed"}
  PROVE  UNCHANGED PipeChannel!vars
  BY DEF PipeChannel!vars, pipeStatus

\* Close: the stream is closing or lost, and was open or stays as it is.
LEMMA CloseChannel ==
  ASSUME StreamInv, pipe.mem # "none", NEW p \in Pipes, p.closed = pipe.closed, Close(p),
         UNCHANGED <<accepted, wire, fin>>
  PROVE  [PipeChannel!Next]_PipeChannel!vars
  <1>1. CASE pipe.closed
    BY <1>1, Stutter DEF Close
  <1>2. CASE ~pipe.closed
    <2>1. /\ handle = "open" /\ shutting = "none" /\ ~fin /\ pipeStatus = "open"
      BY <1>2 DEF StreamInv, PipeInv, Sealed, pipeStatus
    <2>2. pipe'.closed
      BY <1>2 DEF Close, Pipes
    <2>3. pipeStatus' \in {"closing", "lost"}
      BY <2>1, <2>2 DEF pipeStatus
    <2> QED BY <2>1, <2>3 DEF PipeChannel!Next, PipeChannel!Close, PipeChannel!Lose
  <1> QED BY <1>1, <1>2

\* A Write is the channel's Accept when it is taken, else nothing.
LEMMA WriteChannel ==
  ASSUME StreamInv, StreamInv', NEW w \in Writes, NEW d \in Seq(Byte), WriteOf(w, d)
  PROVE  [PipeChannel!Next]_PipeChannel!vars
  <1>1. CASE WriteRefused(w, d)
    BY <1>1, Stutter DEF WriteRefused, streamVars
  <1>2. CASE WriteError(w, d)
    BY <1>2, CloseChannel DEF WriteError, MayWrite, StreamInv, PipeInv, PipeTypes
  <1>3. ASSUME NEW taken \in Seq(Byte), wire' = wire \o taken, accepted' = accepted \o d,
               pipe.mem = "live", ~pipe.closed, UNCHANGED <<fin, pipe, handle>>
        PROVE  PipeChannel!Accept
    <2>1. /\ wire \in Seq(Byte) /\ accepted \in Seq(Byte)
          /\ wire' \in Seq(Byte) /\ backlog' \in Seq(Byte) /\ accepted' \in Seq(Byte)
          /\ wire' \o backlog' = accepted'
      BY DEF StreamInv, StreamTypes, Backlog
    <2>2. wire' \in PipeChannel!Prefixes(accepted') /\ wire \in PipeChannel!Prefixes(wire')
          /\ accepted \in PipeChannel!Prefixes(accepted')
      BY <1>3, <2>1, PrefixOf
    <2>3. pipeStatus = "open" /\ pipeStatus' = pipeStatus
      BY <1>3 DEF StreamInv, PipeInv, Sealed, pipeStatus
    <2> QED BY <2>1, <2>2, <2>3 DEF PipeChannel!Accept, PipeChannel!Extends
  <1>4. CASE WriteAll(w, d)
    BY <1>3, <1>4 DEF WriteAll, MayWrite, PipeChannel!Next
  <1>5. ASSUME NEW r \in Partial(d), WriteQueued(w, d, r)
        PROVE  PipeChannel!Accept
    <2>1. Taken(d, r) \in Seq(Byte)
      BY PendingCompletes
    <2>2. /\ wire' = wire \o Taken(d, r) /\ accepted' = accepted \o d
          /\ pipe.mem = "live" /\ ~pipe.closed /\ UNCHANGED <<fin, pipe, handle>>
      BY <1>5 DEF WriteQueued, MayWrite, Taken, Written
    <2> QED BY <1>3, <2>1, <2>2
  <1> QED BY <1>1, <1>2, <1>4, <1>5 DEF WriteOf, PipeChannel!Next

\* uv__write is the channel's Deliver.
LEMMA FlushChannel ==
  ASSUME StreamInv, StreamInv', FlushHead, UNCHANGED <<accepted, pipe>>
  PROVE  PipeChannel!Deliver
  <1>1. /\ wire \in Seq(Byte) /\ backlog \in Seq(Byte)
        /\ wire' \in Seq(Byte) /\ backlog' \in Seq(Byte) /\ wire' \o backlog' = accepted
    BY DEF StreamInv, StreamTypes, Backlog
  <1>2. PICK n \in 1..(Head(queue).end - Len(wire)) : wire' = wire \o SubSeq(backlog, 1, n)
    BY DEF FlushHead
  <1>3. SubSeq(backlog, 1, n) \in Seq(Byte)
    <2>1. n \in 0..Len(backlog)
      BY HeadFits DEF StreamInv, FlushHead
    <2> QED BY <1>1, <2>1, SplitParts
  <1>4. wire' \in PipeChannel!Prefixes(accepted) /\ wire \in PipeChannel!Prefixes(wire')
    BY <1>1, <1>2, <1>3, PrefixOf
  <1>5. /\ handle = "open" /\ UNCHANGED <<handle, fin>> /\ ~fin
    BY DEF FlushHead, StreamInv, Sealed
  <1>6. pipeStatus \in {"open", "closing"} /\ pipeStatus' = pipeStatus
    BY <1>5 DEF pipeStatus
  <1> QED BY <1>4, <1>6 DEF PipeChannel!Deliver, PipeChannel!Extends

\* onShutdown is the channel's Seal when the socket is sound: nothing is queued,
\* so everything accepted has left.  On a broken one the channel is lost.
LEMMA ShutdownChannel ==
  ASSUME StreamInv, OnShutdown
  PROVE  [PipeChannel!Next]_PipeChannel!vars
  <1>1. /\ handle = "open" /\ shutting = "requested" /\ queue = <<>> /\ handle' = "closing"
        /\ UNCHANGED <<wire, accepted, pipe>>
        /\ fin' = (sock = "ok") /\ pipe.closed /\ ~fin
    BY DEF OnShutdown, ShutdownEnds, StreamInv, PipeInv, Sealed
  <1>2. pipeStatus = "closing"
    BY <1>1 DEF pipeStatus
  <1>3. CASE sock = "ok"
    <2>1. backlog = <<>> /\ wire = accepted
      BY <1>1, <1>3, ConcatEmptySeq DEF StreamInv, StreamTypes, Backlog
    <2>2. pipeStatus' = "sealed"
      BY <1>1, <1>3 DEF pipeStatus
    <2> QED BY <1>1, <1>2, <2>1, <2>2 DEF PipeChannel!Next, PipeChannel!Seal
  <1>4. CASE sock # "ok"
    <2>1. pipeStatus' = "lost"
      BY <1>1, <1>4 DEF pipeStatus
    <2> QED BY <1>1, <1>2, <2>1 DEF PipeChannel!Next, PipeChannel!Lose
  <1> QED BY <1>3, <1>4

\* Every step of a pipe is a step of the channel or a stutter.
LEMMA ChannelStep ==
  ASSUME StreamInv, StreamInv', BadFds = FALSE,
         \/ PipeCalls \/ PipeHooks \/ OnWrite \/ OnShutdown \/ OnClosePipe
         \/ PipeMoves \/ PipeBreaks
  PROVE  [PipeChannel!Next]_PipeChannel!vars
  <1> USE DEF streamVars
  <1>0. PipeInv /\ pipe \in Pipes
    BY DEF StreamInv, PipeInv, PipeTypes
  <1>1. ASSUME NEW role \in Roles, NEW fd \in Fds, ConstructPipe(role, fd)
        PROVE  [PipeChannel!Next]_PipeChannel!vars
    <2>1. fd = "duplex" /\ handle = "raw" /\ handle' = "open" /\ UNCHANGED <<accepted, wire, fin>>
      BY <1>0, <1>1 DEF ConstructPipe, PipeInv
    <2>2. pipe'.closed = pipe.closed
      BY <1>0, <1>1 DEF ConstructPipe, Pipes
    <2> QED BY <2>1, <2>2, Stutter
  <1>2. CASE ClosePipe
    BY <1>0, <1>2, CloseChannel DEF ClosePipe
  <1>3. CASE DeletePipe
    <2> DEFINE p == [pipe EXCEPT !.mem = "deleted"]
    <2>1. p \in Pipes /\ p.closed = pipe.closed
      BY <1>0 DEF Pipes
    <2>2. Close(p) /\ pipe.mem # "none" /\ UNCHANGED <<accepted, wire, fin>>
      BY <1>3 DEF DeletePipe
    <2> HIDE DEF p
    <2> QED BY <2>1, <2>2, CloseChannel
  <1>4. CASE ConsumePipe
    <2>1. pipe'.closed = pipe.closed
      BY <1>0, <1>4 DEF ConsumePipe, Pipes
    <2> QED BY <1>4, <2>1, Stutter DEF ConsumePipe
  <1>5. CASE \E w \in Writes, d \in Seq(Byte) : WriteOf(w, d)
    BY <1>5, WriteChannel
  <1>6. ASSUME NEW n \in 1..BufferSize, OnUvReadData(n)
        PROVE  [PipeChannel!Next]_PipeChannel!vars
    <2>1. pipe'.closed = pipe.closed
      BY <1>0, <1>6 DEF OnUvReadData, Pipes
    <2> QED BY <1>6, <2>1, Stutter DEF OnUvReadData
  <1>7. ASSUME NEW byPeer \in BOOLEAN, OnUvReadEnd(byPeer)
        PROVE  [PipeChannel!Next]_PipeChannel!vars
    <2> DEFINE p == IF byPeer THEN [pipe EXCEPT !.isClosedByPeer = TRUE]
                    ELSE [pipe EXCEPT !.hasError = TRUE]
    <2>1. p \in Pipes /\ p.closed = pipe.closed
      BY <1>0 DEF Pipes
    <2>2. Close(p) /\ pipe.mem # "none" /\ UNCHANGED <<accepted, wire, fin>>
      BY <1>0, <1>7 DEF OnUvReadEnd, PipeInv
    <2> HIDE DEF p
    <2> QED BY <2>1, <2>2, CloseChannel
  <1>8. CASE OnWriteError
    <2> DEFINE e == pipe.hasError \/ Head(completed).status \notin {"EPIPE", "ENOTCONN"}
               p == [pipe EXCEPT !.hasError = e]
    <2>1. p \in Pipes /\ p.closed = pipe.closed
      <3>1. e \in BOOLEAN
        OBVIOUS
      <3> HIDE DEF e
      <3> QED BY <1>0, <3>1 DEF Pipes
    <2>2. Close(p) /\ pipe.mem # "none" /\ UNCHANGED <<accepted, wire, fin>>
      BY <1>0, <1>8 DEF OnWriteError, PipeInv
    <2> HIDE DEF p
    <2> QED BY <2>1, <2>2, CloseChannel
  <1>9. CASE OnWrite
    BY <1>9, Stutter DEF OnWrite
  <1>10. CASE OnClosePipe
    BY <1>10, Stutter DEF OnClosePipe, CloseEnds
  <1>11. CASE OnShutdown
    BY <1>11, ShutdownChannel
  <1>12. CASE PipeMoves /\ FlushHead
    BY <1>12, FlushChannel DEF PipeMoves, PipeChannel!Next
  <1>13. CASE (PipeMoves /\ (FailHead \/ CancelQueue)) \/ PipeBreaks
    BY <1>13, Stutter DEF PipeMoves, FailHead, CancelQueue, PipeBreaks, Break
  <1> QED BY <1>1, <1>2, <1>3, <1>4, <1>5, <1>6, <1>7, <1>8, <1>9, <1>10, <1>11, <1>12,
             <1>13, PipeForm DEF PipeMoves

-----------------------------------------------------------------------------
\* The program with its stream.

RInv == IInv /\ uses \in Programs /\ StreamInv

\* A step of the program is one of its pipe's or leaves the pipe alone.
LEMMA PipeOrNot ==
  ASSUME [Next]_vars
  PROVE  /\ UNCHANGED uses
         /\ \/ UNCHANGED pipeVars
            \/ PipeCalls \/ PipeHooks \/ OnWrite \/ OnShutdown \/ OnClosePipe
            \/ PipeMoves \/ PipeBreaks
  BY DEF Next, vars, Inits, AppCalls, Hooks, HookEnds, TimerFreed, SignalFreed,
         PipeWritten, PipeShutDown, PipeFreed, PipeSent, PeerBreaks, Runs, Returns,
         Destroys, OfTimer, OfSignals, OfPipe, OfLoop

\* The stream keeps its invariant.
LEMMA StreamStep == BadFds = FALSE /\ RInv /\ [Next]_vars => RInv'
  <1> SUFFICES ASSUME BadFds = FALSE, RInv, [Next]_vars PROVE RInv'
    OBVIOUS
  <1>1. IInv' /\ StreamInv
    BY NextInv DEF RInv
  <1>2. uses' \in Programs
    BY PipeOrNot DEF RInv
  <1>3. PipeInv'
    BY <1>1 DEF IInv
  <1>4. CASE UNCHANGED pipeVars
    <2>1. UNCHANGED <<handle, shutting, queue, completed, backlog, sock, wire, fin, pipe,
                      issued, received, accepted>>
      BY <1>4 DEF pipeVars, streamVars
    <2>2. StreamTypes'
      BY <1>1, <2>1 DEF StreamInv, StreamTypes
    <2>3. Backlog'
      BY <1>1, <2>1 DEF StreamInv, Backlog, StreamLen
    <2>4. Sealed'
      BY <1>1, <2>1 DEF StreamInv, Sealed
    <2> QED BY <1>1, <1>2, <1>3, <2>2, <2>3, <2>4 DEF RInv, StreamInv
  <1>5. CASE \/ PipeCalls \/ PipeHooks \/ OnWrite \/ OnShutdown \/ OnClosePipe
             \/ PipeMoves \/ PipeBreaks
    <2>1. StreamTypes' /\ Backlog' /\ Sealed'
      BY <1>1, <1>5, TypesStep, BacklogStep, SealedStep
    <2> QED BY <1>1, <1>2, <1>3, <2>1 DEF RInv, StreamInv
  <1> QED BY <1>4, <1>5, PipeOrNot

\* A program starts with an empty stream.
LEMMA StreamInit == Init => RInv /\ PipeChannel!Init
  <1> SUFFICES ASSUME Init PROVE RInv /\ PipeChannel!Init
    OBVIOUS
  <1>1. IInv
    BY InitInv
  <1>2. PipeInit /\ uses \in Programs
    BY DEF Init
  <1>3. StreamTypes
    <2>1. \A S : <<>> \in Seq(S)
      OBVIOUS
    <2>2. /\ queue \in Seq([w : Writes, end : Nat])
          /\ completed \in Seq([w : Writes, status : Statuses])
          /\ backlog \in Seq(Byte) /\ wire \in Seq(Byte) /\ accepted \in Seq(Byte)
      BY <1>2, <2>1 DEF PipeInit
    <2>3. fin \in BOOLEAN /\ sock \in {"ok", "broken"} /\ issued \subseteq Writes
          /\ received \in 0..MaxRecv
      <3>1. fin = FALSE /\ sock = "ok" /\ issued = {} /\ received = 0
        BY <1>2 DEF PipeInit
      <3>2. 0 \in 0..MaxRecv
        BY PipeAssumption
      <3> QED BY <3>1, <3>2
    <2> QED BY <2>2, <2>3 DEF StreamTypes
  <1>4. wire \o backlog = accepted
    BY <1>2, ConcatEmptySeq DEF PipeInit
  <1>5. Backlog
    BY <1>2, <1>4 DEF PipeInit, Backlog
  <1>6. Sealed /\ PipeChannel!Init
    BY <1>2 DEF PipeInit, Sealed, PipeChannel!Init, pipeStatus
  <1> QED BY <1>1, <1>2, <1>3, <1>5, <1>6 DEF RInv, StreamInv, IInv

\* The invariant with the bytes in it.
THEOREM StreamInvariant == BadFds = FALSE /\ Spec => []RInv
  <1>1. SUFFICES ASSUME BadFds = FALSE PROVE Spec => []RInv
    OBVIOUS
  <1>2. RInv /\ [Next]_vars => RInv'
    BY <1>1, StreamStep
  <1>3. Init => RInv
    BY StreamInit
  <1> QED BY <1>2, <1>3, PTL DEF Spec

\* The types, of the loop, of the objects of the three kinds, and of the stream.
THEOREM TypeCorrect == BadFds = FALSE /\ Spec => []TypeOK
  <1>1. RInv => TypeOK
    BY DEF RInv, IInv, LoopInv, TimerInv, SignalsInv, PipeInv, PipeTypes, Pipes,
           StreamInv, StreamTypes, TypeOK, PipeTypeOK
  <1> QED BY <1>1, StreamInvariant, PTL

\* A pipe implements the byte channel: whatever is written from inside and outside
\* the hooks, bytes leave in the order they were accepted in, and the stream ends in
\* order only after the last of them.
THEOREM PipesImplementChannel == BadFds = FALSE /\ Spec => PipeSpec
  <1>1. SUFFICES ASSUME BadFds = FALSE PROVE Spec => PipeSpec
    OBVIOUS
  <1>2. RInv /\ RInv' /\ [Next]_vars => [PipeChannel!Next]_PipeChannel!vars
    <2> SUFFICES ASSUME RInv, RInv', [Next]_vars
                 PROVE  [PipeChannel!Next]_PipeChannel!vars
      OBVIOUS
    <2>1. CASE UNCHANGED pipeVars
      BY <2>1, Stutter DEF pipeVars, streamVars
    <2> QED BY <1>1, <2>1, PipeOrNot, ChannelStep DEF RInv
  <1>3. Init => PipeChannel!Init
    BY StreamInit
  <1>4. Spec => []RInv
    BY <1>1, StreamInvariant
  <1>5. Spec => PipeChannel!Spec
    BY <1>2, <1>3, <1>4, PTL DEF Spec, PipeChannel!Spec
  <1> QED BY <1>5 DEF PipeSpec
=============================================================================
