--------------------------- MODULE SignalsHandler ---------------------------
(***************************************************************************)
(* A SignalsHandler, its vector of libuv signal handles and the listener   *)
(* that OnSignal calls.  Like OnTimer it is the last thing done, and the   *)
(* listener may close or delete the handler in it.                         *)
(***************************************************************************)
CONSTANT Sigs     \* the uv_signal_t objects of one behaviour

VARIABLES
  signals,    \* the object: [mem, closed]
  uvHandles,  \* its vector
  uvSignal    \* per handle: "none", "unstarted" (initialised only), "started",
              \* "closing", "freed", "aborted" (called or closed when it must not be)

signalVars == <<signals, uvHandles, uvSignal>>

SignalsInit ==
  /\ signals = [mem |-> "none", closed |-> FALSE]
  /\ uvHandles = {}
  /\ uvSignal = [h \in Sigs |-> "none"]

ConstructSignals ==
  /\ signals.mem = "none"
  /\ signals' = [signals EXCEPT !.mem = "live"]
  /\ UNCHANGED <<uvHandles, uvSignal>>

\* uv_close on every handle of the vector.
CloseHandles ==
  uvSignal' = [h \in Sigs |->
    IF h \notin uvHandles THEN uvSignal[h]
    ELSE IF uvSignal[h] = "started" THEN "closing" ELSE "aborted"]

CloseSignals ==
  /\ signals.mem = "live"
  /\ signals' = [signals EXCEPT !.closed = TRUE]
  /\ IF signals.closed THEN UNCHANGED uvSignal ELSE CloseHandles
  /\ UNCHANGED uvHandles

\* delete: the destructor closes if need be.
DeleteSignals ==
  /\ signals.mem = "live"
  /\ signals' = [mem |-> "deleted", closed |-> TRUE]
  /\ IF signals.closed THEN UNCHANGED uvSignal ELSE CloseHandles
  /\ UNCHANGED uvHandles

\* Mistake: the handle is not entered into the vector.
AddSignalForgets(h) ==
  /\ signals.mem = "live" /\ ~signals.closed /\ uvSignal[h] = "none"
  /\ uvSignal' = [uvSignal EXCEPT ![h] = "started"]
  /\ UNCHANGED <<uvHandles, signals>>

\* AddSignal on an open handler (on a closed one it throws): a new handle is
\* initialised, started and entered into the vector.
AddSignal(h) ==
  /\ signals.mem = "live" /\ ~signals.closed /\ uvSignal[h] = "none"
  /\ uvSignal' = [uvSignal EXCEPT ![h] = "started"]
  /\ uvHandles' = uvHandles \cup {h}
  /\ UNCHANGED signals

\* uv_signal_start fails (not a signal number, or one that cannot be caught): the
\* call throws, and the initialised handle is in no vector.
AddSignalThrows(h) ==
  /\ signals.mem = "live" /\ ~signals.closed /\ uvSignal[h] = "none"
  /\ uvSignal' = [uvSignal EXCEPT ![h] = "unstarted"]
  /\ UNCHANGED <<signals, uvHandles>>

SignalCalls ==
  \/ ConstructSignals \/ CloseSignals \/ DeleteSignals
  \/ \E h \in Sigs : AddSignal(h) \/ AddSignalThrows(h)

\* A signal arrives: OnUvSignal calls OnSignal.
OnUvSignal(h) ==
  /\ uvSignal[h] = "started"
  /\ uvSignal' = IF signals.mem = "live" THEN uvSignal
                 ELSE [uvSignal EXCEPT ![h] = "aborted"]
  /\ UNCHANGED <<signals, uvHandles>>

\* onClose deletes the handle.
OnCloseSignal(h) ==
  /\ uvSignal[h] = "closing"
  /\ uvSignal' = [uvSignal EXCEPT ![h] = "freed"]
  /\ UNCHANGED <<signals, uvHandles>>

-----------------------------------------------------------------------------
SignalsTypeOK ==
  /\ signals \in [mem : {"none", "live", "deleted"}, closed : BOOLEAN]
  /\ uvHandles \subseteq Sigs
  /\ uvSignal \in [Sigs -> {"none", "unstarted", "started", "closing", "freed", "aborted"}]
=============================================================================
