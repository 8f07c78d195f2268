---------------------------- MODULE PortManager -----------------------------
(***************************************************************************)
(* PortManager::Bind: the search for a port that can be bound, and the     *)
(* libuv handles it makes on the way.  Other processes take and give back  *)
(* ports between two attempts.  The UDP and the TCP flavour differ in the  *)
(* libuv calls that bind (for TCP, a uv_listen that checks the bind) and   *)
(* not in what follows from their result, so they are one here.            *)
(***************************************************************************)
EXTENDS Naturals, FiniteSets

CONSTANTS
  RangeStart, RangeEnd,  \* PORT_RANGE_START and PORT_RANGE_END, 52000 and 59999
  MaxAttempts,           \* BIND_ADDTEMPTS, 100
  Handles,               \* addresses of uv handles
  BusyPorts              \* TRUE: Bind is also called for a given port in use

ASSUME RangeAssumption ==
  /\ RangeStart \in Nat /\ RangeEnd \in Nat
  /\ 0 < RangeStart /\ RangeStart <= RangeEnd
  /\ MaxAttempts \in 1..(RangeEnd - RangeStart + 1)
ASSUME BusyAssumption == BusyPorts \in BOOLEAN

Ports == RangeStart..RangeEnd

VARIABLES
  handle,    \* per address: "none", "open", "bound", "closing"
  port,      \* per address: the port the handle was made for
  others,    \* the ports other processes hold
  searching, \* Bind(transport, ip) is running
  portIdx, attempt,
  tried,     \* history: the ports that call has tried
  given,     \* handles returned by Bind and not closed by their owner yet
  outcome    \* how the last call ended

callVars == <<searching, portIdx, attempt, tried, outcome>>
vars == <<handle, port, others, callVars, given>>

-----------------------------------------------------------------------------
\* Helpers.

InUse(p) == p \in others \/ \E h \in Handles : handle[h] = "bound" /\ port[h] = p

\* What binding port p may report.
Errors(p) ==
  IF InUse(p) THEN {"EADDRINUSE", "EMFILE"} ELSE {"ok", "EMFILE", "EADDRNOTAVAIL"}

\* The errors after which Bind throws at once.
Throwing == {"EMFILE", "EADDRNOTAVAIL"}

\* Mistake: the index does not move.
NextPortSame(i) == i

\* Mistake: the index restarts from zero instead of the start of the range.
NextPortFromZero(i) == (i + 1) % (RangeEnd + 1)

\* The port after i, back to the first after the last.
NextPort(i) ==
  LET next == (i + 1) % (RangeEnd + 1)
  IN  IF next < RangeStart THEN next + RangeStart ELSE next

\* Mistake: a handle that could not be bound is left open.
NewHandleLeft(h, p, err) ==
  /\ handle[h] = "none"
  /\ handle' = [handle EXCEPT ![h] = IF err = "ok" THEN "bound" ELSE "open"]
  /\ port' = [port EXCEPT ![h] = p]

\* A new handle is bound to p, or closed again.
NewHandle(h, p, err) ==
  /\ handle[h] = "none"
  /\ handle' = [handle EXCEPT ![h] = IF err = "ok" THEN "bound" ELSE "closing"]
  /\ port' = [port EXCEPT ![h] = p]

-----------------------------------------------------------------------------
Init ==
  /\ handle = [h \in Handles |-> "none"]
  /\ port = [h \in Handles |-> RangeStart]
  /\ others \in SUBSET Ports
  /\ searching = FALSE /\ portIdx = RangeStart /\ attempt = 0 /\ tried = {}
  /\ given = {} /\ outcome = "none"

\* Bind(transport, ip) starts from a random port of the range.  (A bound: memory
\* for the handles of one search is never short.)
BeginSearch(random) ==
  /\ ~searching
  /\ Cardinality({h \in Handles : handle[h] = "none"}) >= MaxAttempts
  /\ searching' = TRUE /\ portIdx' = random /\ attempt' = 0 /\ tried' = {}
  /\ outcome' = "none"
  /\ UNCHANGED <<handle, port, others, given>>

\* Mistake: a failing attempt is not counted.
TryPortUncounted(h, err) ==
  /\ searching /\ attempt < MaxAttempts
  /\ portIdx' = NextPort(portIdx)
  /\ attempt' = IF err = "ok" THEN attempt + 1 ELSE attempt
  /\ tried' = tried \cup {portIdx'}
  /\ err \in Errors(portIdx')
  /\ NewHandle(h, portIdx', err)
  /\ searching' = (err \notin {"ok"} \cup Throwing)
  /\ outcome' = IF err = "EADDRINUSE" THEN outcome ELSE err
  /\ given' = IF err = "ok" THEN given \cup {h} ELSE given
  /\ UNCHANGED others

\* One turn of the loop: the next port is tried with a handle of its own.
TryPort(h, err) ==
  /\ searching /\ attempt < MaxAttempts
  /\ attempt' = attempt + 1
  /\ portIdx' = NextPort(portIdx)
  /\ tried' = tried \cup {portIdx'}
  /\ err \in Errors(portIdx')
  /\ NewHandle(h, portIdx', err)
  /\ searching' = (err \notin {"ok"} \cup Throwing)
  /\ outcome' = IF err = "EADDRINUSE" THEN outcome ELSE err
  /\ given' = IF err = "ok" THEN given \cup {h} ELSE given
  /\ UNCHANGED others

\* The turn after the last attempt throws.
GiveUp ==
  /\ searching /\ attempt = MaxAttempts
  /\ attempt' = attempt + 1 /\ searching' = FALSE /\ outcome' = "no more ports"
  /\ UNCHANGED <<handle, port, others, portIdx, tried, given>>

\* Bind(transport, ip, port): any error but the two that throw falls through to
\* the return of the handle that was just closed.
BindPort(h, p, err) ==
  /\ ~searching
  /\ InUse(p) => BusyPorts
  /\ err \in Errors(p)
  /\ NewHandle(h, p, err)
  /\ outcome' = err
  /\ given' = IF err \in Throwing THEN given ELSE given \cup {h}
  /\ UNCHANGED <<others, searching, portIdx, attempt, tried>>

\* The server or socket a handle was given to closes it (libuv aborts if the
\* handle is closing already: see GivenBound).
OwnerCloses(h) ==
  /\ ~searching /\ h \in given
  /\ handle' = [handle EXCEPT ![h] = "closing"]
  /\ given' = given \ {h}
  /\ UNCHANGED <<port, others, callVars>>

\* onClose, when the loop runs: the handle is deleted.
OnClose(h) ==
  /\ ~searching /\ handle[h] = "closing"
  /\ handle' = [handle EXCEPT ![h] = "none"]
  /\ port' = [port EXCEPT ![h] = RangeStart]
  /\ UNCHANGED <<others, callVars, given>>

\* Another process takes a port or gives one back, at any time.
OthersTake(p) ==
  /\ ~InUse(p)
  /\ others' = others \cup {p}
  /\ UNCHANGED <<handle, port, callVars, given>>

OthersFree(p) ==
  /\ p \in others
  /\ others' = others \ {p}
  /\ UNCHANGED <<handle, port, callVars, given>>

Turn ==
  GiveUp \/ \E h \in Handles, err \in {"ok", "EADDRINUSE"} \cup Throwing : TryPort(h, err)

Next ==
  \/ \E p \in Ports : BeginSearch(p) \/ OthersTake(p) \/ OthersFree(p)
  \/ Turn
  \/ \E h \in Handles, p \in Ports, err \in {"ok", "EADDRINUSE"} \cup Throwing :
       BindPort(h, p, err)
  \/ \E h \in Handles : OwnerCloses(h) \/ OnClose(h)

Spec == Init /\ [][Next]_vars

\* Bind waits for nothing: its loop goes on until it returns or throws.
Fairness == WF_vars(Turn)

FairSpec == Spec /\ Fairness

-----------------------------------------------------------------------------
\* Properties.

TypeOK ==
  /\ handle \in [Handles -> {"none", "open", "bound", "closing"}]
  /\ port \in [Handles -> Ports]
  /\ others \subseteq Ports /\ tried \subseteq Ports /\ given \subseteq Handles
  /\ searching \in BOOLEAN
  /\ portIdx \in Ports /\ attempt \in 0..(MaxAttempts + 1)
  /\ outcome \in {"none", "ok", "EADDRINUSE", "no more ports"} \cup Throwing

\* Every attempt of a search takes a port of its own (the index wraps around the
\* range and meets every port of it once before it meets one again), and it leaves
\* no handle behind: one that is neither closing nor gone belongs to an owner.
AttemptsApart ==
  /\ searching => Cardinality(tried) = attempt
  /\ \A h \in Handles : handle[h] \in {"open", "bound"} => h \in given

\* Every search ends, whatever other processes do meanwhile, with a bound handle
\* or an exception.
SearchEnds == searching ~> ~searching

\* "If here, we got an available port." (PortManager.cpp:504): the handle Bind
\* returns is bound, so that its owner may listen on it and close it.
GivenBound == \A h \in given : handle[h] = "bound"
=============================================================================
