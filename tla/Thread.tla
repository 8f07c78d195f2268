------------------------------- MODULE Thread -------------------------------
(***************************************************************************)
(* Thread objects, the mutex inside each of them, and the thread that owns *)
(* them: it constructs a Thread around a Runnable, asks it to exit and     *)
(* joins it.  The running side is the Runnable's run(), which the caller   *)
(* writes; here it shows as the place at which each thread is, and the     *)
(* only step of it in this module is IsQuit, which run() may poll.         *)
(*                                                                         *)
(* Taking a mutex is a step of its own: before it the caller waits, and    *)
(* between it and the release anybody else may run.  Nothing is reentrant  *)
(* (Mutex mutex {false}).                                                  *)
(***************************************************************************)
EXTENDS Integers

CONSTANTS
  Threads,   \* the Thread objects of one behaviour
  Polling,   \* those whose run() polls IsQuit and ends when it says so
  WaitPolling,  \* TRUE: RequestExitAndWait may be called for one of those too
  Owner,     \* the thread that constructs and joins them
  Guard,     \* a mutex of the caller, outside any Thread object
  Nobody     \* holder of a mutex that is free

ASSUME PollingAssumption == Polling \subseteq Threads /\ WaitPolling \in BOOLEAN
ASSUME ActorAssumption ==
  Owner \notin Threads /\ Guard \notin Threads /\ Nobody \notin Threads \cup {Owner}

Actors  == Threads \cup {Owner}
Mutexes == Threads \cup {Guard}    \* the one inside each object, and the caller's

VARIABLES
  holder,        \* who has each mutex
  exitPending,   \* per object: the flag
  at,            \* where run() is: "none" (no thread yet), "loop", "isQuit", "work",
                 \* places of the caller's own, "ended"
  owner,         \* the owner's call under way: [call, t], "none" between calls
  joined         \* the threads that were joined

threadVars == <<holder, exitPending, at, owner, joined>>

Calls == {"none", "RequestExit", "RequestExitAndWait", "waiting", "joining"}

-----------------------------------------------------------------------------
\* Mutex.

\* Mistake: a mutex that is taken is taken again.
LockAlways(m, who) == holder' = [holder EXCEPT ![m] = who]

\* lock() returns: the mutex was free.
Lock(m, who) == holder[m] = Nobody /\ holder' = [holder EXCEPT ![m] = who]

unlock(m) == holder' = [holder EXCEPT ![m] = Nobody]

-----------------------------------------------------------------------------
ThreadInit ==
  /\ holder = [m \in Mutexes |-> Nobody]
  /\ exitPending = [t \in Threads |-> FALSE]
  /\ at = [t \in Threads |-> "none"]
  /\ owner = [call |-> "none", t |-> Owner]
  /\ joined = {}

\* run() goes to another place.
Goto(t, place) == at' = [at EXCEPT ![t] = place]

Free == owner.call = "none"

\* The owner constructs all its threads before it ends one.
Started == \A t \in Threads : at[t] # "none"

\* RequestExitAndWait keeps the mutex that IsQuit needs, so that it never returns for
\* a thread that polls.
MayWait(t) == WaitPolling \/ t \notin Polling

\* The constructor: the thread runs from here on (ThreadRun calls run()).
Construct(t) ==
  /\ Free /\ at[t] = "none"
  /\ Goto(t, IF t \in Polling THEN "loop" ELSE "work")
  /\ UNCHANGED <<holder, exitPending, owner, joined>>

\* The owner calls RequestExit or RequestExitAndWait, and waits for the mutex.
CallRequestExit(t) ==
  /\ Free /\ Started /\ t \notin joined
  /\ \/ owner' = [call |-> "RequestExit", t |-> t]
     \/ MayWait(t) /\ owner' = [call |-> "RequestExitAndWait", t |-> t]
  /\ UNCHANGED <<holder, exitPending, at, joined>>

\* Mistake: RequestExit waits for the thread as RequestExitAndWait does.
RequestExitWaits ==
  LET t == owner.t
  IN  /\ owner.call = "RequestExit" /\ Lock(t, Owner)
      /\ exitPending' = [exitPending EXCEPT ![t] = TRUE]
      /\ owner' = [owner EXCEPT !.call = "waiting"]
      /\ UNCHANGED <<at, joined>>

\* The mutex is taken, the flag set, and the mutex given back when the call returns
\* (AutoMutex).
RequestExit ==
  LET t == owner.t
  IN  /\ owner.call = "RequestExit" /\ holder[t] = Nobody
      /\ exitPending' = [exitPending EXCEPT ![t] = TRUE]
      /\ owner' = [owner EXCEPT !.call = "none"]
      /\ UNCHANGED <<holder, at, joined>>

\* The mutex is taken, the flag set, and Join called with the mutex held.
RequestExitAndWait ==
  LET t == owner.t
  IN  /\ owner.call = "RequestExitAndWait" /\ Lock(t, Owner)
      /\ exitPending' = [exitPending EXCEPT ![t] = TRUE]
      /\ owner' = [owner EXCEPT !.call = "waiting"]
      /\ UNCHANGED <<at, joined>>

\* The Join inside RequestExitAndWait returns, and with it the call.
RequestExitAndWaitReturns ==
  /\ owner.call = "waiting" /\ at[owner.t] = "ended"
  /\ joined' = joined \cup {owner.t}
  /\ unlock(owner.t)
  /\ owner' = [owner EXCEPT !.call = "none"]
  /\ UNCHANGED <<exitPending, at>>

\* The owner calls Join.  A polling thread is asked to exit first: it would run
\* for ever otherwise.
CallJoin(t) ==
  /\ Free /\ Started /\ t \notin joined
  /\ t \in Polling => exitPending[t]
  /\ owner' = [call |-> "joining", t |-> t]
  /\ UNCHANGED <<holder, exitPending, at, joined>>

\* Mistake: Join does not wait for the thread.
JoinAtOnce ==
  /\ owner.call = "joining"
  /\ joined' = joined \cup {owner.t}
  /\ owner' = [owner EXCEPT !.call = "none"]
  /\ UNCHANGED <<holder, exitPending, at>>

\* uv_thread_join returns once run() has.
JoinReturns ==
  /\ owner.call = "joining" /\ at[owner.t] = "ended"
  /\ joined' = joined \cup {owner.t}
  /\ owner' = [owner EXCEPT !.call = "none"]
  /\ UNCHANGED <<holder, exitPending, at>>

\* run() calls IsQuit: it waits for the mutex,
IsQuitLocks(t) ==
  /\ at[t] = "loop" /\ Lock(t, t)
  /\ Goto(t, "isQuit")
  /\ UNCHANGED <<exitPending, owner, joined>>

\* Mistake: the mutex is not given back when the answer is yes.
IsQuitKeepsLock(t) ==
  /\ at[t] = "isQuit"
  /\ IF exitPending[t] THEN Goto(t, "ended") /\ UNCHANGED holder
     ELSE Goto(t, "work") /\ unlock(t)
  /\ UNCHANGED <<exitPending, owner, joined>>

\* reads the flag and gives the mutex back; run() ends if the flag is set.
IsQuit(t) ==
  /\ at[t] = "isQuit"
  /\ unlock(t)
  /\ Goto(t, IF exitPending[t] THEN "ended" ELSE "work")
  /\ UNCHANGED <<exitPending, owner, joined>>

OwnerNext ==
  \/ \E t \in Threads : Construct(t) \/ CallRequestExit(t) \/ CallJoin(t)
  \/ RequestExit \/ RequestExitAndWait \/ RequestExitAndWaitReturns \/ JoinReturns
=============================================================================
