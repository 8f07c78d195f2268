----------------------------- MODULE ListTasks ------------------------------
(***************************************************************************)
(* Threads that share lists, the way lstLib asks for it: "If multiple      *)
(* tasks will access a single linked list, that list must be guarded with  *)
(* some mutual-exclusion mechanism" (lstLib.c:17-19), here a Mutex that    *)
(* each task takes for one round of its work: it looks a node up, then     *)
(* calls a routine with it.  The tasks are Runnables of module Thread, the *)
(* lists are those of module LstLib, and the owner frees the lists once it *)
(* has joined every task.  Nothing in the repository uses the lists: the   *)
(* tasks do what that advice asks of any that would.                       *)
(***************************************************************************)
EXTENDS Thread, LstLib, TLC

VARIABLE
  found     \* per thread: what its lookup returned, [l, n], until it uses it

vars == <<threadVars, lstVars, found>>

\* The nodes of list l, what a task that has looked nothing up knows, and whether
\* n is in no list and still allocated.
InList(l) == {Contents(l)[i] : i \in 1..list[l].count}

NotFound == [l |-> NULL, n |-> NULL]

Loose(n) == n \notin freed /\ \A l \in ListId : n \notin InList(l)

\* One of those, no matter which.
NewNode == CHOOSE n \in Node : Loose(n)

-----------------------------------------------------------------------------
Init ==
  /\ ThreadInit
  /\ LstInit
  /\ found = [t \in Threads |-> NotFound]

\* The task waits for the mutex of the lists,
TaskLocks(t) ==
  /\ at[t] = "work" /\ Lock(Guard, t)
  /\ Goto(t, "guarded")
  /\ UNCHANGED <<exitPending, owner, joined, lstVars, found>>

\* looks a node up,
TaskLooksUp(t, l, k) ==
  /\ at[t] = "guarded"
  /\ found' = [found EXCEPT ![t] = [l |-> l, n |-> lstNth(l, k)]]
  /\ Goto(t, "found")
  /\ UNCHANGED <<holder, exitPending, owner, joined, lstVars>>

\* uses it in one of the routines,
TaskInserts(l, n) == (\E new \in Node : Loose(new)) /\ lstInsert(l, n, NewNode)

TaskDeletes(l, n) == n # NULL /\ lstDelete(l, n)

TaskExtracts(l, n) ==
  /\ n # NULL
  /\ \E steps \in 0..Cardinality(Node), dst \in ListId \ {l} :
       /\ lstNStep(n, steps) # NULL /\ list[dst].count = 0
       /\ lstExtract(l, n, lstNStep(n, steps), dst)

TaskUses(t) ==
  /\ at[t] = "found"
  /\ LET l == found[t].l
         n == found[t].n
     IN  \/ TaskInserts(l, n) \/ TaskDeletes(l, n) \/ TaskExtracts(l, n)
         \/ (\E new \in Node : Loose(new)) /\ lstAdd(l, NewNode)
         \/ lstGet(l)
         \/ \E add \in ListId \ {l} : lstConcat(l, add)
  /\ Goto(t, "used")
  /\ found' = [found EXCEPT ![t] = NotFound]
  /\ UNCHANGED <<holder, exitPending, owner, joined>>

\* and gives the mutex back.  A node that is in no list is the tasks' own memory
\* again, and they scribble over its links.  A task that polls goes on, another
\* ends after its one round.
TaskUnlocks(t) ==
  /\ at[t] = "used"
  /\ unlock(Guard)
  /\ next' = [n \in Node |-> IF Loose(n) THEN n ELSE next[n]]
  /\ previous' = [n \in Node |-> IF Loose(n) THEN n ELSE previous[n]]
  /\ Goto(t, IF t \in Polling THEN "loop" ELSE "ended")
  /\ UNCHANGED <<exitPending, owner, joined, list, freed, found>>

\* The owner frees a list once no task is left.
OwnerFrees(l) ==
  /\ Free /\ joined = Threads /\ list[l].count > 0
  /\ lstFree(l)
  /\ UNCHANGED <<threadVars, found>>

\* Nothing is left to do.
Finished ==
  /\ joined = Threads /\ \A l \in ListId : list[l].count = 0
  /\ UNCHANGED vars

LooksUp(t) == \E l \in ListId, k \in 0..Cardinality(Node) : TaskLooksUp(t, l, k)

\* What module Thread does leaves the lists alone.
Apart(A) == A /\ UNCHANGED <<lstVars, found>>

Next ==
  \/ Apart(OwnerNext)
  \/ \E t \in Threads : Apart(IsQuitLocks(t)) \/ Apart(IsQuit(t))
  \/ \E t \in Threads : TaskLocks(t) \/ LooksUp(t) \/ TaskUses(t) \/ TaskUnlocks(t)
  \/ \E l \in ListId : OwnerFrees(l)
  \/ Finished

Spec == Init /\ [][Next]_vars

\* The lists differ in nothing but their names.
Symmetry == Permutations(ListId)

-----------------------------------------------------------------------------
\* Properties.

Places == {"none", "loop", "isQuit", "work", "guarded", "found", "used", "ended"}

\* The type invariant.
TypeOK ==
  /\ holder \in [Mutexes -> Actors \cup {Nobody}]
  /\ exitPending \in [Threads -> BOOLEAN]
  /\ at \in [Threads -> Places]
  /\ owner \in [call : Calls, t : Threads \cup {Owner}]
  /\ joined \subseteq Threads
  /\ next \in [Node -> Pointer] /\ previous \in [Node -> Pointer]
  /\ list \in [ListId -> [HEAD : Pointer, TAIL : Pointer, count : 0..Cardinality(Node)]]
  /\ freed \subseteq Node
  /\ found \in [Threads -> [l : ListId, n : Pointer] \cup {NotFound}]

\* The searches agree with the sequence of nodes that the links from the head make:
\* count, both ends, the links of each node both ways, lstNth from whichever end it
\* starts, lstNStep in both directions and off both ends, and lstFind.
SearchesRight(l) ==
  LET s == Contents(l)
      Nth(k) == IF k \in DOMAIN s THEN s[k] ELSE NULL
      far == Cardinality(Node) + 1
  IN  /\ lstCount(l) = Cardinality(InList(l))
      /\ lstFirst(l) = Nth(1) /\ lstLast(l) = Nth(Len(s))
      /\ \A k \in -1..far : lstNth(l, k) = Nth(k)
      /\ \A n \in Node \ InList(l) : lstFind(l, n) = -1
      /\ \A i \in DOMAIN s :
           /\ lstFind(l, s[i]) = i
           /\ lstNext(s[i]) = Nth(i + 1) /\ lstPrevious(s[i]) = Nth(i - 1)
           /\ \A d \in -far..far : lstNStep(s[i], d) = Nth(i + d)

\* That holds of every list, no node is in two of them, and none that was freed is
\* linked anywhere: whatever sublists are cut out, concatenated and refilled, with
\* the stale links that lstDelete and lstGet leave behind.
WellFormed ==
  /\ \A l \in ListId : SearchesRight(l) /\ InList(l) \cap freed = {}
  /\ \A l, m \in ListId : l # m => InList(l) \cap InList(m) = {}

\* Between a lookup and the use of what it found the list does not change under
\* the task: the node is still in that list, and it was not freed.
NoStaleNode ==
  \A t \in Threads :
    at[t] = "found" /\ found[t].n # NULL => found[t].n \in InList(found[t].l) \ freed

\* The routines implement what their comments promise of sequences of nodes.
Abstract == INSTANCE Lists WITH contents <- [l \in ListId |-> Contents(l)]

ListSpec == Abstract!Spec

\* The one a thread waits for: the holder of a mutex it has called lock() on, or
\* the thread it joins.
WaitsFor(a, b) ==
  \/ a = Owner /\ owner.call \in {"RequestExit", "RequestExitAndWait"}
       /\ holder[owner.t] = b
  \/ a = Owner /\ owner.call \in {"waiting", "joining"} /\ owner.t = b /\ at[b] # "ended"
  \/ a # Owner /\ at[a] = "loop" /\ holder[a] = b
  \/ a # Owner /\ at[a] = "work" /\ holder[Guard] = b

\* No threads wait for each other in a circle, nor one for itself: a join with the
\* mutex held (RequestExitAndWait) meets no thread that polls IsQuit, and the
\* mutexes are neither kept nor taken twice.
NoCircularWait ==
  \A S \in (SUBSET Actors) \ {{}} : \E a \in S : \A b \in S : ~WaitsFor(a, b)
=============================================================================
