------------------------------- MODULE LstLib -------------------------------
(***************************************************************************)
(* lstLib, the doubly linked lists: the two links in each node, the head,  *)
(* tail and count in each list descriptor, and what every routine does to  *)
(* them, pointer by pointer.  A routine that only reads is an operator, one *)
(* that writes is an action.  The module has no specification of its own:  *)
(* who calls the routines, and under which lock, is in module ListTasks.   *)
(*                                                                         *)
(* A routine trusts its caller, so the actions have no guards; what the    *)
(* caller must see to is said in the comment above each of them.           *)
(***************************************************************************)
EXTENDS Integers, Sequences, FiniteSets, FiniteSetsExt

CONSTANTS
  Node,     \* the nodes there are
  ListId,   \* the list descriptors
  NULL      \* the null pointer

ASSUME NullAssumption == NULL \notin Node
ASSUME NodeAssumption == IsFiniteSet(Node)

VARIABLES
  next, previous,   \* the links of each node; those of a node in no list are stale
  list,             \* per list: [HEAD, TAIL, count]
  freed             \* the nodes whose memory lstFree gave back

lstVars == <<next, previous, list, freed>>

Pointer == Node \cup {NULL}

-----------------------------------------------------------------------------
\* Helpers.

\* *at.link = to, for a pointer that may be null, where nothing is stored.
Store(link, at, to) == IF at = NULL THEN link ELSE [link EXCEPT ![at] = to]

\* Where k steps along the links lead from n; null stays null.
Follow(link, n, k) ==
  LET at[i \in 0..k] ==
        IF i = 0 THEN n ELSE IF at[i - 1] = NULL THEN NULL ELSE link[at[i - 1]]
  IN  at[k]

\* The nodes a loop from n to the end of its chain meets.
Chain(link, n) == {Follow(link, n, k) : k \in 0..Cardinality(Node)} \ {NULL}

\* What lstInit leaves in a descriptor.
EmptyList == [HEAD |-> NULL, TAIL |-> NULL, count |-> 0]

\* All lists initialised, and arbitrary links in the nodes.
LstInit ==
  /\ next = [n \in Node |-> n] /\ previous = [n \in Node |-> n]
  /\ list = [l \in ListId |-> EmptyList] /\ freed = {}

-----------------------------------------------------------------------------
\* The routines that only read.

lstFirst(l) == list[l].HEAD

lstLast(l) == list[l].TAIL

lstCount(l) == list[l].count

lstNext(n) == next[n]

lstPrevious(n) == previous[n]

\* Searches from whichever end is said to be closer.
lstNth(l, nodenum) ==
  IF nodenum < 1 \/ nodenum > list[l].count THEN NULL
  ELSE IF nodenum < list[l].count \div 2
  THEN Follow(next, list[l].HEAD, nodenum - 1)
  ELSE Follow(previous, list[l].TAIL, list[l].count - nodenum)

lstNStep(n, nStep) ==
  IF nStep < 0 THEN Follow(previous, n, -nStep) ELSE Follow(next, n, nStep)

lstFind(l, n) ==
  LET found == {k \in 1..Cardinality(Node) : Follow(next, lstFirst(l), k - 1) = n}
  IN  IF found = {} THEN -1 ELSE Min(found)

-----------------------------------------------------------------------------
\* The routines that write.

\* Mistake: the node after the new one is not made to point back to it.
lstInsertOneWay(l, prev, n) ==
  LET after == IF prev = NULL THEN list[l].HEAD ELSE next[prev]
  IN  /\ next' = Store(Store(next, prev, n), n, after)
      /\ previous' = Store(previous, n, prev)
      /\ list' = [list EXCEPT ![l] =
           [HEAD |-> IF prev = NULL THEN n ELSE @.HEAD,
            TAIL |-> IF after = NULL THEN n ELSE @.TAIL,
            count |-> @.count + 1]]
      /\ UNCHANGED freed

\* prev is null or in list l, n is in no list.
lstInsert(l, prev, n) ==
  LET after == IF prev = NULL THEN list[l].HEAD ELSE next[prev]
  IN  /\ next' = Store(Store(next, prev, n), n, after)
      /\ previous' = Store(Store(previous, after, n), n, prev)
      /\ list' = [list EXCEPT ![l] =
           [HEAD |-> IF prev = NULL THEN n ELSE @.HEAD,
            TAIL |-> IF after = NULL THEN n ELSE @.TAIL,
            count |-> @.count + 1]]
      /\ UNCHANGED freed

lstAdd(l, n) == lstInsert(l, list[l].TAIL, n)

\* n is in list l; its own links are left as they are.
lstDelete(l, n) ==
  /\ next' = Store(next, previous[n], next[n])
  /\ previous' = Store(previous, next[n], previous[n])
  /\ list' = [list EXCEPT ![l] =
       [HEAD |-> IF previous[n] = NULL THEN next[n] ELSE @.HEAD,
        TAIL |-> IF next[n] = NULL THEN previous[n] ELSE @.TAIL,
        count |-> @.count - 1]]
  /\ UNCHANGED freed

\* The node returned is the list's first; an empty list is left alone.
lstGet(l) ==
  LET n == list[l].HEAD
  IN  IF n = NULL THEN UNCHANGED lstVars
      ELSE /\ previous' = Store(previous, next[n], NULL)
           /\ list' = [list EXCEPT ![l] =
                [HEAD |-> next[n],
                 TAIL |-> IF next[n] = NULL THEN NULL ELSE @.TAIL,
                 count |-> @.count - 1]]
           /\ UNCHANGED <<next, freed>>

\* Mistake: the source keeps its count.
lstExtractKeepsCount(src, start, end, dst) ==
  /\ next' = Store(Store(next, previous[start], next[end]), end, NULL)
  /\ previous' = Store(Store(previous, next[end], previous[start]), start, NULL)
  /\ list' = [list EXCEPT
       ![src] = [HEAD |-> IF previous[start] = NULL THEN next[end] ELSE @.HEAD,
                 TAIL |-> IF next[end] = NULL THEN previous[start] ELSE @.TAIL,
                 count |-> @.count],
       ![dst] = [HEAD |-> start, TAIL |-> end,
                 count |-> Cardinality(Chain(Store(next, end, NULL), start))]]
  /\ UNCHANGED freed

\* start is at or before end in list src, and dst is another list, empty: what
\* it held would be lost.
lstExtract(src, start, end, dst) ==
  /\ next' = Store(Store(next, previous[start], next[end]), end, NULL)
  /\ previous' = Store(Store(previous, next[end], previous[start]), start, NULL)
  /\ LET i == Cardinality(Chain(Store(next, end, NULL), start))
     IN  list' = [list EXCEPT
           ![src] = [HEAD |-> IF previous[start] = NULL THEN next[end] ELSE @.HEAD,
                     TAIL |-> IF next[end] = NULL THEN previous[start] ELSE @.TAIL,
                     count |-> @.count - i],
           ![dst] = [HEAD |-> start, TAIL |-> end, count |-> i]]
  /\ UNCHANGED freed

\* Mistake: the second list goes in front of the first.
lstConcatInFront(dst, add) ==
  IF list[add].count = 0 THEN UNCHANGED lstVars
  ELSE /\ next' = Store(next, list[add].TAIL, list[dst].HEAD)
       /\ previous' = Store(previous, list[dst].HEAD, list[add].TAIL)
       /\ list' = [list EXCEPT
            ![dst] = [HEAD |-> list[add].HEAD,
                      TAIL |-> IF @.TAIL = NULL THEN list[add].TAIL ELSE @.TAIL,
                      count |-> @.count + list[add].count],
            ![add] = EmptyList]
       /\ UNCHANGED freed

\* dst and add are different lists.
lstConcat(dst, add) ==
  IF list[add].count = 0 THEN UNCHANGED lstVars
  ELSE /\ IF list[dst].count = 0
          THEN /\ list' = [list EXCEPT ![dst] = list[add], ![add] = EmptyList]
               /\ UNCHANGED <<next, previous>>
          ELSE /\ next' = Store(next, list[dst].TAIL, list[add].HEAD)
               /\ previous' = Store(previous, list[add].HEAD, list[dst].TAIL)
               /\ list' = [list EXCEPT
                    ![dst] = [HEAD |-> @.HEAD, TAIL |-> list[add].TAIL,
                              count |-> @.count + list[add].count],
                    ![add] = EmptyList]
       /\ UNCHANGED freed

\* Nobody uses the list or a node of it any more.
lstFree(l) ==
  IF list[l].count > 0
  THEN /\ freed' = freed \cup Chain(next, list[l].HEAD)
       /\ list' = [list EXCEPT ![l] = EmptyList]
       /\ UNCHANGED <<next, previous>>
  ELSE UNCHANGED lstVars

-----------------------------------------------------------------------------
\* What the pointers mean.

\* The nodes of a list, first to last.
Contents(l) == [i \in 1..list[l].count |-> Follow(next, list[l].HEAD, i - 1)]
=============================================================================
