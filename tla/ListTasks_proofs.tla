-------------------------- MODULE ListTasks_proofs --------------------------
(***************************************************************************)
(* For any number of threads, lists and nodes: no two tasks are between    *)
(* lock() and unlock() at once, and no circle of threads waits for each    *)
(* other.  Both follow from who holds which mutex when, which is what the  *)
(* inductive invariant IInv says.                                          *)
(*                                                                         *)
(* Above it, the lists: whatever the tasks do under the mutex, the links   *)
(* and descriptors stand for sequences of nodes (Represents), and every    *)
(* routine changes those sequences as module Lists says (Implements).  So  *)
(* every search is right, no node is in two lists or used after it was     *)
(* freed, and what a task has looked up is not moved under it.             *)
(***************************************************************************)
EXTENDS ListTasks, FiniteSetTheorems, SequenceTheorems, WellFoundedInduction, TLAPS

\* The places of a task that has the mutex of the lists.
Inside == {"guarded", "found", "used"}

Types ==
  /\ holder \in [Mutexes -> Actors \cup {Nobody}]
  /\ at \in [Threads -> Places]
  /\ owner \in [call : Calls, t : Threads \cup {Owner}]

\* Which of the owner's calls are possible.
OwnerInv ==
  /\ owner.call # "none" => owner.t \in Threads
  /\ owner.call \in {"RequestExitAndWait", "waiting"} => MayWait(owner.t)
  /\ \A t \in Threads \ Polling : at[t] \notin {"loop", "isQuit"}

\* The mutex of the lists is held by the task that is inside.
GuardInv ==
  /\ holder[Guard] # Owner
  /\ \A t \in Threads : holder[Guard] = t <=> at[t] \in Inside

\* The mutex of a thread object is held by its own thread, in IsQuit, or by the owner
\* that waits for that thread in RequestExitAndWait.
MutexInv ==
  \A t \in Threads :
    /\ holder[t] \in {Nobody, t, Owner}
    /\ holder[t] = t <=> at[t] = "isQuit"
    /\ holder[t] = Owner <=> owner.call = "waiting" /\ owner.t = t

IInv == Types /\ OwnerInv /\ GuardInv /\ MutexInv

-----------------------------------------------------------------------------
\* The invariant holds at the start.
LEMMA InitInv == Init => IInv
  <1> SUFFICES ASSUME Init PROVE IInv
    OBVIOUS
  <1> USE ActorAssumption DEF Init, ThreadInit, Actors, Mutexes
  <1>1. Types
    BY DEF Types, Places, Calls
  <1>2. OwnerInv
    BY DEF OwnerInv
  <1>3. GuardInv
    BY DEF GuardInv, Inside
  <1>4. MutexInv
    BY DEF MutexInv
  <1> QED BY <1>1, <1>2, <1>3, <1>4 DEF IInv

\* The owner's calls keep it.
LEMMA OwnerStep == IInv /\ OwnerNext => IInv'
  <1> SUFFICES ASSUME IInv, OwnerNext PROVE IInv'
    OBVIOUS
  <1> USE ActorAssumption, PollingAssumption
      DEF IInv, Types, OwnerInv, GuardInv, MutexInv, Inside, Places, Calls, Actors,
          Mutexes, Free
  <1>1. ASSUME NEW t \in Threads, Construct(t) PROVE IInv'
    BY <1>1 DEF Construct, Goto
  <1>2. ASSUME NEW t \in Threads, CallRequestExit(t) PROVE IInv'
    BY <1>2 DEF CallRequestExit, MayWait
  <1>3. ASSUME NEW t \in Threads, CallJoin(t) PROVE IInv'
    BY <1>3 DEF CallJoin
  <1>4. CASE RequestExit
    BY <1>4 DEF RequestExit
  <1>5. CASE RequestExitAndWait
    BY <1>5 DEF RequestExitAndWait, Lock, MayWait
  <1>6. CASE RequestExitAndWaitReturns
    BY <1>6 DEF RequestExitAndWaitReturns, unlock
  <1>7. CASE JoinReturns
    BY <1>7 DEF JoinReturns
  <1> QED BY <1>1, <1>2, <1>3, <1>4, <1>5, <1>6, <1>7 DEF OwnerNext

\* The threads' own steps keep it.
LEMMA ThreadStep ==
  ASSUME IInv, NEW t \in Threads,
         \/ IsQuitLocks(t) \/ IsQuit(t)
         \/ TaskLocks(t) \/ LooksUp(t) \/ TaskUses(t) \/ TaskUnlocks(t)
  PROVE  IInv'
  <1> USE ActorAssumption, PollingAssumption
      DEF IInv, Types, OwnerInv, GuardInv, MutexInv, Inside, Places, Calls, Actors,
          Mutexes, Goto
  <1>1. CASE IsQuitLocks(t)
    BY <1>1 DEF IsQuitLocks, Lock
  <1>2. CASE IsQuit(t)
    BY <1>2 DEF IsQuit, unlock
  <1>3. CASE TaskLocks(t)
    BY <1>3 DEF TaskLocks, Lock
  <1>4. CASE LooksUp(t)
    BY <1>4 DEF LooksUp, TaskLooksUp
  <1>5. CASE TaskUses(t)
    BY <1>5 DEF TaskUses
  <1>6. CASE TaskUnlocks(t)
    BY <1>6 DEF TaskUnlocks, unlock
  <1> QED BY <1>1, <1>2, <1>3, <1>4, <1>5, <1>6

\* Every step keeps it.
LEMMA NextInv == IInv /\ [Next]_vars => IInv'
  <1> SUFFICES ASSUME IInv, [Next]_vars PROVE IInv'
    OBVIOUS
  <1> USE DEF IInv, Types, OwnerInv, GuardInv, MutexInv
  <1>1. CASE Apart(OwnerNext)
    BY <1>1, OwnerStep DEF Apart
  <1>2. ASSUME NEW t \in Threads,
               \/ Apart(IsQuitLocks(t)) \/ Apart(IsQuit(t))
               \/ TaskLocks(t) \/ LooksUp(t) \/ TaskUses(t) \/ TaskUnlocks(t)
        PROVE  IInv'
    BY <1>2, ThreadStep DEF Apart
  <1>3. ASSUME NEW l \in ListId, OwnerFrees(l) PROVE IInv'
    BY <1>3 DEF OwnerFrees, threadVars
  <1>4. CASE UNCHANGED vars
    BY <1>4 DEF vars, threadVars
  <1> QED BY <1>1, <1>2, <1>3, <1>4 DEF Next, Finished

\* Who holds which mutex, and who can wait for whom: the inductive invariant, in every
\* reachable state.
THEOREM Invariant == Spec => []IInv
  BY InitInv, NextInv, PTL DEF Spec

-----------------------------------------------------------------------------
\* Two tasks are never inside at once: what one of them has looked up in a list
\* cannot be moved by another before it is used.
THEOREM Exclusive ==
  Spec => [](\A t, u \in Threads : at[t] \in Inside /\ at[u] \in Inside => t = u)
  <1>1. IInv => \A t, u \in Threads : at[t] \in Inside /\ at[u] \in Inside => t = u
    BY DEF IInv, GuardInv
  <1> QED BY <1>1, Invariant, PTL

\* A thread that another thread waits for is not the owner; and one that waits for
\* somebody waits for a task that is inside, which itself waits for nobody.
LEMMA WaitsForInside ==
  ASSUME IInv, WaitPolling = FALSE, NEW a \in Actors, NEW b \in Actors, WaitsFor(a, b)
  PROVE  /\ b \in Threads
         /\ a # Owner => at[b] \in Inside
  <1> USE ActorAssumption DEF IInv, Types, Actors, Mutexes
  <1>1. CASE /\ a = Owner /\ owner.call \in {"RequestExit", "RequestExitAndWait"}
              /\ holder[owner.t] = b
    BY <1>1 DEF OwnerInv, MutexInv
  <1>2. CASE a = Owner /\ owner.call \in {"waiting", "joining"} /\ owner.t = b
    BY <1>2 DEF OwnerInv
  <1>3. CASE a # Owner /\ at[a] = "loop" /\ holder[a] = b
    BY <1>3, PollingAssumption DEF MutexInv, OwnerInv, MayWait
  <1>4. CASE a # Owner /\ at[a] = "work" /\ holder[Guard] = b
    BY <1>4 DEF GuardInv
  <1> QED BY <1>1, <1>2, <1>3, <1>4 DEF WaitsFor

\* A task inside the mutex waits for nobody.
LEMMA InsideWaitsForNobody ==
  ASSUME IInv, NEW a \in Threads, at[a] \in Inside, NEW b \in Actors
  PROVE  ~WaitsFor(a, b)
  BY ActorAssumption DEF WaitsFor, Inside

\* No set of threads waits in a circle, whatever the join under the mutex in
\* RequestExitAndWait meets, provided it is not called for a thread that polls.
THEOREM NoCircle ==
  ASSUME WaitPolling = FALSE
  PROVE  Spec => []NoCircularWait
  <1>1. IInv => NoCircularWait
    <2> SUFFICES ASSUME IInv, NEW S \in (SUBSET Actors) \ {{}},
                        \A a \in S : \E b \in S : WaitsFor(a, b)
                 PROVE  FALSE
      BY DEF NoCircularWait
    <2>1. PICK a \in S, b \in S : WaitsFor(a, b)
      OBVIOUS
    <2>2. b \in Threads
      BY <2>1, WaitsForInside
    <2>3. PICK c \in S : WaitsFor(b, c)
      OBVIOUS
    <2>4. c \in Threads /\ at[c] \in Inside
      BY <2>2, <2>3, WaitsForInside, ActorAssumption
    <2>5. \A d \in S : ~WaitsFor(c, d)
      BY <2>4, InsideWaitsForNobody
    <2> QED BY <2>5
  <1> QED BY <1>1, Invariant, PTL
-----------------------------------------------------------------------------
\* Walking along links.

\* A set of numbers that is not empty has a least element.
LEMMA LeastElement ==
  ASSUME NEW S \in SUBSET Nat, S # {}
  PROVE  \E m \in S : \A k \in S : m <= k
  <1> DEFINE R == OpToRel(<, Nat)
  <1>1. IsWellFoundedOn(R, Nat)
    BY NatLessThanWellFounded, Zenon
  <1>2. \A x, y \in S : y < x => <<y, x>> \in R
    BY DEF OpToRel
  <1> HIDE DEF R
  <1>3. PICK x \in S : \A y \in S : ~ (<<y, x>> \in R)
    BY <1>1, WFMin, Zenon
  <1>4. \A y \in S : ~ (y < x)
    BY <1>2, <1>3, Zenon
  <1> QED BY <1>4

\* h makes k steps along the links, from n.
Walks(h, link, n, k) ==
  /\ h = [i \in 0..k |-> h[i]] /\ h[0] = n
  /\ \A i \in 1..k : h[i] = IF h[i - 1] = NULL THEN NULL ELSE link[h[i - 1]]

\* A function that does leads where Follow leads: the two cannot differ anywhere for
\* a first time.
LEMMA FollowIs ==
  ASSUME NEW link, NEW n, NEW k \in Nat, NEW h, Walks(h, link, n, k)
  PROVE  Follow(link, n, k) = h[k]
  <1> USE DEF Walks
  <1> DEFINE Steps(g) ==
        g = [i \in 0..k |->
               IF i = 0 THEN n ELSE IF g[i - 1] = NULL THEN NULL ELSE link[g[i - 1]]]
  <1>1. Steps(h)
    <2>1. ASSUME NEW i \in 0..k
          PROVE  h[i] = IF i = 0 THEN n ELSE IF h[i - 1] = NULL THEN NULL ELSE link[h[i - 1]]
      <3>1. i = 0 \/ i \in 1..k
        OBVIOUS
      <3>2. i \in 1..k => i # 0
        OBVIOUS
      <3> QED BY <3>1, <3>2, Zenon
    <2> QED BY <2>1, Zenon
  <1>2. PICK g : Steps(g) /\ Follow(link, n, k) = g[k]
    BY <1>1, Zenon DEF Follow
  <1>3. \A i \in 0..k : g[i] = IF i = 0 THEN n
                               ELSE IF g[i - 1] = NULL THEN NULL ELSE link[g[i - 1]]
    <2>1. Steps(g)
      BY <1>2
    <2> QED BY <2>1, Zenon
  <1> DEFINE D == {i \in 0..k : g[i] # h[i]}
  <1>4. CASE D = {}
    <2>1. k \in 0..k
      OBVIOUS
    <2>2. g[k] = h[k]
      BY <1>4, <2>1, Zenon
    <2> QED BY <1>2, <2>2
  <1>5. CASE D # {}
    <2>1. D \in SUBSET Nat
      BY SMT
    <2> HIDE DEF D
    <2>2. PICK m \in D : \A i \in D : m <= i
      BY <1>5, <2>1, LeastElement, Zenon
    <2> USE DEF D
    <2>3. m \in 1..k
      BY <1>3, <2>2
    <2>4. g[m - 1] = h[m - 1]
      BY <2>2, <2>3
    <2>5. g[m] = IF g[m - 1] = NULL THEN NULL ELSE link[g[m - 1]]
      BY <1>3, <2>3
    <2>6. h[m] = IF h[m - 1] = NULL THEN NULL ELSE link[h[m - 1]]
      BY <2>3
    <2>7. g[m] = h[m]
      BY <2>4, <2>5, <2>6, Zenon
    <2> QED BY <2>2, <2>7
  <1> QED BY <1>4, <1>5

\* The k-th node of a sequence, and null beyond either end.
Elem(s, k) == IF k \in 1..Len(s) THEN s[k] ELSE NULL

\* Steps along links that lead through a sequence.
LEMMA FollowNext ==
  ASSUME NEW s \in Seq(Node), NEW link,
         \A i \in 1..Len(s) : link[s[i]] = Elem(s, i + 1),
         NEW j \in Nat \ {0}, NEW k \in Nat
  PROVE  Follow(link, Elem(s, j), k) = Elem(s, j + k)
  <1> DEFINE h == [i \in 0..k |-> Elem(s, j + i)]
  <1>1. h[0] = Elem(s, j) /\ h[k] = Elem(s, j + k)
    OBVIOUS
  <1>2. ASSUME NEW i \in 1..k
        PROVE  h[i] = IF h[i - 1] = NULL THEN NULL ELSE link[h[i - 1]]
    <2>1. h[i] = Elem(s, j + i) /\ h[i - 1] = Elem(s, j + i - 1)
      OBVIOUS
    <2>2. CASE j + i - 1 \in 1..Len(s)
      <3>1. link[s[j + i - 1]] = Elem(s, j + i)
        BY <2>2
      <3>2. s[j + i - 1] # NULL
        BY <2>2, NullAssumption
      <3> QED BY <2>1, <2>2, <3>1, <3>2 DEF Elem
    <2>3. CASE j + i - 1 \notin 1..Len(s)
      BY <2>1, <2>3 DEF Elem
    <2> QED BY <2>2, <2>3
  <1>3. h = [i \in 0..k |-> h[i]]
    OBVIOUS
  <1> HIDE DEF h
  <1>4. Follow(link, Elem(s, j), k) = h[k]
    <2>1. Walks(h, link, Elem(s, j), k)
      BY <1>1, <1>2, <1>3 DEF Walks
    <2> QED BY <2>1, FollowIs
  <1> QED BY <1>1, <1>4

\* And steps back.
LEMMA FollowPrevious ==
  ASSUME NEW s \in Seq(Node), NEW link,
         \A i \in 1..Len(s) : link[s[i]] = Elem(s, i - 1),
         NEW j \in Int, j <= Len(s), NEW k \in Nat
  PROVE  Follow(link, Elem(s, j), k) = Elem(s, j - k)
  <1> DEFINE h == [i \in 0..k |-> Elem(s, j - i)]
  <1>1. h[0] = Elem(s, j) /\ h[k] = Elem(s, j - k)
    OBVIOUS
  <1>2. ASSUME NEW i \in 1..k
        PROVE  h[i] = IF h[i - 1] = NULL THEN NULL ELSE link[h[i - 1]]
    <2>1. h[i] = Elem(s, j - i) /\ h[i - 1] = Elem(s, j - i + 1)
      OBVIOUS
    <2>2. CASE j - i + 1 \in 1..Len(s)
      <3>1. link[s[j - i + 1]] = Elem(s, j - i)
        BY <2>2
      <3>2. s[j - i + 1] # NULL
        BY <2>2, NullAssumption
      <3> QED BY <2>1, <2>2, <3>1, <3>2 DEF Elem
    <2>3. CASE j - i + 1 \notin 1..Len(s)
      BY <2>1, <2>3 DEF Elem
    <2> QED BY <2>2, <2>3
  <1>3. h = [i \in 0..k |-> h[i]]
    OBVIOUS
  <1> HIDE DEF h
  <1>4. Follow(link, Elem(s, j), k) = h[k]
    <2>1. Walks(h, link, Elem(s, j), k)
      BY <1>1, <1>2, <1>3 DEF Walks
    <2> QED BY <2>1, FollowIs
  <1> QED BY <1>1, <1>4

-----------------------------------------------------------------------------
\* The sequences that the routines make.

\* A piece of a sequence.
LEMMA PieceIs ==
  ASSUME NEW s \in Seq(Node), NEW i \in 1..Len(s) + 1, NEW j \in 0..Len(s)
  PROVE  /\ SubSeq(s, i, j) \in Seq(Node)
         /\ Len(SubSeq(s, i, j)) = IF i <= j THEN j - i + 1 ELSE 0
         /\ \A k \in 1..Len(SubSeq(s, i, j)) : SubSeq(s, i, j)[k] = s[i + k - 1]
  OBVIOUS

\* Two sequences joined.
LEMMA JoinedIs ==
  ASSUME NEW s \in Seq(Node), NEW t \in Seq(Node)
  PROVE  /\ s \o t \in Seq(Node) /\ Len(s \o t) = Len(s) + Len(t)
         /\ \A k \in 1..Len(s) + Len(t) :
              (s \o t)[k] = IF k <= Len(s) THEN s[k] ELSE t[k - Len(s)]
  OBVIOUS

\* t is s with x behind its first i nodes.
Inserted(t, s, i, x) ==
  /\ t \in Seq(Node) /\ Len(t) = Len(s) + 1
  /\ \A k \in 1..Len(s) + 1 :
       t[k] = IF k <= i THEN s[k] ELSE IF k = i + 1 THEN x ELSE s[k - 1]

\* Which is what InsertAt makes of it.
LEMMA InsertAtIs ==
  ASSUME NEW s \in Seq(Node), NEW i \in 0..Len(s), NEW x \in Node
  PROVE  Inserted(Abstract!InsertAt(s, i + 1, x), s, i, x)
  <1> DEFINE a == SubSeq(s, 1, i)
             b == SubSeq(s, i + 1, Len(s))
             o == <<x>>
  <1>1. /\ a \in Seq(Node) /\ Len(a) = i
        /\ \A k \in 1..i : a[k] = s[k]
    <2>1. 1 \in 1..Len(s) + 1 /\ i \in 0..Len(s)
      OBVIOUS
    <2> QED BY <2>1, PieceIs
  <1>2. /\ b \in Seq(Node) /\ Len(b) = Len(s) - i
        /\ \A k \in 1..Len(s) - i : b[k] = s[i + k]
    <2>1. i + 1 \in 1..Len(s) + 1 /\ Len(s) \in 0..Len(s)
      OBVIOUS
    <2> QED BY <2>1, PieceIs
  <1>3. o \in Seq(Node) /\ Len(o) = 1 /\ o[1] = x
    OBVIOUS
  <1>4. Abstract!InsertAt(s, i + 1, x) = a \o o \o b
    <2>1. (i + 1) - 1 = i
      OBVIOUS
    <2> QED BY <2>1, Zenon DEF Abstract!InsertAt
  <1> HIDE DEF a, b, o
  <1>5. a \o o \in Seq(Node) /\ Len(a \o o) = Len(a) + Len(o)
        /\ \A k \in 1..Len(a) + Len(o) :
              (a \o o)[k] = IF k <= Len(a) THEN a[k] ELSE o[k - Len(a)]
    <2>1. a \in Seq(Node) /\ o \in Seq(Node)
      BY <1>1, <1>3
    <2> QED BY <2>1, JoinedIs
  <1> DEFINE c == a \o o
  <1>6. c \in Seq(Node) /\ Len(c) = i + 1 /\ c[i + 1] = x /\ \A k \in 1..i : c[k] = s[k]
    <2> HIDE DEF c
    <2>1. c \in Seq(Node) /\ Len(c) = i + 1
          /\ \A k \in 1..i + 1 : c[k] = IF k <= i THEN a[k] ELSE o[k - i]
      BY <1>1, <1>3, <1>5 DEF c
    <2> QED BY <1>1, <1>3, <2>1
  <1>7. Abstract!InsertAt(s, i + 1, x) = c \o b
    BY <1>4
  <1> HIDE DEF c
  <1>8. /\ c \o b \in Seq(Node) /\ Len(c \o b) = Len(c) + Len(b)
        /\ \A k \in 1..Len(c) + Len(b) :
             (c \o b)[k] = IF k <= Len(c) THEN c[k] ELSE b[k - Len(c)]
    <2>1. c \in Seq(Node) /\ b \in Seq(Node)
      BY <1>2, <1>6
    <2> QED BY <2>1, JoinedIs
  <1> DEFINE d == c \o b
  <1>9. d \in Seq(Node) /\ Len(d) = Len(s) + 1
    BY <1>2, <1>6, <1>8
  <1>10. \A k \in 1..Len(s) + 1 : d[k] = IF k <= i + 1 THEN c[k] ELSE b[k - (i + 1)]
    BY <1>2, <1>6, <1>8
  <1> HIDE DEF d
  <1>11. ASSUME NEW k \in 1..Len(s) + 1
         PROVE  d[k] = IF k <= i THEN s[k] ELSE IF k = i + 1 THEN x ELSE s[k - 1]
    <2>1. CASE k <= i
      BY <1>6, <1>10, <2>1
    <2>2. CASE k = i + 1
      BY <1>6, <1>10, <2>2
    <2>3. CASE k > i + 1
      <3>1. k - (i + 1) \in 1..Len(s) - i /\ i + (k - (i + 1)) = k - 1
            /\ ~ (k <= i + 1) /\ ~ (k <= i) /\ k # i + 1
        BY <2>3
      <3>2. b[k - (i + 1)] = s[k - 1]
        BY <1>2, <3>1
      <3>3. d[k] = b[k - (i + 1)]
        BY <1>10, <3>1
      <3> QED BY <3>1, <3>2, <3>3
    <2> QED BY <2>1, <2>2, <2>3
  <1>12. Abstract!InsertAt(s, i + 1, x) = d
    BY <1>7 DEF d
  <1> QED BY <1>9, <1>11, <1>12 DEF Inserted

\* A sequence without a piece.
Without(s, i, j) == SubSeq(s, 1, i - 1) \o SubSeq(s, j + 1, Len(s))

\* Its length and its nodes.
LEMMA WithoutIs ==
  ASSUME NEW s \in Seq(Node), NEW i \in 1..Len(s), NEW j \in i..Len(s)
  PROVE  /\ Without(s, i, j) \in Seq(Node)
         /\ Len(Without(s, i, j)) = Len(s) - (j - i + 1)
         /\ \A k \in 1..Len(s) - (j - i + 1) :
              Without(s, i, j)[k] = IF k < i THEN s[k] ELSE s[k + (j - i + 1)]
  <1> DEFINE a == SubSeq(s, 1, i - 1)
             b == SubSeq(s, j + 1, Len(s))
  <1>1. /\ a \in Seq(Node) /\ Len(a) = i - 1
        /\ \A k \in 1..i - 1 : a[k] = s[k]
    <2>1. 1 \in 1..Len(s) + 1 /\ i - 1 \in 0..Len(s)
      OBVIOUS
    <2> QED BY <2>1, PieceIs
  <1>2. /\ b \in Seq(Node) /\ Len(b) = Len(s) - j
        /\ \A k \in 1..Len(s) - j : b[k] = s[j + k]
    <2>1. j + 1 \in 1..Len(s) + 1 /\ Len(s) \in 0..Len(s)
      OBVIOUS
    <2> QED BY <2>1, PieceIs
  <1>3. Without(s, i, j) = a \o b
    BY DEF Without
  <1> HIDE DEF a, b
  <1>4. /\ a \o b \in Seq(Node) /\ Len(a \o b) = Len(a) + Len(b)
        /\ \A k \in 1..Len(a) + Len(b) :
             (a \o b)[k] = IF k <= Len(a) THEN a[k] ELSE b[k - Len(a)]
    <2>1. a \in Seq(Node) /\ b \in Seq(Node)
      BY <1>1, <1>2
    <2> QED BY <2>1, JoinedIs
  <1> DEFINE d == a \o b
  <1>5. d \in Seq(Node) /\ Len(d) = Len(s) - (j - i + 1)
    BY <1>1, <1>2, <1>4
  <1>6. \A k \in 1..Len(s) - (j - i + 1) : d[k] = IF k <= i - 1 THEN a[k] ELSE b[k - (i - 1)]
    BY <1>1, <1>2, <1>4
  <1> HIDE DEF d
  <1>7. ASSUME NEW k \in 1..Len(s) - (j - i + 1)
        PROVE  d[k] = IF k < i THEN s[k] ELSE s[k + (j - i + 1)]
    <2>1. CASE k < i
      BY <1>1, <1>6, <2>1
    <2>2. CASE k >= i
      <3>1. d[k] = b[k - (i - 1)] /\ k - (i - 1) \in 1..Len(s) - j
        BY <1>6, <2>2
      <3>2. b[k - (i - 1)] = s[j + (k - (i - 1))]
        BY <1>2, <3>1
      <3>3. j + (k - (i - 1)) = k + (j - i + 1)
        OBVIOUS
      <3> QED BY <2>2, <3>1, <3>2, <3>3
    <2> QED BY <2>1, <2>2
  <1> QED BY <1>3, <1>5, <1>7 DEF d

\* lstDelete takes a piece of one node out.
LEMMA RemoveAtIs ==
  ASSUME NEW s, NEW i
  PROVE  Abstract!RemoveAt(s, i) = Without(s, i, i)
  BY Zenon DEF Abstract!RemoveAt, Without

-----------------------------------------------------------------------------
\* What the links stand for.

\* The links lead through the nodes of s both ways.
Forward(s)  == \A i \in 1..Len(s) : next[s[i]] = Elem(s, i + 1)
Backward(s) == \A i \in 1..Len(s) : previous[s[i]] = Elem(s, i - 1)

\* The descriptor of a list with these nodes.
Ends(s) == [HEAD |-> Elem(s, 1), TAIL |-> Elem(s, Len(s)), count |-> Len(s)]

\* No node stands at two places.
Distinct(c) ==
  \A l, m \in ListId : \A i \in 1..Len(c[l]), j \in 1..Len(c[m]) :
    c[l][i] = c[m][j] => l = m /\ i = j

\* The lists hold the nodes that c says, in that order, none of them freed.
Represents(c) ==
  /\ c \in [ListId -> Seq(Node)] /\ Distinct(c)
  /\ \A l \in ListId : Forward(c[l]) /\ Backward(c[l]) /\ list[l] = Ends(c[l])
  /\ \A l \in ListId : \A i \in 1..Len(c[l]) : c[l][i] \notin freed

\* Then that is what reading the lists gives.
ReadingGives == \A c : Represents(c) => c = [l \in ListId |-> Contents(l)]

\* The links are followed to just the nodes that are represented.
LEMMA ContentsAre == ReadingGives
  <1> SUFFICES ASSUME NEW c, Represents(c)
               PROVE  \A l \in ListId : Contents(l) = c[l]
    BY Zenon DEF ReadingGives, Represents
  <1> TAKE l \in ListId
  <1> DEFINE s == c[l]
  <1>1. /\ s \in Seq(Node) /\ Forward(s)
        /\ list[l].HEAD = Elem(s, 1) /\ list[l].count = Len(s)
    <2>1. s \in Seq(Node) /\ Forward(s) /\ list[l] = Ends(s)
      BY Zenon DEF Represents
    <2> QED BY <2>1 DEF Ends
  <1> HIDE DEF s
  <1>2. ASSUME NEW i \in 1..Len(s) PROVE Follow(next, list[l].HEAD, i - 1) = s[i]
    <2>1. Follow(next, Elem(s, 1), i - 1) = Elem(s, 1 + (i - 1))
      <3>1. i - 1 \in Nat /\ 1 \in Nat \ {0}
        BY <1>1
      <3>2. \A k \in 1..Len(s) : next[s[k]] = Elem(s, k + 1)
        BY <1>1 DEF Forward
      <3> QED BY <1>1, <3>1, <3>2, FollowNext
    <2>2. Elem(s, 1 + (i - 1)) = s[i]
      BY <1>1 DEF Elem
    <2> QED BY <1>1, <2>1, <2>2
  <1>3. Contents(l) = [i \in 1..Len(s) |-> s[i]]
    BY <1>1, <1>2 DEF Contents
  <1>4. s = [i \in 1..Len(s) |-> s[i]]
    BY <1>1
  <1> QED BY <1>3, <1>4 DEF s

\* A list with no node twice has as many as there are in it.
LEMMA NodesCounted ==
  ASSUME NEW s \in Seq(Node), \A i, j \in 1..Len(s) : s[i] = s[j] => i = j
  PROVE  /\ Cardinality({s[i] : i \in 1..Len(s)}) = Len(s)
         /\ Len(s) <= Cardinality(Node) /\ Cardinality(Node) \in Nat
  <1> DEFINE S == {s[i] : i \in 1..Len(s)}
  <1>1. IsFiniteSet(1..Len(s)) /\ Cardinality(1..Len(s)) = Len(s)
    <2>1. 1 \in Int /\ Len(s) \in Int /\ Len(s) >= 0
      OBVIOUS
    <2>2. /\ IsFiniteSet(1..Len(s))
          /\ Cardinality(1..Len(s)) = IF 1 > Len(s) THEN 0 ELSE Len(s) - 1 + 1
      BY <2>1, FS_Interval
    <2> QED BY <2>1, <2>2
  <1>2. s \in Bijection(1..Len(s), S)
    BY DEF Bijection, Injection, Surjection, IsInjective
  <1>3. Cardinality(S) = Len(s)
    BY <1>1, <1>2, FS_Bijection DEF ExistsBijection
  <1>4. Cardinality(S) <= Cardinality(Node) /\ Cardinality(Node) \in Nat
    <2>1. S \in SUBSET Node
      OBVIOUS
    <2> QED BY <2>1, NodeAssumption, FS_Subset, FS_CardinalityType
  <1> QED BY <1>3, <1>4

\* What one list is, in terms of its sequence.
LEMMA ListIs ==
  ASSUME NEW c, Represents(c), NEW l \in ListId
  PROVE  /\ c[l] \in Seq(Node) /\ Contents(l) = c[l]
         /\ list[l].HEAD = Elem(c[l], 1) /\ list[l].TAIL = Elem(c[l], Len(c[l]))
         /\ list[l].count = Len(c[l])
         /\ InList(l) = {c[l][i] : i \in 1..Len(c[l])}
         /\ \A i, j \in 1..Len(c[l]) : c[l][i] = c[l][j] => i = j
         /\ \A i \in 1..Len(c[l]) : c[l][i] \in Node /\ c[l][i] # NULL
         /\ Cardinality(InList(l)) = Len(c[l])
         /\ Len(c[l]) <= Cardinality(Node) /\ Cardinality(Node) \in Nat
  <1>1. c = [k \in ListId |-> Contents(k)]
    BY ContentsAre DEF ReadingGives
  <1>2. Contents(l) = c[l]
    BY <1>1, Zenon
  <1>3. c[l] \in Seq(Node) /\ list[l] = Ends(c[l])
        /\ \A i, j \in 1..Len(c[l]) : c[l][i] = c[l][j] => i = j
    BY Zenon DEF Represents, Distinct
  <1> DEFINE s == c[l]
  <1>4. list[l].HEAD = Elem(s, 1) /\ list[l].TAIL = Elem(s, Len(s)) /\ list[l].count = Len(s)
    BY <1>3 DEF Ends
  <1>5. InList(l) = {s[i] : i \in 1..Len(s)}
    BY <1>2, <1>4, Zenon DEF InList
  <1> HIDE DEF s
  <1>6. s \in Seq(Node) /\ \A i, j \in 1..Len(s) : s[i] = s[j] => i = j
    BY <1>3 DEF s
  <1>7. \A i \in 1..Len(s) : s[i] \in Node /\ s[i] # NULL
    BY <1>6, NullAssumption
  <1>8. /\ Cardinality({s[i] : i \in 1..Len(s)}) = Len(s)
        /\ Len(s) <= Cardinality(Node) /\ Cardinality(Node) \in Nat
    BY <1>6, NodesCounted
  <1> QED BY <1>2, <1>4, <1>5, <1>6, <1>7, <1>8, Zenon DEF s

\* The routines that only read find what the sequence has there.
LEMMA NthIs ==
  ASSUME NEW c, Represents(c), NEW l \in ListId, NEW k \in Int
  PROVE  lstNth(l, k) = Elem(c[l], k)
  <1> DEFINE s == c[l]
  <1>1. /\ s \in Seq(Node) /\ list[l].count = Len(s)
        /\ list[l].HEAD = Elem(s, 1) /\ list[l].TAIL = Elem(s, Len(s))
    BY ListIs
  <1>2. Forward(s) /\ Backward(s)
    BY Zenon DEF Represents
  <1> SUFFICES lstNth(l, k) = Elem(s, k)
    OBVIOUS
  <1> HIDE DEF s
  <1>3. CASE k < 1 \/ k > Len(s)
    BY <1>1, <1>3 DEF lstNth, Elem
  <1>4. CASE k \in 1..Len(s) /\ k < Len(s) \div 2
    <2>1. lstNth(l, k) = Follow(next, Elem(s, 1), k - 1)
      BY <1>1, <1>4 DEF lstNth
    <2>2. Follow(next, Elem(s, 1), k - 1) = Elem(s, 1 + (k - 1))
      <3>1. k - 1 \in Nat /\ 1 \in Nat \ {0}
        BY <1>4
      <3> QED BY <1>1, <1>2, <3>1, FollowNext DEF Forward
    <2> QED BY <2>1, <2>2
  <1>5. CASE k \in 1..Len(s) /\ ~ (k < Len(s) \div 2)
    <2>1. lstNth(l, k) = Follow(previous, Elem(s, Len(s)), Len(s) - k)
      BY <1>1, <1>5 DEF lstNth
    <2>2. Follow(previous, Elem(s, Len(s)), Len(s) - k) = Elem(s, Len(s) - (Len(s) - k))
      <3>1. Len(s) - k \in Nat /\ Len(s) \in Int /\ Len(s) <= Len(s)
        BY <1>1, <1>5
      <3> QED BY <1>1, <1>2, <3>1, FollowPrevious DEF Backward
    <2>3. Len(s) - (Len(s) - k) = k
      BY <1>1
    <2> QED BY <2>1, <2>2, <2>3
  <1>6. Len(s) \in Nat
    BY <1>1
  <1> QED BY <1>3, <1>4, <1>5, <1>6

\* Stepping from a node of a list, either way and off both ends.
LEMMA NStepIs ==
  ASSUME NEW c, Represents(c), NEW l \in ListId, NEW i \in 1..Len(c[l]), NEW d \in Int
  PROVE  lstNStep(c[l][i], d) = Elem(c[l], i + d)
  <1> DEFINE s == c[l]
  <1>1. s \in Seq(Node) /\ i \in 1..Len(s)
    BY ListIs
  <1>2. Forward(s) /\ Backward(s)
    BY Zenon DEF Represents
  <1> HIDE DEF s
  <1>3. s[i] = Elem(s, i)
    BY <1>1 DEF Elem
  <1>4. CASE d < 0
    <2>1. lstNStep(s[i], d) = Follow(previous, Elem(s, i), -d)
      BY <1>3, <1>4 DEF lstNStep
    <2>2. Follow(previous, Elem(s, i), -d) = Elem(s, i - (-d))
      <3>1. -d \in Nat /\ i \in Int /\ i <= Len(s)
        BY <1>1, <1>4
      <3> QED BY <1>1, <1>2, <3>1, FollowPrevious DEF Backward
    <2>3. i - (-d) = i + d
      BY <1>1
    <2> QED BY <2>1, <2>2, <2>3 DEF s
  <1>5. CASE d >= 0
    <2>1. lstNStep(s[i], d) = Follow(next, Elem(s, i), d)
      BY <1>3, <1>5 DEF lstNStep
    <2>2. Follow(next, Elem(s, i), d) = Elem(s, i + d)
      <3>1. d \in Nat /\ i \in Nat \ {0}
        BY <1>1, <1>5
      <3> QED BY <1>1, <1>2, <3>1, FollowNext DEF Forward
    <2> QED BY <2>1, <2>2 DEF s
  <1> QED BY <1>4, <1>5

\* The place of a node, -1 if it is not there.
LEMMA FindIs ==
  ASSUME NEW c, Represents(c), NEW l \in ListId, NEW n \in Node
  PROVE  /\ n \notin InList(l) => lstFind(l, n) = -1
         /\ \A i \in 1..Len(c[l]) : c[l][i] = n => lstFind(l, n) = i
  <1> DEFINE s == c[l]
             places == {k \in 1..Cardinality(Node) : Follow(next, lstFirst(l), k - 1) = n}
  <1>1. /\ s \in Seq(Node) /\ list[l].HEAD = Elem(s, 1)
        /\ InList(l) = {s[i] : i \in 1..Len(s)}
        /\ \A i, j \in 1..Len(s) : s[i] = s[j] => i = j
        /\ Len(s) <= Cardinality(Node) /\ Cardinality(Node) \in Nat
    BY ListIs
  <1>2. Forward(s)
    BY Zenon DEF Represents
  <1> HIDE DEF s
  <1>3. ASSUME NEW k \in 1..Cardinality(Node)
        PROVE  Follow(next, lstFirst(l), k - 1) = Elem(s, k)
    <2>1. k - 1 \in Nat /\ 1 \in Nat \ {0} /\ 1 + (k - 1) = k
      BY <1>1
    <2>2. \A i \in 1..Len(s) : next[s[i]] = Elem(s, i + 1)
      BY <1>2 DEF Forward
    <2>3. s \in Seq(Node)
      BY <1>1
    <2>4. Follow(next, Elem(s, 1), k - 1) = Elem(s, 1 + (k - 1))
      BY <2>1, <2>2, <2>3, FollowNext
    <2> QED BY <1>1, <2>1, <2>4 DEF lstFirst
  <1>4. places = {k \in 1..Cardinality(Node) : Elem(s, k) = n}
    BY <1>3
  <1>5. lstFind(l, n) = IF places = {} THEN -1 ELSE Min(places)
    BY DEF lstFind
  <1> HIDE DEF places
  <1>6. ASSUME n \notin InList(l) PROVE lstFind(l, n) = -1
    <2>1. places = {}
      BY <1>1, <1>4, <1>6, NullAssumption DEF Elem
    <2> QED BY <1>5, <2>1
  <1>7. ASSUME NEW i \in 1..Len(s), s[i] = n PROVE lstFind(l, n) = i
    <2>1. places = {i}
      BY <1>1, <1>4, <1>7, NullAssumption DEF Elem
    <2>2. Min({i}) = i
      BY DEF Min
    <2> QED BY <1>5, <2>1, <2>2
  <1> QED BY <1>6, <1>7 DEF s

\* So every search is right, and the lists are well formed.
LEMMA SearchesAre ==
  ASSUME NEW c, Represents(c), NEW l \in ListId
  PROVE  SearchesRight(l)
  <1> DEFINE s == c[l]
             Nth(k) == IF k \in DOMAIN s THEN s[k] ELSE NULL
             far == Cardinality(Node) + 1
  <1>1. /\ s \in Seq(Node) /\ Contents(l) = s
        /\ list[l].HEAD = Elem(s, 1) /\ list[l].TAIL = Elem(s, Len(s))
        /\ list[l].count = Len(s) /\ InList(l) = {s[i] : i \in 1..Len(s)}
        /\ \A i \in 1..Len(s) : s[i] \in Node
        /\ Cardinality(InList(l)) = Len(s) /\ Cardinality(Node) \in Nat
    BY ListIs
  <1>2. \A k \in Int : lstNth(l, k) = Elem(s, k)
    BY NthIs
  <1>3. \A i \in 1..Len(s), d \in Int : lstNStep(s[i], d) = Elem(s, i + d)
    BY NStepIs
  <1>4. /\ \A n \in Node \ InList(l) : lstFind(l, n) = -1
        /\ \A i \in 1..Len(s) : lstFind(l, s[i]) = i
    BY <1>1, FindIs
  <1>5. \A i \in 1..Len(s) : next[s[i]] = Elem(s, i + 1) /\ previous[s[i]] = Elem(s, i - 1)
    BY Zenon DEF Represents, Forward, Backward
  <1> HIDE DEF s
  <1>6. DOMAIN s = 1..Len(s) /\ \A k : Nth(k) = Elem(s, k)
    <2>1. s \in Seq(Node)
      BY <1>1
    <2>2. DOMAIN s = 1..Len(s)
      BY <2>1
    <2> QED BY <2>2, Zenon DEF Elem
  <1> HIDE DEF Nth
  <1>7. lstCount(l) = Cardinality(InList(l)) /\ lstFirst(l) = Nth(1) /\ lstLast(l) = Nth(Len(s))
    BY <1>1, <1>6 DEF lstCount, lstFirst, lstLast
  <1>8. \A k \in -1..far : lstNth(l, k) = Nth(k)
    BY <1>2, <1>6
  <1>9. \A i \in DOMAIN s :
          /\ lstFind(l, s[i]) = i
          /\ lstNext(s[i]) = Nth(i + 1) /\ lstPrevious(s[i]) = Nth(i - 1)
    BY <1>4, <1>5, <1>6 DEF lstNext, lstPrevious
  <1>10. \A i \in DOMAIN s : \A d \in -far..far : lstNStep(s[i], d) = Nth(i + d)
    BY <1>3, <1>6
  <1> HIDE DEF far
  <1>11. \A i \in DOMAIN s :
           /\ lstFind(l, s[i]) = i
           /\ lstNext(s[i]) = Nth(i + 1) /\ lstPrevious(s[i]) = Nth(i - 1)
           /\ \A d \in -far..far : lstNStep(s[i], d) = Nth(i + d)
    BY <1>9, <1>10, Zenon
  <1> QED BY <1>1, <1>4, <1>7, <1>8, <1>11, Zenon DEF SearchesRight, Nth, far

\* And so the lists are well formed.
LEMMA WellFormedIs ==
  ASSUME NEW c, Represents(c)
  PROVE  WellFormed
  <1>1. \A l \in ListId : InList(l) = {c[l][i] : i \in 1..Len(c[l])}
    BY ListIs
  <1>2. \A l \in ListId : InList(l) \cap freed = {}
    BY <1>1 DEF Represents
  <1>3. \A l, m \in ListId : l # m => InList(l) \cap InList(m) = {}
    <2> TAKE l, m \in ListId
    <2> HAVE l # m
    <2>1. \A i \in 1..Len(c[l]), j \in 1..Len(c[m]) : c[l][i] # c[m][j]
      BY Zenon DEF Represents, Distinct
    <2> QED BY <1>1, <2>1
  <1> QED BY <1>2, <1>3, SearchesAre, Zenon DEF WellFormed

-----------------------------------------------------------------------------
\* What each routine does to the sequences.

\* The links are pointers, and every list has a descriptor.
Typed ==
  /\ next \in [Node -> Pointer] /\ previous \in [Node -> Pointer]
  /\ list \in [ListId -> [HEAD : Pointer, TAIL : Pointer, count : Int]]

\* x is in none of the lists.
Outside(x, c) == \A l \in ListId : \A i \in 1..Len(c[l]) : c[l][i] # x

\* A list whose nodes are left alone stays as it was.
LEMMA KeptList ==
  ASSUME NEW c, Represents(c), NEW m \in ListId, list'[m] = list[m],
         \A k \in 1..Len(c[m]) : /\ next'[c[m][k]] = next[c[m][k]]
                                 /\ previous'[c[m][k]] = previous[c[m][k]]
  PROVE  Forward(c[m])' /\ Backward(c[m])' /\ list'[m] = Ends(c[m])
  <1>1. /\ \A k \in 1..Len(c[m]) : next[c[m][k]] = Elem(c[m], k + 1)
        /\ \A k \in 1..Len(c[m]) : previous[c[m][k]] = Elem(c[m], k - 1)
        /\ list[m] = Ends(c[m])
    BY Zenon DEF Represents, Forward, Backward
  <1> QED BY <1>1, Zenon DEF Forward, Backward

\* One list gets other nodes, none of them twice and none from another list.
LEMMA DistinctOne ==
  ASSUME NEW c \in [ListId -> Seq(Node)], Distinct(c), NEW l \in ListId, NEW t \in Seq(Node),
         \A j, k \in 1..Len(t) : t[j] = t[k] => j = k,
         \A m \in ListId \ {l} : \A k \in 1..Len(c[m]), j \in 1..Len(t) : c[m][k] # t[j]
  PROVE  Distinct([c EXCEPT ![l] = t])
  <1> DEFINE d == [c EXCEPT ![l] = t]
  <1>1. d[l] = t /\ \A m \in ListId \ {l} : d[m] = c[m]
    OBVIOUS
  <1> HIDE DEF d
  <1>2. ASSUME NEW m \in ListId, NEW n \in ListId, NEW i \in 1..Len(d[m]),
               NEW j \in 1..Len(d[n]), d[m][i] = d[n][j]
        PROVE  m = n /\ i = j
    <2>1. CASE m = l /\ n = l
      BY <1>1, <1>2, <2>1, Zenon
    <2>2. CASE m = l /\ n # l
      <3>1. d[m] = t /\ d[n] = c[n] /\ n \in ListId \ {l}
        BY <1>1, <2>2
      <3>2. i \in 1..Len(t) /\ j \in 1..Len(c[n]) /\ c[n][j] = t[i]
        BY <1>2, <3>1
      <3> QED BY <3>1, <3>2
    <2>3. CASE m # l /\ n = l
      <3>1. d[n] = t /\ d[m] = c[m] /\ m \in ListId \ {l}
        BY <1>1, <2>3
      <3>2. j \in 1..Len(t) /\ i \in 1..Len(c[m]) /\ c[m][i] = t[j]
        BY <1>2, <3>1
      <3> QED BY <3>1, <3>2
    <2>4. CASE m # l /\ n # l
      <3>1. d[m] = c[m] /\ d[n] = c[n]
        BY <1>1, <2>4
      <3>2. i \in 1..Len(c[m]) /\ j \in 1..Len(c[n]) /\ c[m][i] = c[n][j]
        BY <1>2, <3>1
      <3> QED BY <3>2 DEF Distinct
    <2> QED BY <2>1, <2>2, <2>3, <2>4
  <1>3. Distinct(d)
    BY <1>2, Zenon DEF Distinct
  <1> QED BY <1>3 DEF d

\* What changes in the representation when one list gets other nodes.
LEMMA RepresentOne ==
  ASSUME NEW c, Represents(c), NEW l \in ListId, NEW t \in Seq(Node),
         \A j, k \in 1..Len(t) : t[j] = t[k] => j = k,
         \A m \in ListId \ {l} : \A k \in 1..Len(c[m]), j \in 1..Len(t) : c[m][k] # t[j],
         \A k \in 1..Len(t) : t[k] \notin freed',
         \A m \in ListId \ {l} : \A k \in 1..Len(c[m]) : c[m][k] \notin freed',
         Forward(t)', Backward(t)', list'[l] = Ends(t),
         \A m \in ListId \ {l} : Forward(c[m])' /\ Backward(c[m])' /\ list'[m] = Ends(c[m])
  PROVE  Represents([c EXCEPT ![l] = t])'
  <1> DEFINE d == [c EXCEPT ![l] = t]
  <1>1. c \in [ListId -> Seq(Node)] /\ Distinct(c)
    BY Zenon DEF Represents
  <1>2. d \in [ListId -> Seq(Node)] /\ d[l] = t /\ \A m \in ListId \ {l} : d[m] = c[m]
    BY <1>1
  <1>3. Distinct(d)
    BY <1>1, DistinctOne
  <1> HIDE DEF d
  <1>4. \A m \in ListId : Forward(d[m])' /\ Backward(d[m])' /\ list'[m] = Ends(d[m])
    BY <1>2, Zenon
  <1>5. \A m \in ListId : \A k \in 1..Len(d[m]) : d[m][k] \notin freed'
    BY <1>2, Zenon
  <1>6. Represents(d)'
    BY <1>2, <1>3, <1>4, <1>5, Zenon DEF Represents
  <1> QED BY <1>6 DEF d

\* One more node, anywhere in a list.
LEMMA InsertLinks ==
  ASSUME Typed, NEW c, Represents(c), NEW l \in ListId, NEW i \in 0..Len(c[l]),
         NEW x \in Node, Outside(x, c), lstInsert(l, Elem(c[l], i), x)
  PROVE  /\ \A y \in Node : /\ next'[y] = IF y = x THEN Elem(c[l], i + 1)
                                          ELSE IF y = Elem(c[l], i) THEN x ELSE next[y]
                            /\ previous'[y] = IF y = x THEN Elem(c[l], i)
                                              ELSE IF y = Elem(c[l], i + 1) THEN x
                                              ELSE previous[y]
         /\ \A m \in ListId \ {l} : list'[m] = list[m]
         /\ list'[l] = [HEAD |-> IF i = 0 THEN x ELSE Elem(c[l], 1),
                        TAIL |-> IF i = Len(c[l]) THEN x ELSE Elem(c[l], Len(c[l])),
                        count |-> Len(c[l]) + 1]
         /\ UNCHANGED freed
  <1> DEFINE s == c[l]
             prev == Elem(s, i)
             after == Elem(s, i + 1)
  <1>1. /\ s \in Seq(Node)
        /\ list[l].HEAD = Elem(s, 1) /\ list[l].TAIL = Elem(s, Len(s))
        /\ list[l].count = Len(s)
        /\ \A k \in 1..Len(s) : s[k] \in Node /\ s[k] # NULL /\ s[k] # x
    BY ListIs DEF Outside
  <1>2. \A k \in 1..Len(s) : next[s[k]] = Elem(s, k + 1)
    BY Zenon DEF Represents, Forward
  <1> HIDE DEF s
  <1>3. /\ prev \in Pointer /\ after \in Pointer /\ prev # x /\ after # x
        /\ prev = NULL <=> i = 0
        /\ after = NULL <=> i = Len(s)
    BY <1>1, NullAssumption DEF Elem, Pointer, s
  <1>4. (IF prev = NULL THEN list[l].HEAD ELSE next[prev]) = after
    BY <1>1, <1>2, <1>3 DEF Elem, s
  <1> HIDE DEF prev, after
  <1>5. /\ next' = Store(Store(next, prev, x), x, after)
        /\ previous' = Store(Store(previous, after, x), x, prev)
        /\ list' = [list EXCEPT ![l] =
             [HEAD |-> IF prev = NULL THEN x ELSE list[l].HEAD,
              TAIL |-> IF after = NULL THEN x ELSE list[l].TAIL,
              count |-> list[l].count + 1]]
        /\ UNCHANGED freed
    BY <1>4, Zenon DEF lstInsert, prev, s
  <1>6. \A y \in Node : /\ next'[y] = IF y = x THEN after ELSE IF y = prev THEN x ELSE next[y]
                        /\ previous'[y] = IF y = x THEN prev
                                          ELSE IF y = after THEN x ELSE previous[y]
    BY <1>3, <1>5, NullAssumption DEF Store, Typed, Pointer
  <1>7. /\ \A m \in ListId \ {l} : list'[m] = list[m]
        /\ list'[l] = [HEAD |-> IF i = 0 THEN x ELSE Elem(s, 1),
                       TAIL |-> IF i = Len(s) THEN x ELSE Elem(s, Len(s)),
                       count |-> Len(s) + 1]
    BY <1>1, <1>3, <1>5 DEF Typed
  <1> QED BY <1>5, <1>6, <1>7 DEF prev, after, s

\* The list then has the new node in that place.
LEMMA InsertStep ==
  ASSUME Typed, NEW c, Represents(c), NEW l \in ListId, NEW i \in 0..Len(c[l]),
         NEW x \in Node, x \notin freed, Outside(x, c), lstInsert(l, Elem(c[l], i), x)
  PROVE  Represents([c EXCEPT ![l] = Abstract!InsertAt(c[l], i + 1, x)])'
  <1> DEFINE s == c[l]
             t == Abstract!InsertAt(s, i + 1, x)
  <1>1. /\ s \in Seq(Node) /\ Len(s) \in Nat /\ i \in Nat /\ i <= Len(s)
        /\ \A k \in 1..Len(s) : s[k] \in Node /\ s[k] # NULL
        /\ \A j, k \in 1..Len(s) : s[j] = s[k] => j = k
    BY ListIs
  <1>2. \A k \in 1..Len(s) : s[k] # x
    BY Zenon DEF Outside
  <1>3. /\ t \in Seq(Node) /\ Len(t) = Len(s) + 1
        /\ \A k \in 1..Len(s) + 1 :
             t[k] = IF k <= i THEN s[k] ELSE IF k = i + 1 THEN x ELSE s[k - 1]
    <2>1. s \in Seq(Node) /\ i \in 0..Len(s)
      BY <1>1
    <2> HIDE DEF s
    <2>2. Inserted(t, s, i, x)
      BY <2>1, InsertAtIs, Zenon
    <2> QED BY <2>2, Zenon DEF Inserted
  <1>4. /\ \A y \in Node : /\ next'[y] = IF y = x THEN Elem(s, i + 1)
                                         ELSE IF y = Elem(s, i) THEN x ELSE next[y]
                           /\ previous'[y] = IF y = x THEN Elem(s, i)
                                             ELSE IF y = Elem(s, i + 1) THEN x
                                             ELSE previous[y]
        /\ \A m \in ListId \ {l} : list'[m] = list[m]
        /\ list'[l] = [HEAD |-> IF i = 0 THEN x ELSE Elem(s, 1),
                       TAIL |-> IF i = Len(s) THEN x ELSE Elem(s, Len(s)),
                       count |-> Len(s) + 1]
        /\ UNCHANGED freed
    BY InsertLinks
  <1>5. \A k \in 1..Len(s) : next[s[k]] = Elem(s, k + 1) /\ previous[s[k]] = Elem(s, k - 1)
    BY Zenon DEF Represents, Forward, Backward
  <1>6. \A m \in ListId \ {l} : \A k \in 1..Len(c[m]) :
          /\ c[m][k] # x /\ c[m][k] \notin freed
          /\ \A j \in 1..Len(s) : c[m][k] # s[j]
    BY Zenon DEF Represents, Distinct, Outside
  <1>7. \A k \in 1..Len(s) : s[k] \notin freed
    BY Zenon DEF Represents
  <1> HIDE DEF s, t
  <1>8. \A m \in ListId \ {l} : Forward(c[m])' /\ Backward(c[m])' /\ list'[m] = Ends(c[m])
    <2> TAKE m \in ListId \ {l}
    <2>1. \A k \in 1..Len(c[m]) : c[m][k] \in Node /\ c[m][k] # NULL
      BY ListIs
    <2>2. \A k \in 1..Len(c[m]) : /\ next'[c[m][k]] = next[c[m][k]]
                                  /\ previous'[c[m][k]] = previous[c[m][k]]
      BY <1>4, <1>6, <2>1 DEF Elem
    <2> QED BY <1>4, <2>2, KeptList
  \* The places in t, and the links as they are now.
  <1>9. \A k \in Int : Elem(t, k) =
          IF k <= i THEN Elem(s, k) ELSE IF k = i + 1 THEN x ELSE Elem(s, k - 1)
    BY <1>1, <1>3 DEF Elem
  <1>10. \A k \in 1..Len(s) : next'[s[k]] = IF k = i THEN x ELSE Elem(s, k + 1)
    <2> TAKE k \in 1..Len(s)
    <2>1. s[k] = Elem(s, i) <=> k = i
      BY <1>1 DEF Elem
    <2> QED BY <1>1, <1>2, <1>4, <1>5, <2>1
  <1>11. \A k \in 1..Len(s) : previous'[s[k]] = IF k = i + 1 THEN x ELSE Elem(s, k - 1)
    <2> TAKE k \in 1..Len(s)
    <2>1. s[k] = Elem(s, i + 1) <=> k = i + 1
      BY <1>1 DEF Elem
    <2> QED BY <1>1, <1>2, <1>4, <1>5, <2>1
  <1>12. next'[x] = Elem(s, i + 1) /\ previous'[x] = Elem(s, i)
    BY <1>4
  <1>13. ASSUME NEW k \in 1..Len(t)
         PROVE  /\ next'[t[k]] = Elem(t, k + 1) /\ previous'[t[k]] = Elem(t, k - 1)
                /\ t[k] \notin freed'
                /\ \A m \in ListId \ {l} : \A j \in 1..Len(c[m]) : c[m][j] # t[k]
                /\ \/ k = i + 1 /\ t[k] = x
                   \/ k <= i /\ k \in 1..Len(s) /\ t[k] = s[k]
                   \/ k > i + 1 /\ k - 1 \in 1..Len(s) /\ t[k] = s[k - 1]
    <2>1. CASE k <= i
      <3>0. k \in 1..Len(s) + 1 /\ k \in 1..Len(s)
        BY <1>1, <1>3, <2>1
      <3>1. t[k] = s[k] /\ k \in 1..Len(s)
        BY <1>3, <2>1, <3>0
      <3>2. Elem(t, k + 1) = IF k = i THEN x ELSE Elem(s, k + 1)
        BY <1>1, <1>9, <2>1
      <3>3. Elem(t, k - 1) = Elem(s, k - 1)
        BY <1>1, <1>9, <2>1
      <3>4. k # i + 1
        BY <1>1, <2>1
      <3> QED BY <1>4, <1>6, <1>7, <1>10, <1>11, <3>1, <2>1, <3>2, <3>3, <3>4
    <2>2. CASE k = i + 1
      <3>0. k \in 1..Len(s) + 1 /\ ~ (k <= i)
        BY <1>1, <1>3, <2>2
      <3>1. t[k] = x
        BY <1>3, <2>2, <3>0
      <3>2. Elem(t, k + 1) = Elem(s, i + 1) /\ Elem(t, k - 1) = Elem(s, i)
        BY <1>1, <1>9, <2>2
      <3> QED BY <1>4, <1>6, <1>12, <2>2, <3>1, <3>2
    <2>3. CASE k > i + 1
      <3>0. k \in 1..Len(s) + 1 /\ ~ (k <= i) /\ k # i + 1
        BY <1>1, <1>3, <2>3
      <3>1. t[k] = s[k - 1] /\ k - 1 \in 1..Len(s)
        <4>1. t[k] = s[k - 1]
          BY <1>3, <3>0
        <4>2. k - 1 \in 1..Len(s)
          BY <1>1, <3>0
        <4> QED BY <4>1, <4>2
      <3>2. Elem(t, k + 1) = Elem(s, k)
        BY <1>1, <1>9, <2>3
      <3>3. Elem(t, k - 1) = IF k - 1 = i + 1 THEN x ELSE Elem(s, (k - 1) - 1)
        BY <1>1, <1>9, <2>3
      <3>4. k - 1 # i /\ (k - 1) + 1 = k
        BY <1>1, <2>3
      <3> QED BY <1>4, <1>6, <1>7, <1>10, <1>11, <3>1, <2>3, <3>2, <3>3, <3>4
    <2> QED BY <1>1, <1>3, <2>1, <2>2, <2>3
  <1>14. \A j, k \in 1..Len(t) : t[j] = t[k] => j = k
    <2> TAKE j, k \in 1..Len(t)
    <2> HAVE t[j] = t[k]
    <2>1. \/ j = i + 1 /\ t[j] = x
          \/ j <= i /\ j \in 1..Len(s) /\ t[j] = s[j]
          \/ j > i + 1 /\ j - 1 \in 1..Len(s) /\ t[j] = s[j - 1]
      BY <1>13
    <2>2. \/ k = i + 1 /\ t[k] = x
          \/ k <= i /\ k \in 1..Len(s) /\ t[k] = s[k]
          \/ k > i + 1 /\ k - 1 \in 1..Len(s) /\ t[k] = s[k - 1]
      BY <1>13
    <2>3. CASE j = i + 1 \/ k = i + 1
      BY <1>1, <1>2, <2>1, <2>2, <2>3, SMTT(20)
    <2>4. CASE j # i + 1 /\ k # i + 1
      <3>1. PICK u \in 1..Len(s) : t[j] = s[u] /\ ((u = j /\ j <= i) \/ (u = j - 1 /\ j > i + 1))
        BY <2>1, <2>4
      <3>2. PICK v \in 1..Len(s) : t[k] = s[v] /\ ((v = k /\ k <= i) \/ (v = k - 1 /\ k > i + 1))
        BY <2>2, <2>4
      <3>3. u = v
        BY <1>1, <3>1, <3>2
      <3> QED BY <1>1, <1>3, <3>1, <3>2, <3>3
    <2> QED BY <2>3, <2>4
  <1>15. list'[l] = Ends(t)
    <2>1. Elem(t, 1) = IF i = 0 THEN x ELSE Elem(s, 1)
      BY <1>1, <1>9
    <2>2. Elem(t, Len(t)) = IF i = Len(s) THEN x ELSE Elem(s, Len(s))
      BY <1>1, <1>3, <1>9
    <2> QED BY <1>3, <1>4, <2>1, <2>2 DEF Ends
  <1>16. Forward(t)' /\ Backward(t)'
    BY <1>13, Zenon DEF Forward, Backward
  <1>17. Represents([c EXCEPT ![l] = t])'
    <2>1. t \in Seq(Node)
      BY <1>3
    <2>2. \A m \in ListId \ {l} : \A k \in 1..Len(c[m]), j \in 1..Len(t) : c[m][k] # t[j]
      BY <1>13
    <2>3. \A k \in 1..Len(t) : t[k] \notin freed'
      BY <1>13
    <2>4. \A m \in ListId \ {l} : \A k \in 1..Len(c[m]) : c[m][k] \notin freed'
      BY <1>4, <1>6
    <2> QED BY <1>8, <1>14, <1>15, <1>16, <2>1, <2>2, <2>3, <2>4, RepresentOne, Zenon
  <1> QED BY <1>17 DEF t, s

\* The links and the ends of a list that a piece is cut out of.
LEMMA CutLinks ==
  ASSUME NEW s \in Seq(Node), \A h, k \in 1..Len(s) : s[h] = s[k] => h = k,
         NEW i \in 1..Len(s), NEW j \in i..Len(s),
         \A k \in 1..Len(s) : k < i \/ k > j =>
           /\ next'[s[k]] = IF k = i - 1 THEN Elem(s, j + 1) ELSE Elem(s, k + 1)
           /\ previous'[s[k]] = IF k = j + 1 THEN Elem(s, i - 1) ELSE Elem(s, k - 1)
  PROVE  /\ Forward(Without(s, i, j))' /\ Backward(Without(s, i, j))'
         /\ Ends(Without(s, i, j)) =
              [HEAD |-> IF i = 1 THEN Elem(s, j + 1) ELSE Elem(s, 1),
               TAIL |-> IF j = Len(s) THEN Elem(s, i - 1) ELSE Elem(s, Len(s)),
               count |-> Len(s) - (j - i + 1)]
         /\ \A h, k \in 1..Len(Without(s, i, j)) :
              Without(s, i, j)[h] = Without(s, i, j)[k] => h = k
         /\ \A k \in 1..Len(Without(s, i, j)) :
              \E m \in 1..Len(s) : Without(s, i, j)[k] = s[m] /\ (m < i \/ m > j)
  <1> DEFINE t == Without(s, i, j)
             n == j - i + 1
  <1>1. /\ t \in Seq(Node) /\ Len(t) = Len(s) - n
        /\ \A k \in 1..Len(s) - n : t[k] = IF k < i THEN s[k] ELSE s[k + n]
    BY WithoutIs
  <1>2. /\ n \in Nat /\ n >= 1 /\ i \in Nat /\ i >= 1 /\ Len(s) \in Nat /\ i + n <= Len(s) + 1
        /\ i + n = j + 1 /\ j = i + n - 1
    OBVIOUS
  <1> HIDE DEF t, n
  <1>3. \A k \in Int : Elem(t, k) = IF k < i THEN Elem(s, k) ELSE Elem(s, k + n)
    <2> TAKE k \in Int
    <2>1. CASE k < i
      BY <1>1, <1>2, <2>1 DEF Elem
    <2>2. CASE k >= i
      <3>1. k \in 1..Len(t) <=> k + n \in 1..Len(s)
        BY <1>1, <1>2, <2>2
      <3>2. k \in 1..Len(t) => t[k] = s[k + n]
        BY <1>1, <1>2, <2>2
      <3> QED BY <2>2, <3>1, <3>2 DEF Elem
    <2> QED BY <1>2, <2>1, <2>2
  <1>4. ASSUME NEW k \in 1..Len(t)
        PROVE  /\ next'[t[k]] = Elem(t, k + 1) /\ previous'[t[k]] = Elem(t, k - 1)
               /\ \/ k < i /\ k \in 1..Len(s) /\ t[k] = s[k]
                  \/ k >= i /\ k + n \in 1..Len(s) /\ t[k] = s[k + n] /\ k + n > j
    <2>1. CASE k < i
      <3>1. t[k] = s[k] /\ k \in 1..Len(s)
        BY <1>1, <1>2, <2>1
      <3>2. Elem(t, k + 1) = IF k = i - 1 THEN Elem(s, j + 1) ELSE Elem(s, k + 1)
        <4>1. CASE k = i - 1
          BY <1>2, <1>3, <4>1
        <4>2. CASE k # i - 1
          BY <1>2, <1>3, <2>1, <4>2
        <4> QED BY <4>1, <4>2
      <3>3. Elem(t, k - 1) = Elem(s, k - 1) /\ k # j + 1
        <4>1. k - 1 \in Int /\ k - 1 < i /\ k # j + 1
          BY <1>2, <2>1
        <4> QED BY <1>3, <4>1, Zenon
      <3> QED BY <2>1, <3>1, <3>2, <3>3
    <2>2. CASE k >= i
      <3>1. t[k] = s[k + n] /\ k + n \in 1..Len(s) /\ k + n > j
        BY <1>1, <1>2, <2>2, SMTT(20)
      <3>2. Elem(t, k + 1) = Elem(s, (k + n) + 1) /\ k + n # i - 1
        <4>1. /\ k + 1 \in Int /\ ~ (k + 1 < i) /\ (k + 1) + n = (k + n) + 1
              /\ k + n # i - 1
          BY <1>2, <2>2
        <4>2. Elem(t, k + 1) = Elem(s, (k + 1) + n)
          BY <1>3, <4>1, Zenon
        <4> QED BY <4>1, <4>2, Zenon
      <3>3. Elem(t, k - 1) = IF k + n = j + 1 THEN Elem(s, i - 1) ELSE Elem(s, (k + n) - 1)
        <4>1. CASE k + n = j + 1
          BY <1>2, <1>3, <4>1
        <4>2. CASE k + n # j + 1
          BY <1>2, <1>3, <2>2, <4>2
        <4> QED BY <4>1, <4>2
      <3> QED BY <2>2, <3>1, <3>2, <3>3
    <2> QED BY <1>1, <1>2, <2>1, <2>2
  <1>5. Forward(t)' /\ Backward(t)'
    BY <1>4, Zenon DEF Forward, Backward
  <1>6. \A h, k \in 1..Len(t) : t[h] = t[k] => h = k
    <2> TAKE h, k \in 1..Len(t)
    <2> HAVE t[h] = t[k]
    <2>1. PICK u \in 1..Len(s) : t[h] = s[u] /\ ((u = h /\ h < i) \/ (u = h + n /\ h >= i))
      BY <1>4
    <2>2. PICK v \in 1..Len(s) : t[k] = s[v] /\ ((v = k /\ k < i) \/ (v = k + n /\ k >= i))
      BY <1>4
    <2>3. u = v
      BY <2>1, <2>2
    <2> QED BY <1>2, <2>1, <2>2, <2>3, SMTT(20)
  <1>7. \A k \in 1..Len(t) : \E m \in 1..Len(s) : t[k] = s[m] /\ (m < i \/ m > j)
    BY <1>4
  <1>8. Ends(t) = [HEAD |-> IF i = 1 THEN Elem(s, j + 1) ELSE Elem(s, 1),
                   TAIL |-> IF j = Len(s) THEN Elem(s, i - 1) ELSE Elem(s, Len(s)),
                   count |-> Len(s) - n]
    <2>1. Elem(t, 1) = IF i = 1 THEN Elem(s, j + 1) ELSE Elem(s, 1)
      <3>1. 1 \in Int /\ (1 < i <=> i # 1) /\ (i = 1 => 1 + n = j + 1)
        BY <1>2
      <3> QED BY <1>3, <3>1, Zenon
    <2>2. Elem(t, Len(t)) = IF j = Len(s) THEN Elem(s, i - 1) ELSE Elem(s, Len(s))
      <3>1. /\ Len(t) \in Int /\ (Len(t) < i <=> j = Len(s))
            /\ (j = Len(s) => Len(t) = i - 1)
            /\ Len(t) + n = Len(s)
        <4>1. Len(t) = Len(s) - n
          BY <1>1
        <4>2. ASSUME NEW a \in Int, NEW b \in Int, a = b - n, i + n <= b + 1
              PROVE  /\ a < i <=> i + n - 1 = b
                     /\ i + n - 1 = b => a = i - 1
                     /\ a + n = b
          BY <1>2, <4>2
        <4>3. Len(t) \in Int /\ Len(s) \in Int
          BY <1>1, <1>2
        <4> QED BY <1>2, <4>1, <4>2, <4>3
      <3> QED BY <1>3, <3>1, Zenon
    <2> QED BY <1>1, <2>1, <2>2 DEF Ends
  <1> QED BY <1>5, <1>6, <1>7, <1>8 DEF t, n

\* The nodes i to j of s are unlinked from the nodes before and after them.
CutOut(s, i, j) ==
  \A y \in Node : (\A k \in i..j : y # s[k]) =>
    /\ next'[y] = IF y = Elem(s, i - 1) THEN Elem(s, j + 1) ELSE next[y]
    /\ previous'[y] = IF y = Elem(s, j + 1) THEN Elem(s, i - 1) ELSE previous[y]

\* What that leaves: the rest of the list in order, all other lists alone.
Leaves(c, l, i, j) ==
  /\ Forward(Without(c[l], i, j))' /\ Backward(Without(c[l], i, j))'
  /\ \A h, k \in 1..Len(Without(c[l], i, j)) :
       Without(c[l], i, j)[h] = Without(c[l], i, j)[k] => h = k
  /\ \A k \in 1..Len(Without(c[l], i, j)) :
       \E m \in 1..Len(c[l]) : Without(c[l], i, j)[k] = c[l][m] /\ (m < i \/ m > j)
  /\ Ends(Without(c[l], i, j)) =
       [HEAD |-> IF i = 1 THEN Elem(c[l], j + 1) ELSE Elem(c[l], 1),
        TAIL |-> IF j = Len(c[l]) THEN Elem(c[l], i - 1) ELSE Elem(c[l], Len(c[l])),
        count |-> Len(c[l]) - (j - i + 1)]
  /\ \A m \in ListId \ {l} : \A k \in 1..Len(c[m]) :
       next'[c[m][k]] = next[c[m][k]] /\ previous'[c[m][k]] = previous[c[m][k]]

\* What a list is left with when a piece is cut out of it, and that the other lists
\* do not notice.
LEMMA CutAt ==
  ASSUME NEW c, Represents(c), NEW l \in ListId, NEW i \in 1..Len(c[l]), NEW j \in i..Len(c[l]),
         CutOut(c[l], i, j)
  PROVE  Leaves(c, l, i, j)
  <1> DEFINE s == c[l]
  <1>1. /\ s \in Seq(Node) /\ i \in 1..Len(s) /\ j \in i..Len(s)
        /\ \A k \in 1..Len(s) : s[k] \in Node /\ s[k] # NULL
        /\ \A h, k \in 1..Len(s) : s[h] = s[k] => h = k
    BY ListIs
  <1>2. \A k \in 1..Len(s) : next[s[k]] = Elem(s, k + 1) /\ previous[s[k]] = Elem(s, k - 1)
    BY Zenon DEF Represents, Forward, Backward
  <1>3. \A m \in ListId \ {l} : \A k \in 1..Len(c[m]) :
          c[m][k] \in Node /\ c[m][k] # NULL /\ \A h \in 1..Len(s) : c[m][k] # s[h]
    <2> TAKE m \in ListId \ {l}
    <2> TAKE k \in 1..Len(c[m])
    <2>1. c[m][k] \in Node /\ c[m][k] # NULL
      BY ListIs
    <2>2. \A h \in 1..Len(s) : c[m][k] # s[h]
      BY Zenon DEF Represents, Distinct
    <2> QED BY <2>1, <2>2
  <1>4. CutOut(s, i, j)
    OBVIOUS
  <1> HIDE DEF s
  <1>5. \A k \in 1..Len(s) : k < i \/ k > j =>
          /\ next'[s[k]] = IF k = i - 1 THEN Elem(s, j + 1) ELSE Elem(s, k + 1)
          /\ previous'[s[k]] = IF k = j + 1 THEN Elem(s, i - 1) ELSE Elem(s, k - 1)
    <2> TAKE k \in 1..Len(s)
    <2> HAVE k < i \/ k > j
    <2>1. \A h \in i..j : s[k] # s[h]
      BY <1>1
    <2>2. (s[k] = Elem(s, i - 1) <=> k = i - 1) /\ (s[k] = Elem(s, j + 1) <=> k = j + 1)
      BY <1>1 DEF Elem
    <2>3. s[k] \in Node
      BY <1>1
    <2> QED BY <1>2, <1>4, <2>1, <2>2, <2>3, Zenon DEF CutOut
  <1>6. ASSUME NEW m \in ListId \ {l}, NEW k \in 1..Len(c[m])
        PROVE  next'[c[m][k]] = next[c[m][k]] /\ previous'[c[m][k]] = previous[c[m][k]]
    <2>1. c[m][k] # Elem(s, i - 1) /\ c[m][k] # Elem(s, j + 1)
      BY <1>3 DEF Elem
    <2>2. \A h \in i..j : c[m][k] # s[h]
      <3>1. \A h \in i..j : h \in 1..Len(s)
        BY <1>1
      <3> QED BY <1>3, <3>1, Zenon
    <2> QED BY <1>3, <1>4, <2>1, <2>2, Zenon DEF CutOut
  <1>7. /\ Forward(Without(s, i, j))' /\ Backward(Without(s, i, j))'
        /\ Ends(Without(s, i, j)) =
              [HEAD |-> IF i = 1 THEN Elem(s, j + 1) ELSE Elem(s, 1),
               TAIL |-> IF j = Len(s) THEN Elem(s, i - 1) ELSE Elem(s, Len(s)),
               count |-> Len(s) - (j - i + 1)]
        /\ \A h, k \in 1..Len(Without(s, i, j)) :
             Without(s, i, j)[h] = Without(s, i, j)[k] => h = k
        /\ \A k \in 1..Len(Without(s, i, j)) :
             \E m \in 1..Len(s) : Without(s, i, j)[k] = s[m] /\ (m < i \/ m > j)
    BY <1>1, <1>5, CutLinks, Zenon
  <1> QED BY <1>6, <1>7 DEF s, Leaves

\* One node fewer.
LEMMA RemoveStep ==
  ASSUME NEW c, Represents(c), NEW l \in ListId, NEW i \in 1..Len(c[l]),
         \A y \in Node : y # c[l][i] =>
           /\ next'[y] = IF y = Elem(c[l], i - 1) THEN Elem(c[l], i + 1) ELSE next[y]
           /\ previous'[y] = IF y = Elem(c[l], i + 1) THEN Elem(c[l], i - 1) ELSE previous[y],
         \A m \in ListId \ {l} : list'[m] = list[m],
         list'[l] = [HEAD |-> IF i = 1 THEN Elem(c[l], i + 1) ELSE Elem(c[l], 1),
                     TAIL |-> IF i = Len(c[l]) THEN Elem(c[l], i - 1)
                              ELSE Elem(c[l], Len(c[l])),
                     count |-> Len(c[l]) - 1],
         UNCHANGED freed
  PROVE  Represents([c EXCEPT ![l] = Abstract!RemoveAt(c[l], i)])'
  <1> DEFINE s == c[l]
             t == Without(s, i, i)
  <1>1. s \in Seq(Node) /\ i \in i..Len(s)
    BY ListIs
  <1>2. /\ Forward(t)' /\ Backward(t)'
        /\ \A h, k \in 1..Len(t) : t[h] = t[k] => h = k
        /\ \A k \in 1..Len(t) : \E m \in 1..Len(s) : t[k] = s[m] /\ (m < i \/ m > i)
        /\ Ends(t) = [HEAD |-> IF i = 1 THEN Elem(s, i + 1) ELSE Elem(s, 1),
                      TAIL |-> IF i = Len(s) THEN Elem(s, i - 1) ELSE Elem(s, Len(s)),
                      count |-> Len(s) - (i - i + 1)]
        /\ \A m \in ListId \ {l} : \A k \in 1..Len(c[m]) :
             next'[c[m][k]] = next[c[m][k]] /\ previous'[c[m][k]] = previous[c[m][k]]
    <2>1. CutOut(s, i, i)
      <3>1. i \in i..i
        OBVIOUS
      <3> QED BY <3>1, Zenon DEF CutOut
    <2>2. Leaves(c, l, i, i)
      BY <1>1, <2>1, CutAt
    <2> QED BY <2>2, Zenon DEF Leaves
  <1>3. t \in Seq(Node)
    BY <1>1, WithoutIs
  <1>4. list'[l] = Ends(t)
    <2>1. Len(s) - (i - i + 1) = Len(s) - 1
      BY <1>1
    <2> QED BY <1>2, <2>1, Zenon
  <1>5. \A m \in ListId \ {l} : Forward(c[m])' /\ Backward(c[m])' /\ list'[m] = Ends(c[m])
    BY <1>2, KeptList, Zenon
  <1>6. \A m \in ListId \ {l} : \A k \in 1..Len(c[m]), j \in 1..Len(t) : c[m][k] # t[j]
    <2>1. \A m \in ListId \ {l} : \A k \in 1..Len(c[m]), h \in 1..Len(s) : c[m][k] # s[h]
      BY Zenon DEF Represents, Distinct
    <2> HIDE DEF s, t
    <2> QED BY <1>2, <2>1
  <1>7. /\ \A k \in 1..Len(t) : t[k] \notin freed'
        /\ \A m \in ListId \ {l} : \A k \in 1..Len(c[m]) : c[m][k] \notin freed'
    <2>1. \A m \in ListId : \A k \in 1..Len(c[m]) : c[m][k] \notin freed'
      BY Zenon DEF Represents
    <2>2. \A k \in 1..Len(s) : s[k] \notin freed'
      BY <2>1
    <2> HIDE DEF s, t
    <2> QED BY <1>2, <2>1, <2>2
  <1>8. Represents([c EXCEPT ![l] = t])'
    <2> HIDE DEF s, t
    <2> QED BY <1>2, <1>3, <1>4, <1>5, <1>6, <1>7, RepresentOne, Zenon
  <1>9. Abstract!RemoveAt(s, i) = t
    BY RemoveAtIs
  <1> QED BY <1>8, <1>9

\* What lstDelete and lstGet read in the node they take out.
LEMMA NodeIs ==
  ASSUME Typed, NEW c, Represents(c), NEW l \in ListId, NEW i \in 1..Len(c[l])
  PROVE  /\ next[c[l][i]] = Elem(c[l], i + 1) /\ previous[c[l][i]] = Elem(c[l], i - 1)
         /\ c[l][i] \in Node /\ Elem(c[l], i) = c[l][i]
         /\ Elem(c[l], i + 1) \in Pointer /\ Elem(c[l], i - 1) \in Pointer
         /\ (Elem(c[l], i + 1) = NULL <=> i = Len(c[l])) /\ (Elem(c[l], i - 1) = NULL <=> i = 1)
         /\ Elem(c[l], i + 1) # c[l][i] /\ Elem(c[l], i - 1) # c[l][i]
  <1> DEFINE s == c[l]
  <1>1. /\ s \in Seq(Node) /\ i \in 1..Len(s)
        /\ \A k \in 1..Len(s) : s[k] \in Node /\ s[k] # NULL
        /\ \A h, k \in 1..Len(s) : s[h] = s[k] => h = k
    BY ListIs
  <1>2. \A k \in 1..Len(s) : next[s[k]] = Elem(s, k + 1) /\ previous[s[k]] = Elem(s, k - 1)
    BY Zenon DEF Represents, Forward, Backward
  <1> HIDE DEF s
  <1>3. /\ Elem(s, i) = s[i] /\ s[i] \in Node
        /\ Elem(s, i + 1) \in Pointer /\ Elem(s, i - 1) \in Pointer
        /\ (Elem(s, i + 1) = NULL <=> i = Len(s)) /\ (Elem(s, i - 1) = NULL <=> i = 1)
        /\ Elem(s, i + 1) # s[i] /\ Elem(s, i - 1) # s[i]
    BY <1>1 DEF Elem, Pointer
  <1> QED BY <1>1, <1>2, <1>3 DEF s

\* lstDelete takes its node out, wherever it is.
LEMMA DeleteStep ==
  ASSUME Typed, NEW c, Represents(c), NEW l \in ListId, NEW i \in 1..Len(c[l]),
         lstDelete(l, c[l][i])
  PROVE  Represents([c EXCEPT ![l] = Abstract!RemoveAt(c[l], i)])'
  <1> DEFINE s == c[l]
             n == c[l][i]
             before == Elem(s, i - 1)
             after == Elem(s, i + 1)
  <1>1. /\ next[n] = after /\ previous[n] = before /\ n \in Node
        /\ before \in Pointer /\ after \in Pointer
        /\ (after = NULL <=> i = Len(s)) /\ (before = NULL <=> i = 1)
    BY NodeIs
  <1>2. list[l].HEAD = Elem(s, 1) /\ list[l].TAIL = Elem(s, Len(s)) /\ list[l].count = Len(s)
    BY ListIs
  <1>3. /\ next' = Store(next, before, after)
        /\ previous' = Store(previous, after, before)
        /\ list' = [list EXCEPT ![l] =
             [HEAD |-> IF before = NULL THEN after ELSE list[l].HEAD,
              TAIL |-> IF after = NULL THEN before ELSE list[l].TAIL,
              count |-> list[l].count - 1]]
        /\ UNCHANGED freed
    BY <1>1, Zenon DEF lstDelete
  <1> HIDE DEF before, after, n, s
  <1>4. \A y \in Node : /\ next'[y] = IF y = before THEN after ELSE next[y]
                        /\ previous'[y] = IF y = after THEN before ELSE previous[y]
    <2>1. next \in [Node -> Pointer] /\ previous \in [Node -> Pointer]
      BY DEF Typed
    <2>2. \A y \in Node : Store(next, before, after)[y] = IF y = before THEN after ELSE next[y]
      BY <1>1, <2>1, NullAssumption DEF Store, Pointer
    <2>3. \A y \in Node : Store(previous, after, before)[y] =
                            IF y = after THEN before ELSE previous[y]
      BY <1>1, <2>1, NullAssumption DEF Store, Pointer
    <2> QED BY <1>3, <2>2, <2>3, Zenon
  <1>5. /\ \A m \in ListId \ {l} : list'[m] = list[m]
        /\ list'[l] = [HEAD |-> IF i = 1 THEN after ELSE Elem(s, 1),
                       TAIL |-> IF i = Len(s) THEN before ELSE Elem(s, Len(s)),
                       count |-> Len(s) - 1]
    BY <1>1, <1>2, <1>3 DEF Typed
  <1> QED BY <1>3, <1>4, <1>5, RemoveStep, Zenon DEF before, after, s

\* lstGet takes the first node out; its next link is left as it is.
LEMMA GetStep ==
  ASSUME Typed, NEW c, Represents(c), NEW l \in ListId, lstGet(l)
  PROVE  IF Len(c[l]) = 0 THEN UNCHANGED lstVars
         ELSE Represents([c EXCEPT ![l] = Abstract!RemoveAt(c[l], 1)])'
  <1> DEFINE s == c[l]
             after == Elem(s, 1 + 1)
  <1>1. /\ list[l].HEAD = Elem(s, 1) /\ list[l].TAIL = Elem(s, Len(s)) /\ list[l].count = Len(s)
        /\ Len(s) \in Nat
    BY ListIs
  <1>2. CASE Len(s) = 0
    BY <1>1, <1>2 DEF lstGet, Elem
  <1>3. CASE Len(s) # 0
    <2>1. 1 \in 1..Len(s) /\ 1 - 1 = 0 /\ Elem(s, 0) = NULL
      BY <1>1, <1>3 DEF Elem
    <2>2. /\ next[s[1]] = after /\ Elem(s, 1) = s[1]
          /\ s[1] \in Node /\ after \in Pointer
          /\ (after = NULL <=> 1 = Len(s))
      BY <2>1, NodeIs
    <2>3. s[1] # NULL
      BY <2>2, NullAssumption
    <2>4. /\ previous' = Store(previous, after, NULL)
          /\ list' = [list EXCEPT ![l] =
               [HEAD |-> after, TAIL |-> IF after = NULL THEN NULL ELSE list[l].TAIL,
                count |-> list[l].count - 1]]
          /\ UNCHANGED <<next, freed>>
      BY <1>1, <2>2, <2>3, Zenon DEF lstGet
    <2> HIDE DEF after, s
    <2>5. \A y \in Node : previous'[y] = IF y = after THEN NULL ELSE previous[y]
      <3>1. previous \in [Node -> Pointer] /\ NULL \in Pointer
        BY DEF Typed, Pointer
      <3>2. \A y \in Node : Store(previous, after, NULL)[y] =
                             IF y = after THEN NULL ELSE previous[y]
        BY <2>2, <3>1, NullAssumption DEF Store, Pointer
      <3> QED BY <2>4, <3>2, Zenon
    <2>6. \A y \in Node : y # NULL
      BY NullAssumption
    <2>7. /\ \A m \in ListId \ {l} : list'[m] = list[m]
          /\ list'[l] = [HEAD |-> after,
                         TAIL |-> IF 1 = Len(s) THEN NULL ELSE Elem(s, Len(s)),
                         count |-> Len(s) - 1]
      BY <1>1, <2>2, <2>4 DEF Typed
    <2>8. \A y \in Node : y # s[1] =>
            /\ next'[y] = IF y = Elem(s, 1 - 1) THEN Elem(s, 1 + 1) ELSE next[y]
            /\ previous'[y] = IF y = Elem(s, 1 + 1) THEN Elem(s, 1 - 1) ELSE previous[y]
      BY <2>1, <2>4, <2>5, <2>6, Zenon DEF after
    <2>9. list'[l] = [HEAD |-> IF 1 = 1 THEN Elem(s, 1 + 1) ELSE Elem(s, 1),
                      TAIL |-> IF 1 = Len(s) THEN Elem(s, 1 - 1) ELSE Elem(s, Len(s)),
                      count |-> Len(s) - 1]
      BY <2>1, <2>7 DEF after
    <2>10. Represents([c EXCEPT ![l] = Abstract!RemoveAt(s, 1)])'
      BY <2>1, <2>4, <2>7, <2>8, <2>9, RemoveStep, Zenon DEF s
    <2> QED BY <1>3, <2>10 DEF s
  <1> QED BY <1>2, <1>3


\* A sequence in which no node stands twice.
Once(t) == \A j, k \in 1..Len(t) : t[j] = t[k] => j = k

\* No node is in both.
Apartly(t, u) == \A j \in 1..Len(t), k \in 1..Len(u) : t[j] # u[k]

\* What changes in the representation when two lists get other nodes.
LEMMA RepresentTwo ==
  ASSUME NEW c, Represents(c), NEW l \in ListId, NEW m \in ListId, l # m,
         NEW t \in Seq(Node), NEW u \in Seq(Node), Once(t), Once(u), Apartly(t, u),
         \A o \in ListId \ {l, m} : Apartly(c[o], t) /\ Apartly(c[o], u),
         \A k \in 1..Len(t) : t[k] \notin freed', \A k \in 1..Len(u) : u[k] \notin freed',
         \A o \in ListId \ {l, m} : \A k \in 1..Len(c[o]) : c[o][k] \notin freed',
         Forward(t)', Backward(t)', list'[l] = Ends(t),
         Forward(u)', Backward(u)', list'[m] = Ends(u),
         \A o \in ListId \ {l, m} : Forward(c[o])' /\ Backward(c[o])' /\ list'[o] = Ends(c[o])
  PROVE  Represents([c EXCEPT ![l] = t, ![m] = u])'
  <1> DEFINE e == [c EXCEPT ![l] = <<>>]
             f == [e EXCEPT ![m] = u]
             d == [f EXCEPT ![l] = t]
  <1>1. c \in [ListId -> Seq(Node)] /\ Distinct(c)
    BY Zenon DEF Represents
  <1>2. /\ e \in [ListId -> Seq(Node)] /\ e[l] = <<>> /\ \A o \in ListId \ {l} : e[o] = c[o]
        /\ Distinct(e)
    <2>1. e \in [ListId -> Seq(Node)] /\ e[l] = <<>> /\ \A o \in ListId \ {l} : e[o] = c[o]
      BY <1>1
    <2>2. <<>> \in Seq(Node) /\ Len(<<>>) = 0 /\ 1..0 = {}
      OBVIOUS
    <2>3. Distinct(e)
      BY <1>1, <2>2, DistinctOne
    <2> QED BY <2>1, <2>3
  <1> HIDE DEF e
  <1>3. /\ f \in [ListId -> Seq(Node)] /\ f[m] = u /\ f[l] = <<>>
        /\ \A o \in ListId \ {l, m} : f[o] = c[o]
        /\ Distinct(f)
    <2>1. /\ f \in [ListId -> Seq(Node)] /\ f[m] = u /\ f[l] = <<>>
          /\ \A o \in ListId \ {l, m} : f[o] = c[o]
      BY <1>2
    <2>2. \A o \in ListId \ {m} : \A k \in 1..Len(e[o]), j \in 1..Len(u) : e[o][k] # u[j]
      <3> TAKE o \in ListId \ {m}
      <3>1. CASE o = l
        BY <1>2, <3>1
      <3>2. CASE o # l
        <4>1. e[o] = c[o] /\ o \in ListId \ {l, m}
          BY <1>2, <3>2
        <4>2. Apartly(c[o], u)
          BY <4>1
        <4>3. \A k \in 1..Len(c[o]), j \in 1..Len(u) : c[o][k] # u[j]
          BY <4>2, Zenon DEF Apartly
        <4> QED BY <4>1, <4>3
      <3> QED BY <3>1, <3>2
    <2>3. \A j, k \in 1..Len(u) : u[j] = u[k] => j = k
      BY DEF Once
    <2>4. Distinct(f)
      BY <1>2, <2>2, <2>3, DistinctOne
    <2> QED BY <2>1, <2>4
  <1> HIDE DEF f
  <1>4. /\ d \in [ListId -> Seq(Node)] /\ d[m] = u /\ d[l] = t
        /\ \A o \in ListId \ {l, m} : d[o] = c[o]
        /\ Distinct(d)
    <2>1. /\ d \in [ListId -> Seq(Node)] /\ d[m] = u /\ d[l] = t
          /\ \A o \in ListId \ {l, m} : d[o] = c[o]
      BY <1>3
    <2>2. \A o \in ListId \ {l} : \A k \in 1..Len(f[o]), j \in 1..Len(t) : f[o][k] # t[j]
      <3> TAKE o \in ListId \ {l}
      <3>1. CASE o = m
        BY <1>3, <3>1 DEF Apartly
      <3>2. CASE o # m
        <4>1. f[o] = c[o] /\ o \in ListId \ {l, m}
          BY <1>3, <3>2
        <4>2. Apartly(c[o], t)
          BY <4>1
        <4>3. \A k \in 1..Len(c[o]), j \in 1..Len(t) : c[o][k] # t[j]
          BY <4>2, Zenon DEF Apartly
        <4> QED BY <4>1, <4>3
      <3> QED BY <3>1, <3>2
    <2>3. \A j, k \in 1..Len(t) : t[j] = t[k] => j = k
      BY DEF Once
    <2>4. Distinct(d)
      BY <1>3, <2>2, <2>3, DistinctOne
    <2> QED BY <2>1, <2>4
  <1>5. d = [c EXCEPT ![l] = t, ![m] = u]
    BY <1>1 DEF e, f
  <1> HIDE DEF d
  <1>6. \A o \in ListId : Forward(d[o])' /\ Backward(d[o])' /\ list'[o] = Ends(d[o])
    BY <1>4, Zenon
  <1>7. \A o \in ListId : \A k \in 1..Len(d[o]) : d[o][k] \notin freed'
    BY <1>4, Zenon
  <1>8. Represents(d)'
    BY <1>4, <1>6, <1>7, Zenon DEF Represents
  <1> QED BY <1>5, <1>8

\* A loop along links that lead through the nodes of u meets those nodes, and counts
\* each of them once.
LEMMA ChainIs ==
  ASSUME NEW u \in Seq(Node), Once(u), NEW link,
         \A k \in 1..Len(u) : link[u[k]] = Elem(u, k + 1)
  PROVE  /\ Chain(link, Elem(u, 1)) = {u[k] : k \in 1..Len(u)}
         /\ Cardinality(Chain(link, Elem(u, 1))) = Len(u)
  <1>1. \A k \in Nat : Follow(link, Elem(u, 1), k) = Elem(u, 1 + k)
    <2> TAKE k \in Nat
    <2>1. 1 \in Nat \ {0}
      OBVIOUS
    <2> QED BY <2>1, FollowNext
  <1>2. /\ Cardinality({u[i] : i \in 1..Len(u)}) = Len(u)
        /\ Len(u) <= Cardinality(Node) /\ Cardinality(Node) \in Nat
    <2>1. \A j, k \in 1..Len(u) : u[j] = u[k] => j = k
      BY DEF Once
    <2> QED BY <2>1, NodesCounted
  <1>3. /\ \A k \in 1..Len(u) : u[k] \in Node /\ u[k] # NULL
        /\ Len(u) \in Nat
    BY NullAssumption
  <1> DEFINE N == Cardinality(Node)
  <1>0. N \in Nat /\ Len(u) <= N
    BY <1>2, Zenon DEF N
  <1> HIDE DEF N
  <1>4. {Follow(link, Elem(u, 1), k) : k \in 0..N} = {Elem(u, 1 + k) : k \in 0..N}
    <2>1. \A k \in 0..N : Follow(link, Elem(u, 1), k) = Elem(u, 1 + k)
      BY <1>1, <1>0
    <2> QED BY <2>1, Zenon
  <1>5. {Elem(u, 1 + k) : k \in 0..N} \ {NULL} = {u[k] : k \in 1..Len(u)}
    <2>1. ASSUME NEW x \in {Elem(u, 1 + k) : k \in 0..N} \ {NULL}
          PROVE  x \in {u[k] : k \in 1..Len(u)}
      BY <2>1 DEF Elem
    <2>2. ASSUME NEW k \in 1..Len(u)
          PROVE  u[k] \in {Elem(u, 1 + h) : h \in 0..N} \ {NULL}
      <3>1. k - 1 \in 0..N /\ 1 + (k - 1) = k
        BY <1>3, <1>0
      <3>2. Elem(u, 1 + (k - 1)) = u[k]
        BY <3>1 DEF Elem
      <3> QED BY <1>3, <3>1, <3>2
    <2> QED BY <2>1, <2>2
  <1> QED BY <1>2, <1>4, <1>5, Zenon DEF Chain, N

\* A piece of such a sequence is one too, and has nothing in common with the rest.
LEMMA PieceOnce ==
  ASSUME NEW s \in Seq(Node), Once(s), NEW i \in 1..Len(s), NEW j \in i..Len(s)
  PROVE  /\ SubSeq(s, i, j) \in Seq(Node) /\ Len(SubSeq(s, i, j)) = j - i + 1
         /\ Once(SubSeq(s, i, j))
         /\ \A k \in 1..Len(SubSeq(s, i, j)) :
              i + k - 1 \in i..j /\ i + k - 1 \in 1..Len(s) /\ SubSeq(s, i, j)[k] = s[i + k - 1]
         /\ Ends(SubSeq(s, i, j)) = [HEAD |-> s[i], TAIL |-> s[j], count |-> j - i + 1]
  <1> DEFINE u == SubSeq(s, i, j)
  <1>1. /\ i \in Int /\ j \in Int /\ 1 <= i /\ i <= j /\ j <= Len(s) /\ Len(s) \in Nat
    OBVIOUS
  <1>2. /\ u \in Seq(Node) /\ Len(u) = j - i + 1
        /\ \A k \in 1..Len(u) : u[k] = s[i + k - 1]
    BY <1>1, PieceIs
  <1> HIDE DEF u
  <1>3. \A k \in 1..Len(u) :
          i + k - 1 \in i..j /\ i + k - 1 \in 1..Len(s) /\ u[k] = s[i + k - 1]
    BY <1>1, <1>2
  <1>4. Once(u)
    <2> SUFFICES ASSUME NEW h \in 1..Len(u), NEW k \in 1..Len(u), u[h] = u[k] PROVE h = k
      BY DEF Once
    <2>1. i + h - 1 = i + k - 1
      BY <1>3, Zenon DEF Once
    <2> QED BY <1>1, <2>1
  <1>5. Ends(u) = [HEAD |-> s[i], TAIL |-> s[j], count |-> j - i + 1]
    <2>1. /\ 1 \in 1..Len(u) /\ i + 1 - 1 = i
          /\ Len(u) \in 1..Len(u) /\ i + Len(u) - 1 = j
      BY <1>1, <1>2
    <2>2. Elem(u, 1) = s[i] /\ Elem(u, Len(u)) = s[j]
      BY <1>3, <2>1, Zenon DEF Elem
    <2> QED BY <1>2, <2>2 DEF Ends
  <1> QED BY <1>2, <1>3, <1>4, <1>5 DEF u

\* What lstExtract counts: the nodes from start on, end being cut off by then.
LEMMA PieceCounted ==
  ASSUME Typed, NEW s \in Seq(Node), Once(s), \A k \in 1..Len(s) : next[s[k]] = Elem(s, k + 1),
         NEW i \in 1..Len(s), NEW j \in i..Len(s)
  PROVE  Cardinality(Chain(Store(next, s[j], NULL), s[i])) = j - i + 1
  <1> DEFINE u == SubSeq(s, i, j)
             link == Store(next, s[j], NULL)
  <1>1. /\ i \in Int /\ j \in Int /\ 1 <= i /\ i <= j /\ j <= Len(s) /\ Len(s) \in Nat
        /\ \A k \in 1..Len(s) : s[k] \in Node /\ s[k] # NULL
    BY NullAssumption
  <1>2. /\ u \in Seq(Node) /\ Len(u) = j - i + 1 /\ Once(u)
        /\ \A k \in 1..Len(u) : u[k] = s[i + k - 1]
    BY PieceOnce
  <1>3. \A y \in Node : link[y] = IF y = s[j] THEN NULL ELSE next[y]
    BY <1>1, NullAssumption DEF Store, Typed, Pointer
  <1> HIDE DEF u, link
  <1>5. \A k \in 1..Len(u) : link[u[k]] = Elem(u, k + 1)
    <2> TAKE k \in 1..Len(u)
    <2>1. /\ u[k] = s[i + k - 1] /\ i + k - 1 \in 1..Len(s) /\ i + k - 1 <= j
          /\ (i + k - 1) + 1 = i + (k + 1) - 1 /\ j \in 1..Len(s)
      BY <1>1, <1>2
    <2>2. s[i + k - 1] = s[j] <=> i + k - 1 = j
      BY <2>1, Zenon DEF Once
    <2>3. link[u[k]] = IF i + k - 1 = j THEN NULL ELSE Elem(s, (i + k - 1) + 1)
      <3>1. next[s[i + k - 1]] = Elem(s, (i + k - 1) + 1)
        BY <2>1
      <3>2. link[s[i + k - 1]] = IF s[i + k - 1] = s[j] THEN NULL ELSE next[s[i + k - 1]]
        BY <1>1, <1>3, <2>1
      <3> QED BY <2>1, <2>2, <3>1, <3>2, Zenon
    <2>4. Elem(u, k + 1) = IF i + k - 1 = j THEN NULL ELSE s[i + (k + 1) - 1]
      <3>1. k + 1 \in 1..Len(u) <=> i + k - 1 # j
        BY <1>1, <1>2, <2>1
      <3> QED BY <1>2, <3>1, Zenon DEF Elem
    <2>5. i + k - 1 # j => Elem(s, (i + k - 1) + 1) = s[i + (k + 1) - 1]
      <3>1. \A p \in 1..Len(s) : p <= j /\ p # j => p + 1 \in 1..Len(s)
        BY <1>1
      <3> QED BY <2>1, <3>1, Zenon DEF Elem
    <2> QED BY <2>3, <2>4, <2>5, Zenon
  <1>6. Elem(u, 1) = s[i]
    <2>1. 1 \in 1..Len(u) /\ i + 1 - 1 = i
      BY <1>1, <1>2
    <2> QED BY <1>2, <2>1, Zenon DEF Elem
  <1>7. Cardinality(Chain(link, Elem(u, 1))) = Len(u)
    BY <1>2, <1>5, ChainIs
  <1> QED BY <1>2, <1>6, <1>7 DEF link

\* A piece of a list goes to an empty one.
LEMMA ExtractLinks ==
  ASSUME Typed, NEW c, Represents(c), NEW src \in ListId, NEW dst \in ListId, src # dst,
         NEW i \in 1..Len(c[src]), NEW j \in i..Len(c[src]),
         lstExtract(src, c[src][i], c[src][j], dst)
  PROVE  /\ \A y \in Node :
              /\ next'[y] = IF y = c[src][j] THEN NULL
                            ELSE IF y = Elem(c[src], i - 1) THEN Elem(c[src], j + 1) ELSE next[y]
              /\ previous'[y] = IF y = c[src][i] THEN NULL
                                ELSE IF y = Elem(c[src], j + 1) THEN Elem(c[src], i - 1)
                                ELSE previous[y]
         /\ \A m \in ListId \ {src, dst} : list'[m] = list[m]
         /\ list'[src] = [HEAD |-> IF i = 1 THEN Elem(c[src], j + 1) ELSE Elem(c[src], 1),
                          TAIL |-> IF j = Len(c[src]) THEN Elem(c[src], i - 1)
                                   ELSE Elem(c[src], Len(c[src])),
                          count |-> Len(c[src]) - (j - i + 1)]
         /\ list'[dst] = [HEAD |-> c[src][i], TAIL |-> c[src][j], count |-> j - i + 1]
         /\ UNCHANGED freed
  <1> DEFINE s == c[src]
             start == s[i]
             end == s[j]
             before == Elem(s, i - 1)
             after == Elem(s, j + 1)
             n == Cardinality(Chain(Store(next, end, NULL), start))
  <1>1. /\ s \in Seq(Node) /\ Once(s)
        /\ list[src].HEAD = Elem(s, 1) /\ list[src].TAIL = Elem(s, Len(s))
        /\ list[src].count = Len(s)
    BY ListIs DEF Once
  <1>2. \A k \in 1..Len(s) : next[s[k]] = Elem(s, k + 1) /\ previous[s[k]] = Elem(s, k - 1)
    BY Zenon DEF Represents, Forward, Backward
  <1>3. n = j - i + 1
    <2> HIDE DEF s
    <2>1. i \in 1..Len(s) /\ j \in i..Len(s)
      BY DEF s
    <2>2. \A k \in 1..Len(s) : next[s[k]] = Elem(s, k + 1)
      BY <1>2
    <2> QED BY <1>1, <2>1, <2>2, PieceCounted
  <1>4. /\ previous[start] = before /\ next[end] = after
        /\ start \in Node /\ end \in Node
        /\ before \in Pointer /\ after \in Pointer
        /\ (after = NULL <=> j = Len(s)) /\ (before = NULL <=> i = 1)
    <2>1. j \in 1..Len(s)
      BY <1>1
    <2>2. next[end] = after /\ end \in Node /\ after \in Pointer /\ (after = NULL <=> j = Len(s))
      BY <2>1, NodeIs
    <2>3. /\ previous[start] = before /\ start \in Node /\ before \in Pointer
          /\ (before = NULL <=> i = 1)
      BY NodeIs
    <2> QED BY <2>2, <2>3
  <1>5. /\ next' = Store(Store(next, before, after), end, NULL)
        /\ previous' = Store(Store(previous, after, before), start, NULL)
        /\ list' = [list EXCEPT
             ![src] = [HEAD |-> IF before = NULL THEN after ELSE @.HEAD,
                       TAIL |-> IF after = NULL THEN before ELSE @.TAIL,
                       count |-> @.count - n],
             ![dst] = [HEAD |-> start, TAIL |-> end, count |-> n]]
        /\ UNCHANGED freed
    <2>1. lstExtract(src, start, end, dst)
      OBVIOUS
    <2> HIDE DEF s, start, end, before, after
    <2> QED BY <1>4, <2>1, Zenon DEF lstExtract
  <1> HIDE DEF start, end, before, after, n
  <1>6. \A y \in Node :
          /\ next'[y] = IF y = end THEN NULL ELSE IF y = before THEN after ELSE next[y]
          /\ previous'[y] = IF y = start THEN NULL ELSE IF y = after THEN before ELSE previous[y]
    BY <1>4, <1>5, NullAssumption DEF Store, Typed, Pointer
  <1> HIDE DEF s
  <1>7. /\ \A m \in ListId \ {src, dst} : list'[m] = list[m]
        /\ list'[src] = [HEAD |-> IF i = 1 THEN after ELSE Elem(s, 1),
                         TAIL |-> IF j = Len(s) THEN before ELSE Elem(s, Len(s)),
                         count |-> Len(s) - n]
        /\ list'[dst] = [HEAD |-> start, TAIL |-> end, count |-> n]
    BY <1>1, <1>4, <1>5 DEF Typed
  <1> QED BY <1>3, <1>5, <1>6, <1>7, Zenon DEF start, end, before, after, s

\* The piece is taken over as it is.
LEMMA ExtractStep ==
  ASSUME Typed, NEW c, Represents(c), NEW src \in ListId, NEW dst \in ListId, src # dst,
         Len(c[dst]) = 0, NEW i \in 1..Len(c[src]), NEW j \in i..Len(c[src]),
         lstExtract(src, c[src][i], c[src][j], dst)
  PROVE  Represents([c EXCEPT ![src] = Without(c[src], i, j),
                              ![dst] = SubSeq(c[src], i, j)])'
  <1> DEFINE s == c[src]
             v == Without(s, i, j)
             u == SubSeq(s, i, j)
  <1>1. /\ s \in Seq(Node) /\ Once(s) /\ Len(s) \in Nat
        /\ i \in 1..Len(s) /\ j \in 1..Len(s) /\ j \in i..Len(s)
        /\ i \in Int /\ j \in Int /\ i <= j
        /\ \A k \in 1..Len(s) : s[k] \in Node /\ s[k] # NULL
    BY ListIs DEF Once
  <1>2. \A k \in 1..Len(s) : next[s[k]] = Elem(s, k + 1) /\ previous[s[k]] = Elem(s, k - 1)
    BY Zenon DEF Represents, Forward, Backward
  <1>3. /\ \A y \in Node :
              /\ next'[y] = IF y = s[j] THEN NULL
                            ELSE IF y = Elem(s, i - 1) THEN Elem(s, j + 1) ELSE next[y]
              /\ previous'[y] = IF y = s[i] THEN NULL
                                ELSE IF y = Elem(s, j + 1) THEN Elem(s, i - 1) ELSE previous[y]
        /\ \A m \in ListId \ {src, dst} : list'[m] = list[m]
        /\ list'[src] = [HEAD |-> IF i = 1 THEN Elem(s, j + 1) ELSE Elem(s, 1),
                         TAIL |-> IF j = Len(s) THEN Elem(s, i - 1) ELSE Elem(s, Len(s)),
                         count |-> Len(s) - (j - i + 1)]
        /\ list'[dst] = [HEAD |-> s[i], TAIL |-> s[j], count |-> j - i + 1]
        /\ UNCHANGED freed
    BY ExtractLinks
  <1>4. Leaves(c, src, i, j)
    <2>1. CutOut(s, i, j)
      <3>1. i \in i..j /\ j \in i..j
        BY <1>1
      <3> QED BY <1>3, <3>1, Zenon DEF CutOut
    <2> QED BY <2>1, CutAt
  <1>5. /\ Forward(v)' /\ Backward(v)' /\ list'[src] = Ends(v) /\ Once(v)
        /\ \A k \in 1..Len(v) : \E m \in 1..Len(s) : v[k] = s[m] /\ (m < i \/ m > j)
        /\ \A m \in ListId \ {src} : \A k \in 1..Len(c[m]) :
             next'[c[m][k]] = next[c[m][k]] /\ previous'[c[m][k]] = previous[c[m][k]]
    BY <1>3, <1>4, Zenon DEF Leaves, Once
  <1>6. \A m \in ListId \ {src, dst} :
          Forward(c[m])' /\ Backward(c[m])' /\ list'[m] = Ends(c[m])
    <2> TAKE m \in ListId \ {src, dst}
    <2>1. /\ list'[m] = list[m]
          /\ \A k \in 1..Len(c[m]) : /\ next'[c[m][k]] = next[c[m][k]]
                                      /\ previous'[c[m][k]] = previous[c[m][k]]
      BY <1>3, <1>5
    <2> QED BY <2>1, KeptList
  <1>7. \A m \in ListId \ {src} : \A k \in 1..Len(c[m]), h \in 1..Len(s) : c[m][k] # s[h]
    BY Zenon DEF Represents, Distinct
  <1>8. /\ \A k \in 1..Len(s) : s[k] \notin freed
        /\ \A m \in ListId : \A k \in 1..Len(c[m]) : c[m][k] \notin freed
    BY Zenon DEF Represents
  <1>9. v \in Seq(Node)
    <2> HIDE DEF s
    <2> QED BY <1>1, WithoutIs
  <1>10. /\ u \in Seq(Node) /\ Len(u) = j - i + 1 /\ Once(u)
         /\ \A k \in 1..Len(u) :
              i + k - 1 \in i..j /\ i + k - 1 \in 1..Len(s) /\ u[k] = s[i + k - 1]
         /\ Ends(u) = [HEAD |-> s[i], TAIL |-> s[j], count |-> j - i + 1]
    <2> HIDE DEF s
    <2> QED BY <1>1, PieceOnce
  <1> HIDE DEF s, u, v
  <1>11. ASSUME NEW k \in 1..Len(u)
         PROVE  next'[u[k]] = Elem(u, k + 1) /\ previous'[u[k]] = Elem(u, k - 1)
    <2> DEFINE p == i + k - 1
    <2>1. p \in i..j /\ p \in 1..Len(s) /\ u[k] = s[p] /\ s[p] \in Node
      BY <1>1, <1>10
    <2> HIDE DEF p
    <2>2. (s[p] = s[j] <=> p = j) /\ (s[p] = s[i] <=> p = i)
      BY <1>1, <2>1, Zenon DEF Once
    <2>3. s[p] # Elem(s, i - 1) /\ s[p] # Elem(s, j + 1)
      BY <1>1, <2>1 DEF Elem, Once
    <2>4. /\ next'[s[p]] = IF p = j THEN NULL ELSE Elem(s, p + 1)
          /\ previous'[s[p]] = IF p = i THEN NULL ELSE Elem(s, p - 1)
      BY <1>2, <1>3, <2>1, <2>2, <2>3, ZenonT(30)
    <2>5. Elem(u, k + 1) = IF p = j THEN NULL ELSE Elem(s, p + 1)
      <3>1. (k + 1 \in 1..Len(u) <=> p # j) /\ i + (k + 1) - 1 = p + 1
        BY <1>1, <1>10 DEF p
      <3>2. k + 1 \in 1..Len(u) => u[k + 1] = s[p + 1] /\ p + 1 \in 1..Len(s)
        BY <1>10, <3>1
      <3> QED BY <3>1, <3>2, Zenon DEF Elem
    <2>6. Elem(u, k - 1) = IF p = i THEN NULL ELSE Elem(s, p - 1)
      <3>1. (k - 1 \in 1..Len(u) <=> p # i) /\ i + (k - 1) - 1 = p - 1
        BY <1>1, <1>10 DEF p
      <3>2. k - 1 \in 1..Len(u) => u[k - 1] = s[p - 1] /\ p - 1 \in 1..Len(s)
        BY <1>10, <3>1
      <3> QED BY <3>1, <3>2, Zenon DEF Elem
    <2> QED BY <2>1, <2>4, <2>5, <2>6, Zenon
  <1>12. Forward(u)' /\ Backward(u)'
    BY <1>11, Zenon DEF Forward, Backward
  <1>13. Apartly(v, u)
    <2> SUFFICES ASSUME NEW h \in 1..Len(v), NEW k \in 1..Len(u), v[h] = u[k] PROVE FALSE
      BY DEF Apartly
    <2>1. PICK m \in 1..Len(s) : v[h] = s[m] /\ (m < i \/ m > j)
      BY <1>5
    <2>2. s[m] = s[i + k - 1] /\ i + k - 1 \in 1..Len(s)
      BY <1>10, <2>1, Zenon
    <2>3. m = i + k - 1
      BY <1>1, <2>2, Zenon DEF Once
    <2> QED BY <1>1, <1>10, <2>1, <2>3
  <1>14. \A m \in ListId \ {src, dst} : Apartly(c[m], v) /\ Apartly(c[m], u)
    <2> TAKE m \in ListId \ {src, dst}
    <2>1. \A k \in 1..Len(c[m]), h \in 1..Len(s) : c[m][k] # s[h]
      BY <1>7
    <2>2. Apartly(c[m], v)
      BY <1>5, <2>1 DEF Apartly
    <2>3. Apartly(c[m], u)
      <3> SUFFICES ASSUME NEW a \in 1..Len(c[m]), NEW k \in 1..Len(u) PROVE c[m][a] # u[k]
        BY DEF Apartly
      <3>1. u[k] = s[i + k - 1] /\ i + k - 1 \in 1..Len(s)
        BY <1>10, Zenon
      <3> QED BY <2>1, <3>1, Zenon
    <2> QED BY <2>2, <2>3
  <1>15. /\ \A k \in 1..Len(v) : v[k] \notin freed'
         /\ \A k \in 1..Len(u) : u[k] \notin freed'
         /\ \A m \in ListId \ {src, dst} : \A k \in 1..Len(c[m]) : c[m][k] \notin freed'
    <2>1. \A k \in 1..Len(v) : v[k] \notin freed
      BY <1>5, <1>8
    <2>2. \A k \in 1..Len(u) : u[k] \notin freed
      BY <1>8, <1>10
    <2>3. freed' = freed
      BY <1>3
    <2> QED BY <1>8, <2>1, <2>2, <2>3
  <1>16. list'[dst] = Ends(u)
    BY <1>3, <1>10
  <1>17. Represents([c EXCEPT ![src] = v, ![dst] = u])'
    BY <1>5, <1>6, <1>9, <1>10, <1>12, <1>13, <1>14, <1>15, <1>16, RepresentTwo, Zenon
  <1> QED BY <1>17 DEF s, u, v

\* The nodes of one list are linked behind those of another.
LEMMA ConcatLinks ==
  ASSUME Typed, NEW c, Represents(c), NEW dst \in ListId, NEW add \in ListId, dst # add,
         Len(c[add]) # 0, lstConcat(dst, add)
  PROVE  /\ \A y \in Node :
              /\ next'[y] = IF y = Elem(c[dst], Len(c[dst])) THEN Elem(c[add], 1) ELSE next[y]
              /\ previous'[y] = IF y = Elem(c[add], 1) THEN Elem(c[dst], Len(c[dst]))
                                ELSE previous[y]
         /\ \A m \in ListId \ {dst, add} : list'[m] = list[m]
         /\ list'[dst] = [HEAD |-> IF Len(c[dst]) = 0 THEN Elem(c[add], 1) ELSE Elem(c[dst], 1),
                          TAIL |-> Elem(c[add], Len(c[add])),
                          count |-> Len(c[dst]) + Len(c[add])]
         /\ list'[add] = EmptyList
         /\ UNCHANGED freed
  <1> DEFINE s == c[dst]
             a == c[add]
             tail == Elem(s, Len(s))
             head == Elem(a, 1)
  <1>1. /\ list[dst].HEAD = Elem(s, 1) /\ list[dst].TAIL = tail /\ list[dst].count = Len(s)
        /\ s \in Seq(Node) /\ Len(s) \in Nat
        /\ \A k \in 1..Len(s) : s[k] \in Node /\ s[k] # NULL
    BY ListIs
  <1>2. /\ list[add].HEAD = head /\ list[add].TAIL = Elem(a, Len(a)) /\ list[add].count = Len(a)
        /\ a \in Seq(Node) /\ Len(a) \in Nat
        /\ \A k \in 1..Len(a) : a[k] \in Node /\ a[k] # NULL
    BY ListIs
  <1>3. Len(a) # 0 /\ 1 \in 1..Len(a)
    BY <1>2
  <1>4. previous[a[1]] = NULL
    <2>1. \A k \in 1..Len(a) : previous[a[k]] = Elem(a, k - 1)
      BY Zenon DEF Represents, Backward
    <2>2. 1 - 1 = 0 /\ 0 \notin 1..Len(a)
      OBVIOUS
    <2> QED BY <1>3, <2>1, <2>2, Zenon DEF Elem
  <1> HIDE DEF s, a
  <1>5. head = a[1] /\ head \in Node /\ head # NULL
    BY <1>2, <1>3 DEF Elem
  <1>6. UNCHANGED freed
    BY <1>2, <1>3, Zenon DEF lstConcat
  <1>7. CASE Len(s) = 0
    <2>1. /\ list' = [list EXCEPT ![dst] = list[add], ![add] = EmptyList]
          /\ UNCHANGED <<next, previous>>
      BY <1>1, <1>2, <1>3, <1>7, Zenon DEF lstConcat
    <2>2. tail = NULL
      BY <1>7 DEF Elem
    <2>3. \A y \in Node : /\ next'[y] = IF y = tail THEN head ELSE next[y]
                          /\ previous'[y] = IF y = head THEN tail ELSE previous[y]
      <3>1. \A y \in Node : y # NULL
        BY NullAssumption
      <3> QED BY <1>4, <1>5, <2>1, <2>2, <3>1
    <2>4. /\ \A m \in ListId \ {dst, add} : list'[m] = list[m]
          /\ list'[add] = EmptyList
          /\ list'[dst] = [HEAD |-> head, TAIL |-> Elem(a, Len(a)), count |-> Len(s) + Len(a)]
      <3>1. list'[dst] = list[add] /\ Len(s) + Len(a) = Len(a)
        BY <1>2, <1>7, <2>1 DEF Typed
      <3>2. list[add] = [HEAD |-> list[add].HEAD, TAIL |-> list[add].TAIL,
                         count |-> list[add].count]
        BY DEF Typed
      <3> QED BY <1>2, <2>1, <3>1, <3>2 DEF Typed
    <2> QED BY <1>6, <1>7, <2>3, <2>4, Zenon DEF s, a
  <1>8. CASE Len(s) # 0
    <2>1. /\ next' = Store(next, tail, head) /\ previous' = Store(previous, head, tail)
          /\ list' = [list EXCEPT ![dst] = [HEAD |-> @.HEAD, TAIL |-> list[add].TAIL,
                                            count |-> @.count + list[add].count],
                                  ![add] = EmptyList]
      BY <1>1, <1>2, <1>3, <1>8, Zenon DEF lstConcat
    <2>2. tail \in Node /\ tail # NULL
      BY <1>1, <1>8 DEF Elem
    <2>3. \A y \in Node : /\ next'[y] = IF y = tail THEN head ELSE next[y]
                          /\ previous'[y] = IF y = head THEN tail ELSE previous[y]
      <3> HIDE DEF tail, head
      <3> QED BY <1>5, <2>1, <2>2 DEF Store, Typed
    <2>4. /\ \A m \in ListId \ {dst, add} : list'[m] = list[m]
          /\ list'[add] = EmptyList
          /\ list'[dst] = [HEAD |-> Elem(s, 1), TAIL |-> Elem(a, Len(a)),
                           count |-> Len(s) + Len(a)]
      <3> HIDE DEF tail, head
      <3> QED BY <1>1, <1>2, <2>1 DEF Typed
    <2> QED BY <1>6, <1>8, <2>3, <2>4, Zenon DEF s, a
  <1> QED BY <1>7, <1>8

\* The second list is added behind the first and left empty.
LEMMA ConcatStep ==
  ASSUME Typed, NEW c, Represents(c), NEW dst \in ListId, NEW add \in ListId, dst # add,
         lstConcat(dst, add)
  PROVE  Represents([c EXCEPT ![dst] = c[dst] \o c[add], ![add] = <<>>])'
  <1> DEFINE s == c[dst]
             a == c[add]
             t == s \o a
             n == Len(s)
  <1>1. /\ s \in Seq(Node) /\ n \in Nat
        /\ \A k \in 1..n : s[k] \in Node /\ s[k] # NULL
        /\ \A h, k \in 1..n : s[h] = s[k] => h = k
    BY ListIs
  <1>2. /\ a \in Seq(Node) /\ Len(a) \in Nat
        /\ \A k \in 1..Len(a) : a[k] \in Node /\ a[k] # NULL
        /\ \A h, k \in 1..Len(a) : a[h] = a[k] => h = k
    BY ListIs
  <1>3. CASE Len(a) = 0
    <2>1. [c EXCEPT ![dst] = t, ![add] = <<>>] = c
      <3>1. c \in [ListId -> Seq(Node)]
        BY DEF Represents
      <3>2. a = <<>> /\ t = s
        <4> HIDE DEF s, a
        <4>1. a = <<>>
          BY <1>2, <1>3, EmptySeq
        <4>2. s \o <<>> = s
          BY <1>1, ConcatEmptySeq
        <4> QED BY <4>1, <4>2
      <3>3. [c EXCEPT ![dst] = s, ![add] = a] = c
        BY <3>1
      <3> QED BY <3>2, <3>3
    <2>2. UNCHANGED lstVars
      <3>1. list[add].count = 0
        BY <1>3, ListIs
      <3> QED BY <3>1, Zenon DEF lstConcat
    <2>3. Represents(c)'
      BY <2>2 DEF lstVars, Represents, Forward, Backward
    <2> QED BY <2>1, <2>3
  <1>4. CASE Len(a) # 0
    <2>1. /\ \A y \in Node :
              /\ next'[y] = IF y = Elem(s, n) THEN Elem(a, 1) ELSE next[y]
              /\ previous'[y] = IF y = Elem(a, 1) THEN Elem(s, n) ELSE previous[y]
          /\ \A m \in ListId \ {dst, add} : list'[m] = list[m]
          /\ list'[dst] = [HEAD |-> IF n = 0 THEN Elem(a, 1) ELSE Elem(s, 1),
                           TAIL |-> Elem(a, Len(a)), count |-> n + Len(a)]
          /\ list'[add] = EmptyList
          /\ UNCHANGED freed
      BY <1>4, ConcatLinks
    <2>2. /\ \A k \in 1..n : next[s[k]] = Elem(s, k + 1) /\ previous[s[k]] = Elem(s, k - 1)
          /\ \A k \in 1..Len(a) : next[a[k]] = Elem(a, k + 1) /\ previous[a[k]] = Elem(a, k - 1)
      BY Zenon DEF Represents, Forward, Backward
    <2>3. /\ \A j \in 1..n, k \in 1..Len(a) : s[j] # a[k]
          /\ \A m \in ListId \ {dst, add} : \A k \in 1..Len(c[m]) :
               /\ \A j \in 1..n : c[m][k] # s[j]
               /\ \A j \in 1..Len(a) : c[m][k] # a[j]
      BY Zenon DEF Represents, Distinct
    <2>4. /\ \A k \in 1..n : s[k] \notin freed
          /\ \A k \in 1..Len(a) : a[k] \notin freed
          /\ \A m \in ListId : \A k \in 1..Len(c[m]) : c[m][k] \notin freed
      BY Zenon DEF Represents
    <2>5. \A m \in ListId \ {dst, add} : \A k \in 1..Len(c[m]) : c[m][k] \in Node /\ c[m][k] # NULL
      BY ListIs
    <2>6. t \in Seq(Node) /\ Len(t) = n + Len(a)
          /\ \A k \in 1..n + Len(a) : t[k] = IF k <= n THEN s[k] ELSE a[k - n]
      <3> HIDE DEF s, a
      <3> QED BY <1>1, <1>2, JoinedIs
    <2> HIDE DEF s, a, t, n
    <2>7. \A m \in ListId \ {dst, add} :
            Forward(c[m])' /\ Backward(c[m])' /\ list'[m] = Ends(c[m])
      <3> TAKE m \in ListId \ {dst, add}
      <3>1. \A k \in 1..Len(c[m]) : c[m][k] # Elem(s, n) /\ c[m][k] # Elem(a, 1)
        BY <2>3, <2>5 DEF Elem, n
      <3>2. \A k \in 1..Len(c[m]) : /\ next'[c[m][k]] = next[c[m][k]]
                                    /\ previous'[c[m][k]] = previous[c[m][k]]
        BY <2>1, <2>5, <3>1
      <3> QED BY <2>1, <3>2, KeptList
    <2>8. \A k \in Int : Elem(t, k) = IF k <= n THEN Elem(s, k) ELSE Elem(a, k - n)
      BY <1>1, <1>2, <2>6 DEF Elem, n
    <2>9. ASSUME NEW k \in 1..Len(t)
          PROVE  next'[t[k]] = Elem(t, k + 1) /\ previous'[t[k]] = Elem(t, k - 1)
      <3>1. CASE k <= n
        <4>1. k \in 1..n /\ t[k] = s[k] /\ k \in 1..Len(s)
          BY <1>1, <1>2, <2>6, <3>1 DEF n
        <4>2. s[k] = Elem(s, n) <=> k = n
          BY <1>1, <4>1 DEF Elem, n
        <4>3. s[k] # Elem(a, 1)
          BY <1>1, <2>3, <4>1 DEF Elem
        <4>4. next'[s[k]] = IF k = n THEN Elem(a, 1) ELSE Elem(s, k + 1)
          BY <1>1, <2>1, <2>2, <4>1, <4>2
        <4>5. previous'[s[k]] = Elem(s, k - 1)
          BY <1>1, <2>1, <2>2, <4>1, <4>3
        <4>6. Elem(t, k + 1) = IF k = n THEN Elem(a, 1) ELSE Elem(s, k + 1)
          <5>1. k + 1 \in Int /\ (k + 1 <= n <=> k # n) /\ (k = n => (k + 1) - n = 1)
            BY <1>1, <4>1
          <5> QED BY <2>8, <5>1, Zenon
        <4>7. Elem(t, k - 1) = Elem(s, k - 1)
          <5>1. k - 1 \in Int /\ k - 1 <= n
            BY <1>1, <4>1
          <5> QED BY <2>8, <5>1, Zenon
        <4> QED BY <4>1, <4>4, <4>5, <4>6, <4>7
      <3>2. CASE k > n
        <4> DEFINE j == k - n
        <4>1. j \in 1..Len(a) /\ t[k] = a[j] /\ k \in Int /\ ~ (k <= n)
          BY <1>1, <1>2, <2>6, <3>2
        <4> HIDE DEF j
        <4>2. a[j] # Elem(s, n)
          BY <1>2, <2>3, <4>1 DEF Elem, n
        <4>3. a[j] = Elem(a, 1) <=> j = 1
          BY <1>2, <4>1 DEF Elem
        <4>4. next'[a[j]] = Elem(a, j + 1)
          BY <1>2, <2>1, <2>2, <4>1, <4>2
        <4>5. previous'[a[j]] = IF j = 1 THEN Elem(s, n) ELSE Elem(a, j - 1)
          BY <1>2, <2>1, <2>2, <4>1, <4>3
        <4>6. Elem(t, k + 1) = Elem(a, j + 1)
          <5>1. k + 1 \in Int /\ ~ (k + 1 <= n) /\ (k + 1) - n = j + 1
            BY <1>1, <4>1 DEF j
          <5> QED BY <2>8, <5>1, Zenon
        <4>7. Elem(t, k - 1) = IF j = 1 THEN Elem(s, n) ELSE Elem(a, j - 1)
          <5>1. /\ k - 1 \in Int /\ (k - 1 <= n <=> j = 1) /\ (j = 1 => k - 1 = n)
                /\ (k - 1) - n = j - 1
            BY <1>1, <4>1 DEF j
          <5> QED BY <2>8, <5>1, Zenon
        <4> QED BY <4>1, <4>4, <4>5, <4>6, <4>7
      <3> QED BY <1>1, <2>6, <3>1, <3>2
    <2>10. Forward(t)' /\ Backward(t)'
      BY <2>9, Zenon DEF Forward, Backward
    <2>11. \A k \in 1..Len(t) : \/ k \in 1..n /\ t[k] = s[k]
                                \/ k > n /\ k - n \in 1..Len(a) /\ t[k] = a[k - n]
      BY <1>1, <1>2, <2>6
    <2>12. Once(t)
      <3> SUFFICES ASSUME NEW h \in 1..Len(t), NEW k \in 1..Len(t), t[h] = t[k] PROVE h = k
        BY DEF Once
      <3>1. CASE h \in 1..n /\ t[h] = s[h]
        BY <1>1, <2>3, <2>11, <3>1
      <3>2. CASE h > n /\ h - n \in 1..Len(a) /\ t[h] = a[h - n]
        <4>1. k > n /\ k - n \in 1..Len(a) /\ t[k] = a[k - n]
          BY <2>3, <2>11, <3>2
        <4>2. h - n = k - n
          BY <1>2, <3>2, <4>1
        <4> QED BY <1>1, <4>2
      <3> QED BY <2>11, <3>1, <3>2
    <2>13. list'[dst] = Ends(t)
      <3>1. Elem(t, 1) = IF n = 0 THEN Elem(a, 1) ELSE Elem(s, 1)
        <4>1. 1 \in Int /\ (1 <= n <=> n # 0) /\ (n = 0 => 1 - n = 1)
          BY <1>1
        <4> QED BY <2>8, <4>1, Zenon
      <3>2. Elem(t, Len(t)) = Elem(a, Len(a))
        <4>1. Len(t) \in Int /\ ~ (Len(t) <= n) /\ Len(t) - n = Len(a)
          BY <1>1, <1>2, <1>4, <2>6
        <4> QED BY <2>8, <4>1, Zenon
      <3> QED BY <2>1, <2>6, <3>1, <3>2 DEF Ends
    <2>14. /\ <<>> \in Seq(Node) /\ Once(<<>>) /\ Apartly(t, <<>>)
           /\ \A m \in ListId \ {dst, add} : Apartly(c[m], <<>>)
           /\ \A k \in 1..Len(<<>>) : <<>>[k] \notin freed'
      BY DEF Once, Apartly
    <2>15. Forward(<<>>)' /\ Backward(<<>>)' /\ list'[add] = Ends(<<>>)
      BY <2>1 DEF Forward, Backward, Ends, Elem, EmptyList
    <2>16. \A m \in ListId \ {dst, add} : Apartly(c[m], t)
      BY <2>3, <2>11 DEF Apartly
    <2>17. /\ \A k \in 1..Len(t) : t[k] \notin freed'
           /\ \A m \in ListId \ {dst, add} : \A k \in 1..Len(c[m]) : c[m][k] \notin freed'
      BY <2>1, <2>4, <2>11
    <2>18. Represents([c EXCEPT ![dst] = t, ![add] = <<>>])'
      BY <2>6, <2>7, <2>10, <2>12, <2>13, <2>14, <2>15, <2>16, <2>17, RepresentTwo, Zenon
    <2> QED BY <2>18 DEF t, s, a
  <1> QED BY <1>3, <1>4

\* A list is emptied, its nodes are freed.
LEMMA FreeStep ==
  ASSUME Typed, NEW c, Represents(c), NEW l \in ListId, Len(c[l]) # 0, lstFree(l)
  PROVE  /\ Represents([c EXCEPT ![l] = <<>>])'
         /\ freed' = freed \cup {c[l][k] : k \in 1..Len(c[l])}
  <1> DEFINE s == c[l]
  <1>1. /\ s \in Seq(Node) /\ Once(s) /\ Len(s) \in Nat
        /\ list[l].HEAD = Elem(s, 1) /\ list[l].count = Len(s)
    BY ListIs DEF Once
  <1>2. \A k \in 1..Len(s) : next[s[k]] = Elem(s, k + 1)
    BY Zenon DEF Represents, Forward
  <1>3. /\ \A m \in ListId \ {l} : \A k \in 1..Len(c[m]), h \in 1..Len(s) : c[m][k] # s[h]
        /\ \A m \in ListId : \A k \in 1..Len(c[m]) : c[m][k] \notin freed
    BY Zenon DEF Represents, Distinct
  <1> HIDE DEF s
  <1>4. Chain(next, Elem(s, 1)) = {s[k] : k \in 1..Len(s)}
    BY <1>1, <1>2, ChainIs
  <1>5. list[l].count > 0
    BY <1>1 DEF s
  <1>6. /\ freed' = freed \cup {s[k] : k \in 1..Len(s)}
        /\ list' = [list EXCEPT ![l] = EmptyList]
        /\ UNCHANGED <<next, previous>>
    BY <1>1, <1>4, <1>5, Zenon DEF lstFree
  <1>7. list'[l] = EmptyList /\ \A m \in ListId \ {l} : list'[m] = list[m]
    BY <1>6 DEF Typed
  <1>8. \A m \in ListId \ {l} : Forward(c[m])' /\ Backward(c[m])' /\ list'[m] = Ends(c[m])
    <2> TAKE m \in ListId \ {l}
    <2> QED BY <1>6, <1>7, KeptList
  <1>9. Forward(<<>>)' /\ Backward(<<>>)' /\ list'[l] = Ends(<<>>)
    BY <1>7 DEF Forward, Backward, Ends, Elem, EmptyList
  <1>10. \A m \in ListId \ {l} : \A k \in 1..Len(c[m]) : c[m][k] \notin freed'
    BY <1>3, <1>6
  <1>11. <<>> \in Seq(Node) /\ 1..Len(<<>>) = {}
    OBVIOUS
  <1>12. Represents([c EXCEPT ![l] = <<>>])'
    BY <1>8, <1>9, <1>10, <1>11, RepresentOne
  <1> QED BY <1>6, <1>12 DEF s

\* Whatever is written into nodes that are in no list.
LEMMA ScribbleStep ==
  ASSUME Typed, NEW c, Represents(c), UNCHANGED <<list, freed>>,
         \A y \in Node : ~Loose(y) => next'[y] = next[y] /\ previous'[y] = previous[y]
  PROVE  Represents(c)'
  <1>1. \A m \in ListId : Forward(c[m])' /\ Backward(c[m])' /\ list'[m] = Ends(c[m])
    <2> TAKE m \in ListId
    <2>1. /\ \A k \in 1..Len(c[m]) : c[m][k] \in Node
          /\ InList(m) = {c[m][k] : k \in 1..Len(c[m])}
      BY ListIs
    <2>2. \A k \in 1..Len(c[m]) : ~Loose(c[m][k])
      BY <2>1 DEF Loose
    <2>3. \A k \in 1..Len(c[m]) : /\ next'[c[m][k]] = next[c[m][k]]
                                  /\ previous'[c[m][k]] = previous[c[m][k]]
      BY <2>1, <2>2
    <2> QED BY <2>3, KeptList
  <1> QED BY <1>1, Zenon DEF Represents

\* A loose node is in none of the lists; NewNode is one, if there is any.
LEMMA LooseIs ==
  ASSUME NEW c, Represents(c), \E new \in Node : Loose(new)
  PROVE  NewNode \in Node /\ NewNode \notin freed /\ Outside(NewNode, c)
  <1>1. NewNode \in Node /\ Loose(NewNode)
    BY Zenon DEF NewNode
  <1>2. \A l \in ListId : InList(l) = {c[l][i] : i \in 1..Len(c[l])}
    BY ListIs
  <1> HIDE DEF NewNode
  <1>3. ASSUME NEW x \in Node, Loose(x) PROVE x \notin freed /\ Outside(x, c)
    BY <1>2, <1>3 DEF Loose, Outside
  <1> QED BY <1>1, <1>3

-----------------------------------------------------------------------------
\* The routines as the specification of lists has them.

\* After a step the lists stand for sequences again, and those changed as they may.
Implements ==
  /\ Typed' /\ \E d : Represents(d)'
  /\ Abstract!Next \/ UNCHANGED (Abstract!vars)

\* The sequences that are read are the ones represented, before a step and after it.
LEMMA AbstractIs ==
  ASSUME NEW c, Represents(c), NEW d, Represents(d)'
  PROVE  /\ [l \in ListId |-> Contents(l)] = c
         /\ [l \in ListId |-> Contents(l)]' = d
  <1>1. ReadingGives /\ ReadingGives'
    BY ContentsAre, PTL
  <1> QED BY <1>1, Zenon DEF ReadingGives

\* The descriptors are what the sequences make them, the links pointers.
LEMMA TypedAfter ==
  ASSUME next' \in [Node -> Pointer], previous' \in [Node -> Pointer],
         list' = [l \in ListId |-> list'[l]], NEW d, Represents(d)'
  PROVE  Typed'
  <1>1. \A l \in ListId : d[l] \in Seq(Node) /\ list'[l] = Ends(d[l])
    BY DEF Represents
  <1>2. \A s \in Seq(Node) : Ends(s) \in [HEAD : Pointer, TAIL : Pointer, count : Int]
    BY DEF Ends, Elem, Pointer
  <1>3. list' \in [ListId -> [HEAD : Pointer, TAIL : Pointer, count : Int]]
    BY <1>1, <1>2
  <1> QED BY <1>3 DEF Typed

\* lstInsert, and with it lstAdd, makes a step of Insert.
LEMMA InsertImplements ==
  ASSUME Typed, NEW c, Represents(c), NEW l \in ListId, NEW i \in 0..Len(c[l]),
         NEW x \in Node, x \notin freed, Outside(x, c), lstInsert(l, Elem(c[l], i), x)
  PROVE  Implements
  <1> DEFINE d == [c EXCEPT ![l] = Abstract!InsertAt(c[l], i + 1, x)]
             p == Elem(c[l], i)
  <1>1. Represents(d)'
    BY InsertStep
  <1>2. Typed'
    <2>1. p \in Pointer
      <3>1. c[l] \in Seq(Node)
        BY ListIs
      <3> QED BY <3>1 DEF Elem, Pointer
    <2>2. lstInsert(l, p, x)
      OBVIOUS
    <2> HIDE DEF p, d
    <2> DEFINE after == IF p = NULL THEN list[l].HEAD ELSE next[p]
    <2>3. after \in Pointer
      BY <2>1, NullAssumption DEF Typed, Pointer
    <2>4. /\ next' = Store(Store(next, p, x), x, after)
          /\ previous' = Store(Store(previous, after, x), x, p)
      BY <2>2, Zenon DEF lstInsert
    <2> HIDE DEF after
    <2>5. next' \in [Node -> Pointer] /\ previous' \in [Node -> Pointer]
      BY <2>1, <2>3, <2>4, NullAssumption DEF Typed, Store, Pointer
    <2>6. list' = [m \in ListId |-> list'[m]]
      BY <2>2 DEF lstInsert, Typed
    <2> QED BY <1>1, <2>5, <2>6, TypedAfter
  <1>3. Abstract!Next
    <2> HIDE DEF d
    <2>1. [m \in ListId |-> Contents(m)] = c /\ [m \in ListId |-> Contents(m)]' = d
      BY <1>1, AbstractIs
    <2>2. UNCHANGED freed
      BY DEF lstInsert
    <2>3. Abstract!Insert(l, i, x)
      BY <2>1, <2>2 DEF Abstract!Insert, d
    <2>4. x \in Node \ (Abstract!Linked \cup freed)
      <3>1. \A m \in ListId : x \notin Abstract!ToSet(c[m])
        <4>1. \A m \in ListId : c[m] \in Seq(Node)
          BY ListIs
        <4> QED BY <4>1 DEF Abstract!ToSet, Outside
      <3>2. Abstract!Linked = UNION {Abstract!ToSet(c[m]) : m \in ListId}
        BY <2>1 DEF Abstract!Linked
      <3> QED BY <3>1, <3>2
    <2>5. i \in 0..Len([m \in ListId |-> Contents(m)][l])
      BY <2>1
    <2> QED BY <2>3, <2>4, <2>5 DEF Abstract!Next
  <1> QED BY <1>1, <1>2, <1>3 DEF Implements

\* lstDelete makes a step of Delete.
LEMMA DeleteImplements ==
  ASSUME Typed, NEW c, Represents(c), NEW l \in ListId, NEW i \in 1..Len(c[l]),
         lstDelete(l, c[l][i])
  PROVE  Implements
  <1> DEFINE d == [c EXCEPT ![l] = Abstract!RemoveAt(c[l], i)]
             n == c[l][i]
  <1>1. Represents(d)'
    BY DeleteStep
  <1>2. Typed'
    <2>1. n \in Node /\ lstDelete(l, n)
      BY ListIs
    <2> HIDE DEF n, d
    <2>2. next[n] \in Pointer /\ previous[n] \in Pointer
      BY <2>1 DEF Typed
    <2>3. next' \in [Node -> Pointer] /\ previous' \in [Node -> Pointer]
      BY <2>1, <2>2, NullAssumption DEF lstDelete, Typed, Store, Pointer
    <2>4. list' = [m \in ListId |-> list'[m]]
      BY <2>1 DEF lstDelete, Typed
    <2> QED BY <1>1, <2>3, <2>4, TypedAfter
  <1>3. Abstract!Next
    <2>1. UNCHANGED freed
      BY DEF lstDelete
    <2>2. i \in DOMAIN c[l]
      BY ListIs
    <2> HIDE DEF d
    <2>3. [m \in ListId |-> Contents(m)] = c /\ [m \in ListId |-> Contents(m)]' = d
      BY <1>1, AbstractIs
    <2>4. Abstract!Delete(l, i)
      BY <2>1, <2>3 DEF Abstract!Delete, d
    <2>5. i \in DOMAIN [m \in ListId |-> Contents(m)][l]
      BY <2>2, <2>3
    <2> QED BY <2>4, <2>5 DEF Abstract!Next
  <1> QED BY <1>1, <1>2, <1>3 DEF Implements

\* lstGet makes a step of Delete, or none if the list is empty.
LEMMA GetImplements ==
  ASSUME Typed, NEW c, Represents(c), NEW l \in ListId, lstGet(l)
  PROVE  Implements
  <1> DEFINE d == [c EXCEPT ![l] = Abstract!RemoveAt(c[l], 1)]
  <1>1. CASE Len(c[l]) = 0
    <2>1. UNCHANGED lstVars
      BY <1>1, GetStep
    <2>2. Represents(c)'
      BY <2>1 DEF lstVars, Represents, Forward, Backward
    <2>3. [m \in ListId |-> Contents(m)] = c /\ [m \in ListId |-> Contents(m)]' = c
      BY <2>2, AbstractIs
    <2>4. UNCHANGED (Abstract!vars)
      BY <2>1, <2>3 DEF Abstract!vars, lstVars
    <2>5. Typed'
      BY <2>1 DEF Typed, lstVars
    <2> QED BY <2>2, <2>4, <2>5 DEF Implements
  <1>2. CASE Len(c[l]) # 0
    <2>1. Represents(d)'
      BY <1>2, GetStep
    <2>2. c[l] \in Seq(Node) /\ list[l].HEAD = Elem(c[l], 1)
      BY ListIs
    <2>3. list[l].HEAD \in Node /\ list[l].HEAD # NULL
      BY <1>2, <2>2, NullAssumption DEF Elem
    <2> DEFINE n == list[l].HEAD
               after == next[n]
    <2>4. /\ previous' = Store(previous, after, NULL)
          /\ list' = [list EXCEPT ![l] =
               [HEAD |-> after, TAIL |-> IF after = NULL THEN NULL ELSE @.TAIL,
                count |-> @.count - 1]]
          /\ UNCHANGED <<next, freed>>
      BY <2>3, Zenon DEF lstGet
    <2>5. Typed'
      <3>1. after \in Pointer
        BY <2>3 DEF Typed
      <3> HIDE DEF d, after
      <3>2. next' \in [Node -> Pointer] /\ previous' \in [Node -> Pointer]
        BY <2>4, <3>1, NullAssumption DEF Typed, Store, Pointer
      <3>3. list' = [m \in ListId |-> list'[m]]
        BY <2>4 DEF Typed
      <3> QED BY <2>1, <3>2, <3>3, TypedAfter
    <2>6. 1 \in DOMAIN c[l]
      BY <1>2, <2>2
    <2> HIDE DEF d
    <2>7. [m \in ListId |-> Contents(m)] = c /\ [m \in ListId |-> Contents(m)]' = d
      BY <2>1, AbstractIs
    <2>8. Abstract!Delete(l, 1)
      BY <2>4, <2>7 DEF Abstract!Delete, d
    <2>9. 1 \in DOMAIN [m \in ListId |-> Contents(m)][l]
      BY <2>6, <2>7
    <2>10. Abstract!Next
      BY <2>8, <2>9 DEF Abstract!Next
    <2> QED BY <2>1, <2>5, <2>10 DEF Implements
  <1> QED BY <1>1, <1>2

\* lstExtract makes a step of Extract.
LEMMA ExtractImplements ==
  ASSUME Typed, NEW c, Represents(c), NEW src \in ListId, NEW dst \in ListId, src # dst,
         Len(c[dst]) = 0, NEW i \in 1..Len(c[src]), NEW j \in i..Len(c[src]),
         lstExtract(src, c[src][i], c[src][j], dst)
  PROVE  Implements
  <1> DEFINE d == [c EXCEPT ![src] = Without(c[src], i, j), ![dst] = SubSeq(c[src], i, j)]
             start == c[src][i]
             end == c[src][j]
  <1>1. Represents(d)'
    BY ExtractStep
  <1>2. start \in Node /\ end \in Node /\ i \in DOMAIN c[src] /\ c[dst] = <<>>
    <2>1. /\ c[src] \in Seq(Node) /\ \A k \in 1..Len(c[src]) : c[src][k] \in Node
      BY ListIs
    <2>2. j \in 1..Len(c[src])
      BY <2>1
    <2>3. c[dst] \in Seq(Node)
      BY ListIs
    <2>4. c[dst] = <<>>
      BY <2>3, EmptySeq
    <2> QED BY <2>1, <2>2, <2>4
  <1>3. lstExtract(src, start, end, dst)
    OBVIOUS
  <1>4. Typed'
    <2> HIDE DEF start, end, d
    <2> DEFINE before == previous[start]
               after == next[end]
    <2>1. before \in Pointer /\ after \in Pointer
      BY <1>2 DEF Typed
    <2>2. /\ next' = Store(Store(next, before, after), end, NULL)
          /\ previous' = Store(Store(previous, after, before), start, NULL)
      BY <1>3, Zenon DEF lstExtract
    <2> HIDE DEF before, after
    <2>3. next' \in [Node -> Pointer] /\ previous' \in [Node -> Pointer]
      BY <1>2, <2>1, <2>2, NullAssumption DEF Typed, Store, Pointer
    <2>4. list' = [m \in ListId |-> list'[m]]
      BY <1>3 DEF lstExtract, Typed
    <2> QED BY <1>1, <2>3, <2>4, TypedAfter
  <1>5. Abstract!Next
    <2>1. UNCHANGED freed
      BY <1>3 DEF lstExtract
    <2> HIDE DEF start, end, d
    <2>2. [m \in ListId |-> Contents(m)] = c /\ [m \in ListId |-> Contents(m)]' = d
      BY <1>1, AbstractIs
    <2>3. Abstract!Extract(src, i, j, dst)
      <3>1. d = [c EXCEPT ![src] = SubSeq(c[src], 1, i - 1) \o SubSeq(c[src], j + 1, Len(c[src])),
                          ![dst] = SubSeq(c[src], i, j)]
        BY DEF d, Without
      <3>2. c \in [ListId -> Seq(Node)]
        BY DEF Represents
      <3> QED BY <1>2, <2>1, <2>2, <3>1, <3>2, Zenon DEF Abstract!Extract
    <2>4. /\ i \in DOMAIN [m \in ListId |-> Contents(m)][src]
          /\ j \in i..Len([m \in ListId |-> Contents(m)][src])
      BY <1>2, <2>2
    <2> QED BY <2>3, <2>4 DEF Abstract!Next
  <1> QED BY <1>1, <1>4, <1>5 DEF Implements

\* lstConcat makes a step of Concat.
LEMMA ConcatImplements ==
  ASSUME Typed, NEW c, Represents(c), NEW dst \in ListId, NEW add \in ListId, dst # add,
         lstConcat(dst, add)
  PROVE  Implements
  <1> DEFINE d == [c EXCEPT ![dst] = c[dst] \o c[add], ![add] = <<>>]
  <1>1. Represents(d)'
    BY ConcatStep
  <1> HIDE DEF d
  <1>2. /\ list[add].HEAD \in Pointer /\ list[dst].TAIL \in Pointer
    BY DEF Typed
  <1>3. next' \in [Node -> Pointer] /\ previous' \in [Node -> Pointer]
    BY <1>2, NullAssumption DEF lstConcat, Typed, Store, Pointer, lstVars
  <1>4. list' = [m \in ListId |-> list'[m]]
    BY DEF lstConcat, Typed, lstVars
  <1>5. Typed'
    BY <1>1, <1>3, <1>4, TypedAfter
  <1>6. UNCHANGED freed
    BY DEF lstConcat, lstVars
  <1>7. [m \in ListId |-> Contents(m)] = c /\ [m \in ListId |-> Contents(m)]' = d
    BY <1>1, AbstractIs
  <1>8. Abstract!Concat(dst, add)
    BY <1>6, <1>7, Zenon DEF Abstract!Concat, d
  <1>9. Abstract!Next
    BY <1>8 DEF Abstract!Next
  <1> QED BY <1>1, <1>5, <1>9 DEF Implements

\* lstFree makes a step of Free.
LEMMA FreeImplements ==
  ASSUME Typed, NEW c, Represents(c), NEW l \in ListId, list[l].count > 0, lstFree(l)
  PROVE  Implements
  <1> DEFINE d == [c EXCEPT ![l] = <<>>]
  <1>1. c[l] \in Seq(Node) /\ list[l].count = Len(c[l]) /\ Len(c[l]) # 0
    BY ListIs
  <1>2. Represents(d)' /\ freed' = freed \cup {c[l][k] : k \in 1..Len(c[l])}
    BY <1>1, FreeStep
  <1> HIDE DEF d
  <1>3. UNCHANGED <<next, previous>> /\ list' = [list EXCEPT ![l] = EmptyList]
    BY Zenon DEF lstFree
  <1>4. Typed'
    <2>1. list' = [m \in ListId |-> list'[m]]
      BY <1>3 DEF Typed
    <2>2. next' \in [Node -> Pointer] /\ previous' \in [Node -> Pointer]
      BY <1>3 DEF Typed
    <2> QED BY <1>2, <2>1, <2>2, TypedAfter
  <1>5. [m \in ListId |-> Contents(m)] = c /\ [m \in ListId |-> Contents(m)]' = d
    BY <1>2, AbstractIs
  <1>6. {c[l][k] : k \in 1..Len(c[l])} = Abstract!ToSet(c[l])
    BY <1>1 DEF Abstract!ToSet
  <1>7. Abstract!Free(l)
    BY <1>2, <1>5, <1>6, Zenon DEF Abstract!Free, d
  <1>8. Abstract!Next
    BY <1>7 DEF Abstract!Next
  <1> QED BY <1>2, <1>4, <1>8 DEF Implements

-----------------------------------------------------------------------------
\* The inductive invariant of the lists, above that of the mutexes.

\* What a task has looked up is in the list it was looked up in, until it is used.
FoundInv ==
  /\ found \in [Threads -> [l : ListId, n : Pointer] \cup {NotFound}]
  /\ \A t \in Threads : at[t] = "found" =>
       /\ found[t] \in [l : ListId, n : Pointer]
       /\ found[t].n # NULL => found[t].n \in InList(found[t].l)

\* A thread that was joined has ended.
JoinedInv ==
  /\ joined \subseteq Threads
  /\ \A t \in joined : at[t] = "ended"

\* The lists stand for sequences of nodes.
Standing == Typed /\ \E c : Represents(c)

ListsInv ==
  /\ exitPending \in [Threads -> BOOLEAN] /\ freed \subseteq Node
  /\ FoundInv /\ JoinedInv /\ Standing

\* It holds at the start: all lists are empty.
LEMMA InitLists == Init => ListsInv
  <1> SUFFICES ASSUME Init PROVE ListsInv
    OBVIOUS
  <1> DEFINE c == [l \in ListId |-> <<>>]
  <1>1. /\ next = [n \in Node |-> n] /\ previous = [n \in Node |-> n]
        /\ list = [l \in ListId |-> EmptyList] /\ freed = {}
    BY DEF Init, LstInit
  <1>2. Typed
    BY <1>1 DEF Typed, EmptyList, Pointer
  <1>3. Represents(c)
    <2>1. c \in [ListId -> Seq(Node)] /\ \A l \in ListId : c[l] = <<>> /\ 1..Len(<<>>) = {}
      OBVIOUS
    <2>2. \A l \in ListId : list[l] = Ends(c[l])
      BY <1>1 DEF EmptyList, Ends, Elem
    <2>3. \A l \in ListId : Forward(c[l]) /\ Backward(c[l])
      BY DEF Forward, Backward
    <2>4. Distinct(c) /\ \A l \in ListId : \A i \in 1..Len(c[l]) : c[l][i] \notin freed
      BY DEF Distinct
    <2> QED BY <2>1, <2>2, <2>3, <2>4 DEF Represents
  <1>4. FoundInv /\ JoinedInv /\ exitPending \in [Threads -> BOOLEAN]
    BY DEF Init, ThreadInit, FoundInv, JoinedInv
  <1> QED BY <1>1, <1>2, <1>3, <1>4 DEF ListsInv, Standing

\* Writing nothing, and writing into loose nodes only, keeps the sequences.
LEMMA NothingImplements ==
  ASSUME Standing, UNCHANGED lstVars
  PROVE  Implements
  <1>1. PICK c : Represents(c)
    BY DEF Standing
  <1>2. Represents(c)'
    BY <1>1 DEF lstVars, Represents, Forward, Backward
  <1>3. [m \in ListId |-> Contents(m)] = c /\ [m \in ListId |-> Contents(m)]' = c
    BY <1>1, <1>2, AbstractIs
  <1>4. Typed' /\ UNCHANGED (Abstract!vars)
    BY <1>3 DEF Standing, Typed, lstVars, Abstract!vars
  <1> QED BY <1>2, <1>4 DEF Implements

\* The scribbling of a task that unlocks is not seen in the sequences.
LEMMA ScribbleImplements ==
  ASSUME Standing, NEW t \in Threads, TaskUnlocks(t)
  PROVE  Implements
  <1>1. PICK c : Represents(c)
    BY DEF Standing
  <1>2. /\ next' = [n \in Node |-> IF Loose(n) THEN n ELSE next[n]]
        /\ previous' = [n \in Node |-> IF Loose(n) THEN n ELSE previous[n]]
        /\ UNCHANGED <<list, freed>>
    BY DEF TaskUnlocks
  <1>3. Typed'
    BY <1>2 DEF Standing, Typed, Pointer
  <1>4. Represents(c)'
    <2>1. \A y \in Node : ~Loose(y) => next'[y] = next[y] /\ previous'[y] = previous[y]
      BY <1>2
    <2> QED BY <1>1, <1>2, <2>1, ScribbleStep DEF Standing
  <1>5. [m \in ListId |-> Contents(m)] = c /\ [m \in ListId |-> Contents(m)]' = c
    BY <1>1, <1>4, AbstractIs
  <1>6. UNCHANGED (Abstract!vars)
    BY <1>2, <1>5 DEF Abstract!vars
  <1> QED BY <1>3, <1>4, <1>6 DEF Implements

\* Whatever a task does with what it found.
LEMMA UseImplements ==
  ASSUME ListsInv, NEW t \in Threads, TaskUses(t)
  PROVE  Implements
  <1>1. PICK c : Represents(c)
    BY DEF ListsInv, Standing
  <1>2. Typed /\ at[t] = "found"
    BY DEF ListsInv, Standing, TaskUses
  <1>3. PICK l \in ListId, n \in Pointer : l = found[t].l /\ n = found[t].n
    BY <1>2 DEF ListsInv, FoundInv
  <1>4. n # NULL => n \in InList(l)
    BY <1>2, <1>3 DEF ListsInv, FoundInv
  <1>5. PICK s \in Seq(Node) : s = c[l]
    BY <1>1, ListIs
  <1>6. n # NULL => \E i \in 1..Len(s) : n = s[i]
    BY <1>1, <1>4, <1>5, ListIs
  <1>7. \/ TaskInserts(l, n) \/ TaskDeletes(l, n) \/ TaskExtracts(l, n)
        \/ ((\E new \in Node : Loose(new)) /\ lstAdd(l, NewNode))
        \/ lstGet(l)
        \/ (\E add \in ListId \ {l} : lstConcat(l, add))
    BY <1>3, Zenon DEF TaskUses
  <1>8. PICK x : x = NewNode
    OBVIOUS
  <1>9. (\E new \in Node : Loose(new)) => x \in Node /\ x \notin freed /\ Outside(x, c)
    BY <1>1, <1>8, LooseIs
  <1>10. CASE TaskInserts(l, n)
    <2>1. (\E new \in Node : Loose(new)) /\ lstInsert(l, n, x)
      BY <1>8, <1>10 DEF TaskInserts
    <2>2. PICK i \in 0..Len(s) : n = Elem(s, i)
      <3>1. CASE n = NULL
        <4>1. 0 \in 0..Len(s) /\ Elem(s, 0) = NULL
          BY DEF Elem
        <4> QED BY <3>1, <4>1
      <3>2. CASE n # NULL
        <4>1. PICK i \in 1..Len(s) : n = s[i]
          BY <1>6, <3>2
        <4>2. i \in 0..Len(s) /\ Elem(s, i) = s[i]
          BY DEF Elem
        <4> QED BY <4>1, <4>2
      <3> QED BY <3>1, <3>2
    <2>3. i \in 0..Len(c[l]) /\ lstInsert(l, Elem(c[l], i), x)
      BY <1>5, <2>1, <2>2
    <2> QED BY <1>1, <1>2, <1>9, <2>1, <2>3, InsertImplements
  <1>11. CASE TaskDeletes(l, n)
    <2>1. n # NULL /\ lstDelete(l, n)
      BY <1>11 DEF TaskDeletes
    <2>2. PICK i \in 1..Len(s) : n = s[i]
      BY <1>6, <2>1
    <2>3. i \in 1..Len(c[l]) /\ lstDelete(l, c[l][i])
      BY <1>5, <2>1, <2>2
    <2> QED BY <1>1, <1>2, <2>3, DeleteImplements
  <1>12. CASE TaskExtracts(l, n)
    <2>1. PICK steps \in 0..Cardinality(Node), dst \in ListId \ {l} :
            /\ n # NULL /\ lstNStep(n, steps) # NULL /\ list[dst].count = 0
            /\ lstExtract(l, n, lstNStep(n, steps), dst)
      BY <1>12 DEF TaskExtracts
    <2>2. PICK i \in 1..Len(s) : n = s[i]
      BY <1>6, <2>1
    <2>3. lstNStep(n, steps) = Elem(s, i + steps)
      <3>1. i \in 1..Len(c[l]) /\ steps \in Int /\ n = c[l][i]
        BY <1>5, <2>2
      <3> QED BY <1>1, <1>5, <3>1, NStepIs
    <2>4. PICK j \in i..Len(s) : lstNStep(n, steps) = s[j]
      <3>1. i + steps \in 1..Len(s)
        BY <2>1, <2>3 DEF Elem
      <3>2. Elem(s, i + steps) = s[i + steps] /\ i + steps \in i..Len(s)
        BY <3>1 DEF Elem
      <3> QED BY <2>3, <3>2
    <2>5. Len(c[dst]) = 0
      BY <1>1, <2>1, ListIs
    <2>6. /\ i \in 1..Len(c[l]) /\ j \in i..Len(c[l]) /\ l # dst
          /\ lstExtract(l, c[l][i], c[l][j], dst)
      BY <1>5, <2>1, <2>2, <2>4
    <2> QED BY <1>1, <1>2, <2>5, <2>6, ExtractImplements
  <1>13. CASE (\E new \in Node : Loose(new)) /\ lstAdd(l, NewNode)
    <2>1. lstInsert(l, Elem(c[l], Len(c[l])), x)
      BY <1>1, <1>8, <1>13, ListIs DEF lstAdd
    <2>2. Len(c[l]) \in 0..Len(c[l])
      BY <1>5
    <2>3. x \in Node /\ x \notin freed /\ Outside(x, c)
      BY <1>9, <1>13
    <2> QED BY <1>1, <1>2, <2>1, <2>2, <2>3, InsertImplements
  <1>14. CASE lstGet(l)
    BY <1>1, <1>2, <1>14, GetImplements
  <1>15. CASE \E add \in ListId \ {l} : lstConcat(l, add)
    BY <1>1, <1>2, <1>15, ConcatImplements
  <1> QED BY <1>7, <1>10, <1>11, <1>12, <1>13, <1>14, <1>15

\* No list routine frees what is not a node.
LEMMA FreedNodes ==
  ASSUME Standing, Abstract!Next \/ UNCHANGED (Abstract!vars)
  PROVE  freed' \subseteq freed \cup Node
  <1>1. PICK c : Represents(c)
    BY DEF Standing
  <1>2. c \in [ListId -> Seq(Node)] /\ [m \in ListId |-> Contents(m)] = c
    <2>1. \A l \in ListId : Contents(l) = c[l]
      BY <1>1, ListIs
    <2> QED BY <1>1, <2>1 DEF Represents
  <1>3. \A l \in ListId : Abstract!ToSet(c[l]) \subseteq Node
    BY <1>2 DEF Abstract!ToSet
  <1>4. CASE \E l \in ListId : Abstract!Free(l)
    BY <1>2, <1>3, <1>4 DEF Abstract!Free
  <1>5. CASE UNCHANGED freed
    BY <1>5
  <1> QED BY <1>4, <1>5 DEF Abstract!Next, Abstract!vars, Abstract!Insert, Abstract!Delete,
                            Abstract!Extract, Abstract!Concat

\* What the lists have to do with the rest: a step that implements the sequences' one
\* keeps the invariant if it keeps the other parts.
LEMMA StepKeeps ==
  ASSUME ListsInv, Implements, FoundInv', JoinedInv', exitPending' \in [Threads -> BOOLEAN]
  PROVE  ListsInv'
  <1>1. freed' \subseteq Node
    BY FreedNodes DEF ListsInv, Implements
  <1> QED BY <1>1 DEF ListsInv, Implements, Standing

\* Steps that leave the lists, and what was found in them, alone.
LEMMA ApartKeeps ==
  ASSUME IInv, ListsInv, UNCHANGED <<lstVars, found>>,
         OwnerNext \/ \E t \in Threads : IsQuitLocks(t) \/ IsQuit(t) \/ TaskLocks(t)
  PROVE  Implements /\ ListsInv'
  <1>1. Implements
    BY NothingImplements DEF ListsInv
  <1>2. ASSUME \A t \in Threads : at'[t] = "found" => at[t] = "found" PROVE FoundInv'
    <2>1. \A l \in ListId : InList(l)' = InList(l)
      BY DEF InList, Contents, lstVars
    <2> QED BY <1>2, <2>1 DEF ListsInv, FoundInv
  <1> USE DEF IInv, Types, ListsInv, JoinedInv, OwnerInv
  <1>3. CASE OwnerNext
    <2>1. /\ \A t \in Threads : at'[t] = "found" => at[t] = "found"
          /\ \A t \in Threads : at[t] = "ended" => at'[t] = "ended"
      BY <1>3 DEF OwnerNext, Construct, CallRequestExit, CallJoin, RequestExit,
                  RequestExitAndWait, RequestExitAndWaitReturns, JoinReturns, Goto, Free
    <2>2. exitPending' \in [Threads -> BOOLEAN]
      BY <1>3 DEF OwnerNext, Construct, CallRequestExit, CallJoin, RequestExit,
                  RequestExitAndWait, RequestExitAndWaitReturns, JoinReturns
    <2>3. \/ UNCHANGED joined
          \/ joined' = joined \cup {owner.t} /\ at[owner.t] = "ended" /\ owner.t \in Threads
      BY <1>3 DEF OwnerNext, Construct, CallRequestExit, CallJoin, RequestExit,
                  RequestExitAndWait, RequestExitAndWaitReturns, JoinReturns
    <2>4. JoinedInv'
      BY <2>1, <2>3
    <2> QED BY <1>1, <1>2, <2>1, <2>2, <2>4, StepKeeps
  <1>4. ASSUME NEW t \in Threads, IsQuitLocks(t) \/ IsQuit(t) \/ TaskLocks(t)
        PROVE  ListsInv'
    <2>1. /\ at' \in [Threads -> Places \cup {at'[t]}] /\ at'[t] \notin {"found"}
          /\ \A u \in Threads \ {t} : at'[u] = at[u]
          /\ at[t] # "ended" /\ UNCHANGED <<joined, exitPending>>
      BY <1>4 DEF IsQuitLocks, IsQuit, TaskLocks, Goto
    <2>2. JoinedInv'
      BY <2>1
    <2>3. FoundInv'
      BY <1>2, <2>1
    <2> QED BY <1>1, <2>1, <2>2, <2>3, StepKeeps
  <1> QED BY <1>1, <1>3, <1>4

\* The tasks' steps inside, and the freeing when none is left.
LEMMA InsideKeeps ==
  ASSUME IInv, ListsInv, NEW t \in Threads, LooksUp(t) \/ TaskUses(t) \/ TaskUnlocks(t)
  PROVE  Implements /\ ListsInv'
  <1> USE DEF IInv, Types
  <1>1. /\ at[t] \in Inside /\ UNCHANGED <<joined, exitPending>>
        /\ \A u \in Threads \ {t} : at'[u] = at[u]
    BY DEF LooksUp, TaskLooksUp, TaskUses, TaskUnlocks, Goto, Inside
  <1>2. \A u \in Threads \ {t} : at[u] # "found"
    BY <1>1 DEF GuardInv, Inside
  <1>3. JoinedInv' /\ exitPending' \in [Threads -> BOOLEAN]
    BY <1>1 DEF ListsInv, JoinedInv, Inside
  <1>4. CASE LooksUp(t)
    <2>1. PICK l \in ListId, k \in 0..Cardinality(Node) : TaskLooksUp(t, l, k)
      BY <1>4 DEF LooksUp
    <2>2. PICK n : n = lstNth(l, k)
      OBVIOUS
    <2>3. PICK c : Represents(c)
      BY DEF ListsInv, Standing
    <2>4. n \in Pointer /\ (n # NULL => n \in InList(l))
      <3>1. k \in Int
        OBVIOUS
      <3>2. n = Elem(c[l], k)
        BY <2>2, <2>3, <3>1, NthIs
      <3>3. c[l] \in Seq(Node) /\ InList(l) = {c[l][i] : i \in 1..Len(c[l])}
        BY <2>3, ListIs
      <3> QED BY <3>2, <3>3 DEF Elem, Pointer
    <2>5. found' = [found EXCEPT ![t] = [l |-> l, n |-> n]] /\ UNCHANGED lstVars
      BY <2>1, <2>2 DEF TaskLooksUp
    <2>6. InList(l)' = InList(l)
      BY <2>5 DEF InList, Contents, lstVars
    <2>7. FoundInv'
      BY <1>1, <1>2, <2>4, <2>5, <2>6 DEF ListsInv, FoundInv
    <2>8. Implements
      BY <2>5, NothingImplements DEF ListsInv
    <2> QED BY <1>3, <2>7, <2>8, StepKeeps
  <1>5. CASE TaskUses(t)
    <2>1. FoundInv'
      <3>1. at'[t] = "used" /\ found' = [found EXCEPT ![t] = NotFound]
        BY <1>5 DEF TaskUses, Goto
      <3> QED BY <1>1, <1>2, <3>1 DEF ListsInv, FoundInv
    <2> QED BY <1>3, <1>5, <2>1, UseImplements, StepKeeps
  <1>6. CASE TaskUnlocks(t)
    <2>1. FoundInv'
      <3>1. at'[t] # "found" /\ UNCHANGED found
        BY <1>6 DEF TaskUnlocks, Goto
      <3> QED BY <1>1, <1>2, <3>1 DEF ListsInv, FoundInv
    <2>2. Implements
      BY <1>6, ScribbleImplements DEF ListsInv
    <2> QED BY <1>3, <2>1, <2>2, StepKeeps
  <1> QED BY <1>4, <1>5, <1>6

\* Freeing a list when no task is left.
LEMMA FreesKeeps ==
  ASSUME ListsInv, NEW l \in ListId, OwnerFrees(l)
  PROVE  Implements /\ ListsInv'
  <1>1. joined = Threads /\ list[l].count > 0 /\ lstFree(l) /\ UNCHANGED <<threadVars, found>>
    BY DEF OwnerFrees
  <1>2. Implements
    <2>1. PICK c : Represents(c)
      BY DEF ListsInv, Standing
    <2> QED BY <1>1, <2>1, FreeImplements DEF ListsInv, Standing
  <1>3. FoundInv' /\ JoinedInv' /\ exitPending' \in [Threads -> BOOLEAN]
    BY <1>1 DEF ListsInv, FoundInv, JoinedInv, threadVars
  <1> QED BY <1>2, <1>3, StepKeeps

\* Every step keeps the lists in order and is a step of the specification of lists.
LEMMA NextLists == IInv /\ ListsInv /\ [Next]_vars => Implements /\ ListsInv'
  <1> SUFFICES ASSUME IInv, ListsInv, [Next]_vars PROVE Implements /\ ListsInv'
    OBVIOUS
  <1>1. CASE Apart(OwnerNext)
    BY <1>1, ApartKeeps DEF Apart
  <1>2. ASSUME NEW t \in Threads, Apart(IsQuitLocks(t)) \/ Apart(IsQuit(t)) \/ TaskLocks(t)
        PROVE  Implements /\ ListsInv'
    BY <1>2, ApartKeeps DEF Apart, TaskLocks
  <1>3. ASSUME NEW t \in Threads, LooksUp(t) \/ TaskUses(t) \/ TaskUnlocks(t)
        PROVE  Implements /\ ListsInv'
    BY <1>3, InsideKeeps
  <1>4. ASSUME NEW l \in ListId, OwnerFrees(l) PROVE Implements /\ ListsInv'
    BY <1>4, FreesKeeps
  <1>5. CASE UNCHANGED vars
    <2>1. Implements
      BY <1>5, NothingImplements DEF ListsInv, vars
    <2>2. \A l \in ListId : InList(l)' = InList(l)
      BY <1>5 DEF InList, Contents, vars, lstVars
    <2>3. FoundInv' /\ JoinedInv' /\ exitPending' \in [Threads -> BOOLEAN]
      BY <1>5, <2>2 DEF ListsInv, FoundInv, JoinedInv, vars, threadVars
    <2> QED BY <2>1, <2>3, StepKeeps
  <1> QED BY <1>1, <1>2, <1>3, <1>4, <1>5 DEF Next, Finished

-----------------------------------------------------------------------------
\* The lists stand for sequences of nodes in every reachable state, whatever links
\* lstDelete and lstGet leave behind in the nodes they take out.
THEOREM ListsInvariant == Spec => [](IInv /\ ListsInv)
  BY InitInv, NextInv, InitLists, NextLists, PTL DEF Spec

\* Type correctness: all variables stay in their sets, and no count outgrows the
\* nodes there are.
THEOREM TypeCorrect == Spec => []TypeOK
  <1>1. IInv /\ ListsInv => TypeOK
    <2> SUFFICES ASSUME IInv, ListsInv PROVE TypeOK
      OBVIOUS
    <2>1. PICK c : Represents(c)
      BY DEF ListsInv, Standing
    <2>2. \A l \in ListId : list[l].count \in 0..Cardinality(Node)
      BY <2>1, ListIs
    <2>3. list \in [ListId -> [HEAD : Pointer, TAIL : Pointer, count : 0..Cardinality(Node)]]
      BY <2>2 DEF ListsInv, Standing, Typed
    <2> QED BY <2>3 DEF TypeOK, IInv, Types, ListsInv, FoundInv, JoinedInv, Standing, Typed
  <1> QED BY <1>1, ListsInvariant, PTL

\* Every search finds what the sequence has, no node is in two lists, and none that
\* was freed is in any.
THEOREM AlwaysWellFormed == Spec => []WellFormed
  <1>1. ListsInv => WellFormed
    BY WellFormedIs DEF ListsInv, Standing
  <1> QED BY <1>1, ListsInvariant, PTL

\* What a task has looked up is still in its list when the task uses it.
THEOREM NeverStale == Spec => []NoStaleNode
  <1>1. ListsInv => NoStaleNode
    <2> SUFFICES ASSUME ListsInv, NEW t \in Threads, at[t] = "found", found[t].n # NULL
                 PROVE  found[t].n \in InList(found[t].l) \ freed
      BY DEF NoStaleNode
    <2>1. PICK c : Represents(c)
      BY DEF ListsInv, Standing
    <2>2. WellFormed
      BY <2>1, WellFormedIs
    <2>3. found[t].l \in ListId /\ found[t].n \in InList(found[t].l)
      BY DEF ListsInv, FoundInv
    <2> QED BY <2>2, <2>3 DEF WellFormed
  <1> QED BY <1>1, ListsInvariant, PTL

\* The routines implement the lists their comments promise: every step that the tasks
\* and the owner take is a step of Lists, or leaves the sequences alone.
THEOREM ImplementsLists == Spec => ListSpec
  <1>1. Init => Abstract!Init
    <2> SUFFICES ASSUME Init PROVE Abstract!Init
      OBVIOUS
    <2>1. \A l \in ListId : Contents(l) = <<>>
      <3> TAKE l \in ListId
      <3>1. list[l].count = 0
        BY DEF Init, LstInit, EmptyList
      <3> QED BY <3>1 DEF Contents
    <2> QED BY <2>1 DEF Abstract!Init, Init, LstInit
  <1>2. IInv /\ ListsInv /\ [Next]_vars => [Abstract!Next]_(Abstract!vars)
    BY NextLists DEF Implements
  <1> QED BY <1>1, <1>2, ListsInvariant, PTL DEF Spec, ListSpec, Abstract!Spec
=============================================================================
