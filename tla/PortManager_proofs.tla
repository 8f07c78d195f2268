------------------------- MODULE PortManager_proofs -------------------------
(***************************************************************************)
(* For any range of ports, any number of attempts that the range can hold, *)
(* any handles and whatever other processes do: no search tries a port     *)
(* twice, and no handle is left behind.                                    *)
(***************************************************************************)
EXTENDS PortManager, FiniteSetTheorems, TLAPS

-----------------------------------------------------------------------------
\* The inductive invariant.

\* The ports tried so far are the last ones up to the index, around the end of the
\* range if need be.
First == portIdx - attempt + 1

Arc ==
  tried = IF RangeStart <= First THEN First..portIdx
          ELSE (RangeStart..portIdx) \cup (First + RangeEnd - RangeStart + 1 .. RangeEnd)

Search ==
  searching =>
    /\ attempt <= MaxAttempts
    /\ Arc /\ IsFiniteSet(tried) /\ Cardinality(tried) = attempt

Owned == \A h \in Handles : handle[h] \in {"open", "bound"} => h \in given

IInv == TypeOK /\ Search /\ Owned

-----------------------------------------------------------------------------
\* The index moves to the next port, and from the last to the first.
LEMMA NextPortIs ==
  ASSUME NEW i \in Ports
  PROVE  NextPort(i) = IF i = RangeEnd THEN RangeStart ELSE i + 1
  <1> USE RangeAssumption DEF Ports
  <1>1. \A a, n \in Nat : 0 < n /\ a < n => a % n = a
    OBVIOUS
  <1>2. \A n \in Nat : 0 < n => n % n = 0
    OBVIOUS
  <1>3. CASE i = RangeEnd
    <2>1. (i + 1) % (RangeEnd + 1) = 0
      BY <1>2, <1>3
    <2> QED BY <2>1, <1>3 DEF NextPort
  <1>4. CASE i # RangeEnd
    <2>1. (i + 1) % (RangeEnd + 1) = i + 1
      BY <1>1, <1>4
    <2> QED BY <2>1, <1>4 DEF NextPort
  <1> QED BY <1>3, <1>4

\* The number of attempts is a number.
LEMMA Counted == MaxAttempts \in Nat
  BY RangeAssumption

\* A turn of the search tries a port that it has not tried, next to those it has.
LEMMA TurnMoves ==
  ASSUME TypeOK, Search, searching, attempt < MaxAttempts,
         attempt' = attempt + 1, portIdx' = NextPort(portIdx),
         tried' = tried \cup {portIdx'}
  PROVE  portIdx' \in Ports /\ portIdx' \notin tried /\ Arc'
  <1> DEFINE f == First
             n == RangeEnd - RangeStart + 1
  <1>1. /\ RangeStart \in Nat /\ RangeEnd \in Nat /\ RangeStart <= RangeEnd
        /\ portIdx \in RangeStart..RangeEnd /\ attempt \in Nat /\ attempt < n
        /\ f = portIdx - attempt + 1
    <2>1. attempt \in 0..(MaxAttempts + 1) /\ portIdx \in Ports
      BY DEF TypeOK
    <2>2. MaxAttempts <= n /\ MaxAttempts \in Nat
      BY RangeAssumption
    <2>3. attempt \in Nat /\ attempt < n
      BY <2>1, <2>2, RangeAssumption
    <2> QED BY <2>1, <2>3, RangeAssumption DEF Ports, First
  <1>2. portIdx' = IF portIdx = RangeEnd THEN RangeStart ELSE portIdx + 1
    BY NextPortIs DEF TypeOK
  <1>3. portIdx' \in Ports
    BY <1>1, <1>2 DEF Ports
  <1>4. tried = IF RangeStart <= f THEN f..portIdx
                ELSE (RangeStart..portIdx) \cup (f + n .. RangeEnd)
    BY <1>1 DEF Search, Arc
  <1>5. portIdx' \notin tried
    BY <1>1, <1>2, <1>4
  <1>6. Arc'
    <2> DEFINE g == portIdx' - attempt' + 1
    <2>1. g = First'
      BY DEF First
    <2>2. SUFFICES tried' = IF RangeStart <= g THEN g..portIdx'
                            ELSE (RangeStart..portIdx') \cup (g + n .. RangeEnd)
      BY <1>1, <1>2, <2>1 DEF Arc
    <2>3. CASE portIdx = RangeEnd /\ attempt = 0
      BY <1>1, <1>2, <1>4, <2>3
    <2>4. CASE portIdx = RangeEnd /\ attempt # 0
      <3>1. portIdx' = RangeStart /\ g = RangeStart - attempt
        BY <1>1, <1>2, <2>4
      <3>2. tried = RangeEnd - attempt + 1 .. RangeEnd
        BY <1>1, <1>4, <2>4
      <3>3. g + n = RangeEnd - attempt + 1 /\ ~(RangeStart <= g)
        BY <1>1, <2>4, <3>1
      <3> QED BY <1>1, <3>1, <3>2, <3>3
    <2>5. CASE portIdx # RangeEnd
      <3>1. portIdx' = portIdx + 1 /\ g = f
        BY <1>1, <1>2, <2>5
      <3>2. CASE RangeStart <= f
        BY <1>1, <1>4, <3>1, <3>2
      <3>3. CASE ~(RangeStart <= f)
        BY <1>1, <1>4, <3>1, <3>3
      <3> QED BY <3>2, <3>3
    <2> QED BY <2>3, <2>4, <2>5
  <1> QED BY <1>3, <1>5, <1>6

\* The invariant holds at the start.
LEMMA InitInv == Init => IInv
  <1> SUFFICES ASSUME Init PROVE IInv
    OBVIOUS
  <1>1. RangeStart \in Ports
    BY RangeAssumption DEF Ports
  <1>2. 0 \in 0..(MaxAttempts + 1)
    BY Counted
  <1>3. TypeOK
    BY <1>1, <1>2 DEF Init, TypeOK
  <1> QED BY <1>3 DEF Init, IInv, Search, Owned

\* Every step keeps it.
LEMMA NextInv == IInv /\ [Next]_vars => IInv'
  <1> SUFFICES ASSUME IInv, [Next]_vars PROVE IInv'
    OBVIOUS
  <1> USE DEF IInv
  <1>1. CASE UNCHANGED vars
    BY <1>1 DEF vars, callVars, TypeOK, Search, Arc, First, Owned
  <1>2. ASSUME NEW p \in Ports, BeginSearch(p)
        PROVE  IInv'
    <2>1. /\ portIdx' = p /\ attempt' = 0 /\ tried' = {} /\ outcome' = "none"
          /\ searching' = TRUE /\ UNCHANGED <<handle, port, others, given>>
      BY <1>2 DEF BeginSearch
    <2>2. p \in RangeStart..RangeEnd /\ RangeStart \in Nat /\ RangeEnd \in Nat
      BY RangeAssumption DEF Ports
    <2>3. First' = p + 1
      BY <2>1, <2>2 DEF First
    <2>4. Arc'
      BY <2>1, <2>2, <2>3 DEF Arc
    <2>5. IsFiniteSet(tried') /\ Cardinality(tried') = attempt'
      BY <2>1, FS_EmptySet
    <2>6. attempt' <= MaxAttempts /\ attempt' \in 0..(MaxAttempts + 1)
      BY <2>1, Counted
    <2>7. Search'
      BY <2>4, <2>5, <2>6 DEF Search
    <2> QED BY <2>1, <2>6, <2>7 DEF TypeOK, Owned
  <1>3. ASSUME NEW h \in Handles, NEW err \in {"ok", "EADDRINUSE"} \cup Throwing,
               TryPort(h, err)
        PROVE  IInv'
    <2>1. portIdx' \in Ports /\ portIdx' \notin tried /\ Arc'
      BY <1>3, TurnMoves DEF TryPort
    <2>2. /\ searching /\ attempt < MaxAttempts /\ attempt' = attempt + 1
          /\ tried' = tried \cup {portIdx'}
      BY <1>3 DEF TryPort
    <2>3. IsFiniteSet(tried) /\ Cardinality(tried) = attempt
      BY <2>2 DEF Search
    <2>4. IsFiniteSet(tried') /\ Cardinality(tried') = attempt'
      BY <2>1, <2>2, <2>3, FS_AddElement
    <2>5. attempt \in Nat /\ attempt' \in 0..(MaxAttempts + 1) /\ attempt' <= MaxAttempts
      <3>1. attempt \in 0..(MaxAttempts + 1)
        BY DEF TypeOK
      <3>2. attempt < MaxAttempts /\ attempt' = attempt + 1
        BY <2>2
      <3>3. attempt \in Nat
        BY <3>1, Counted
      <3>4. attempt' \in 0..(MaxAttempts + 1)
        BY <3>2, <3>3, Counted
      <3> QED BY <3>2, <3>3, <3>4, Counted
    <2>6. Search'
      BY <2>1, <2>4, <2>5 DEF Search
    <2>7. /\ handle' = [handle EXCEPT ![h] = IF err = "ok" THEN "bound" ELSE "closing"]
          /\ port' = [port EXCEPT ![h] = portIdx']
          /\ searching' \in BOOLEAN /\ others' = others
          /\ outcome' = IF err = "EADDRINUSE" THEN outcome ELSE err
          /\ given' = IF err = "ok" THEN given \cup {h} ELSE given
      BY <1>3 DEF TryPort, NewHandle
    <2>8. TypeOK'
      BY <2>1, <2>2, <2>5, <2>7 DEF TypeOK
    <2>9. Owned'
      BY <2>7 DEF TypeOK, Owned
    <2> QED BY <2>6, <2>8, <2>9
  <1>4. CASE GiveUp
    <2>1. attempt' \in 0..(MaxAttempts + 1)
      <3>1. attempt' = MaxAttempts + 1
        BY <1>4 DEF GiveUp
      <3> QED BY <3>1, Counted
    <2>2. TypeOK'
      BY <1>4, <2>1 DEF GiveUp, TypeOK
    <2> QED BY <1>4, <2>2 DEF GiveUp, Search, Owned
  <1>5. ASSUME NEW h \in Handles, NEW p \in Ports,
               NEW err \in {"ok", "EADDRINUSE"} \cup Throwing, BindPort(h, p, err)
        PROVE  IInv'
    <2>1. /\ handle' = [handle EXCEPT ![h] = IF err = "ok" THEN "bound" ELSE "closing"]
          /\ port' = [port EXCEPT ![h] = p]
          /\ outcome' = err /\ ~searching
          /\ given' = IF err \in Throwing THEN given ELSE given \cup {h}
          /\ UNCHANGED <<others, searching, portIdx, attempt, tried>>
      BY <1>5 DEF BindPort, NewHandle
    <2>2. TypeOK'
      BY <2>1 DEF TypeOK
    <2>3. Owned'
      BY <2>1 DEF TypeOK, Owned, Throwing
    <2> QED BY <2>1, <2>2, <2>3 DEF Search
  <1>6. ASSUME NEW h \in Handles, OwnerCloses(h)
        PROVE  IInv'
    BY <1>6 DEF OwnerCloses, callVars, TypeOK, Search, Owned
  <1>7. ASSUME NEW h \in Handles, OnClose(h)
        PROVE  IInv'
    <2>1. RangeStart \in Ports
      BY RangeAssumption DEF Ports
    <2> QED BY <1>7, <2>1 DEF OnClose, callVars, TypeOK, Search, Owned
  <1>8. ASSUME NEW p \in Ports, OthersTake(p) \/ OthersFree(p)
        PROVE  IInv'
    <2>1. others' \subseteq Ports /\ UNCHANGED <<handle, port, callVars, given>>
      BY <1>8 DEF OthersTake, OthersFree, TypeOK
    <2>2. TypeOK' /\ Owned'
      BY <2>1 DEF TypeOK, callVars, Owned
    <2>3. Search'
      BY <2>1 DEF callVars, Search, Arc, First
    <2> QED BY <2>2, <2>3
  <1> QED BY <1>1, <1>2, <1>3, <1>4, <1>5, <1>6, <1>7, <1>8 DEF Next, Turn

\* The invariant of every behaviour.
THEOREM Invariant == Spec => []IInv
  BY InitInv, NextInv, PTL DEF Spec

\* The index stays within the range, the attempts within their limit.
THEOREM TypeCorrect == Spec => []TypeOK
  <1>1. IInv => TypeOK
    BY DEF IInv
  <1> QED BY <1>1, Invariant, PTL

\* No search tries a port twice, and no handle that is neither closing nor gone is
\* without an owner.
THEOREM PortsApart == Spec => []AttemptsApart
  <1>1. IInv => AttemptsApart
    BY DEF IInv, Search, Owned, AttemptsApart
  <1> QED BY <1>1, Invariant, PTL
=============================================================================
