-------------------------- MODULE UdpSocket_proofs --------------------------
(***************************************************************************)
(* Proofs about UdpSocket, for all Sends, lengths and bounds.              *)
(***************************************************************************)
EXTENDS UdpSocket, FiniteSetTheorems, SequenceTheorems, WellFoundedInduction, TLAPS

Events == {"true", "false", "freed"}

-----------------------------------------------------------------------------
\* The inductive invariant.

\* The types of the variables, the bound of sentBytes apart.
Types ==
  /\ handle \in {"open", "closing", "freed"} /\ mem \in {"none", "live", "deleted"}
  /\ receiving \in BOOLEAN /\ data \in BOOLEAN /\ fault \in BOOLEAN /\ closed \in BOOLEAN
  /\ queue \in Seq(Sends) /\ left \in Seq(Sends) /\ issued \in Seq(Sends)
  /\ completed \in Seq([w : Sends, status : {"ok", "error"}])
  /\ received \in 0..MaxRecv /\ frames \in Seq(Sends \ Silent)
  /\ length \in [Sends -> 0..MaxLen] /\ refused \in SUBSET Sends
  /\ cbLog \in [Sends -> Seq(Events)] /\ sentBytes \in Nat

\* The life of the object and of its handle: an open object has an open handle,
\* and the only object that is gone without having been closed is one whose
\* constructor threw, to which nothing was ever given.
Life ==
  /\ ~fault
  /\ data => ~closed
  /\ mem = "none" => ~closed /\ ~data /\ ~receiving /\ handle = "open" /\ issued = <<>>
  /\ mem = "live" /\ ~closed => handle = "open" /\ data
  /\ mem = "deleted" /\ ~closed => handle # "open" /\ ~receiving /\ issued = <<>>
  /\ closed => handle # "open" /\ ~receiving
  /\ handle = "freed" => queue = <<>> /\ completed = <<>>

\* A Send was made once and has at most one request, queued or finished, and the
\* finished ones that are well are those that have left.
Requests ==
  /\ \A i, j \in DOMAIN issued : issued[i] = issued[j] => i = j
  /\ \A i, j \in DOMAIN completed : completed[i].w = completed[j].w => i = j
  /\ \A i \in DOMAIN completed :
       /\ completed[i].w \in Elements(issued) \ Elements(queue)
       /\ completed[i].status = "ok" <=> completed[i].w \in Elements(left)

\* What has left and what is queued, in this order ...
Out == left \o queue

\* ... was given to Send in that order: a is the place of i.
Order ==
  /\ Elements(Out) \subseteq Elements(issued)
  /\ \A i, j \in DOMAIN Out : \A a, b \in DOMAIN issued :
       i < j /\ issued[a] = Out[i] /\ issued[b] = Out[j] => a < b

\* What has happened to the callback of a Send, and where the Send is.
LogOf(w) ==
  /\ cbLog[w] \in {<<>>, <<"true">>, <<"false">>, <<"freed">>,
                   <<"true", "freed">>, <<"false", "freed">>}
  /\ w \in Elements(issued) /\ cbLog[w] = <<>> <=> InFlight(w)
  /\ w \notin Elements(issued) => cbLog[w] = <<>>
  /\ cbLog[w] \in {<<"true">>, <<"true", "freed">>} => w \in Elements(left)
  /\ cbLog[w] \in {<<"false">>, <<"false", "freed">>} => w \notin Elements(left)
  /\ cbLog[w] = <<"freed">> => closed
  /\ w \in refused => cbLog[w] = <<"false">>
  /\ cbLog[w] \in {<<"true">>, <<"false">>} => w \in Elements(frames) \cup refused
  /\ w \in Elements(frames) => cbLog[w] \in {<<"true">>, <<"false">>}

\* The callbacks of all Sends, and those that are running.
Logs ==
  /\ \A w \in Sends \ Silent : LogOf(w)
  /\ \A w \in Silent : cbLog[w] = <<>>
  /\ \A i, j \in DOMAIN frames : frames[i] = frames[j] => i = j

\* What has left or will leave is counted, and nothing that was not given.
Counted ==
  /\ Sum(Elements(Out)) <= sentBytes
  /\ sentBytes <= Sum(Elements(issued))

\* The inductive invariant.
IInv == Types /\ Life /\ Requests /\ Order /\ Logs /\ Counted

-----------------------------------------------------------------------------
\* Sums over finite sets.

\* Every nonempty set of natural numbers has a least one: all the induction that
\* this module needs, from the library's well-founded minimum.
LEMMA LeastElement ==
  ASSUME NEW S \in SUBSET Nat, S # {}
  PROVE  \E m \in S : \A k \in S : m <= k
  <1> DEFINE R == OpToRel(<, Nat)
  <1>1. IsWellFoundedOn(R, Nat)
    BY NatLessThanWellFounded, Zenon
  <1>2. \A x, y \in S : y < x => <<y, x>> \in R
    BY DEF OpToRel
  <1> HIDE DEF R
  <1>3. PICK x \in S : \A y \in S : ~ (<<y, x>> \in R)
    BY <1>1, WFMin, Zenon
  <1>4. \A y \in S : ~ (y < x)
    BY <1>2, <1>3, Zenon
  <1> QED BY <1>4

\* Some element.
Pick(s) == CHOOSE x \in s : TRUE

Sums(f, S) == 
  CHOOSE iter : iter = [s \in SUBSET S |-> IF s = {} THEN 0 ELSE f[Pick(s)] + iter[s \ {Pick(s)}]]

SumOf(f, S) == Sums(f, S)[S]

\* The model's sum is the one reasoned about here, of the lengths.
LEMMA SumIsSumOf == \A S : Sum(S) = SumOf(length, S)
  BY Zenon DEF Sum, MapThenSumSet, MapThenFoldSet, SumOf, Sums, Pick

IsSums(f, S, g) == g = [s \in SUBSET S |-> IF s = {} THEN 0 ELSE f[Pick(s)] + g[s \ {Pick(s)}]]

\* What is picked of a nonempty set is in it.
LEMMA PickIn == ASSUME NEW s, s # {} PROVE Pick(s) \in s
  BY Zenon DEF Pick

\* A finite set without one of its elements is smaller.
LEMMA LessOne == ASSUME NEW S, IsFiniteSet(S), NEW x \in S
  PROVE IsFiniteSet(S \ {x}) /\ Cardinality(S \ {x}) < Cardinality(S)
  <1>1. IsFiniteSet(S \ {x}) /\ Cardinality(S \ {x}) = Cardinality(S) - 1
    BY FS_RemoveElement
  <1>2. Cardinality(S) \in Nat
    BY FS_CardinalityType
  <1> QED BY <1>1, <1>2

\* Among finite sets in a set of them there is a smallest one.
LEMMA Smallest ==
  ASSUME NEW F, F # {}, \A s \in F : IsFiniteSet(s)
  PROVE  \E m \in F : \A s \in F : ~ (Cardinality(s) < Cardinality(m))
  <1> DEFINE C == {Cardinality(s) : s \in F}
  <1>1. C \in SUBSET Nat /\ C # {}
    BY FS_CardinalityType
  <1>2. PICK n \in C : \A k \in C : n <= k
    BY <1>1, LeastElement, Zenon
  <1>3. PICK m \in F : n = Cardinality(m)
    BY <1>2
  <1>4. \A s \in F : Cardinality(s) \in Nat /\ n <= Cardinality(s)
    BY <1>1, <1>2
  <1> HIDE DEF C
  <1>5. n \in Nat
    BY <1>1, <1>2
  <1> QED BY <1>3, <1>4, <1>5

\* Two functions that satisfy the recursion agree where both are defined.
LEMMA SumsAgree ==
  ASSUME NEW f, NEW S, NEW T, NEW g, NEW h, IsFiniteSet(S), IsSums(f, S, g), IsSums(f, T, h)
  PROVE  \A s \in SUBSET (S \cap T) : g[s] = h[s]
  <1> DEFINE F == {s \in SUBSET (S \cap T) : g[s] # h[s]}
  <1>1. SUFFICES ASSUME F # {} PROVE FALSE
    OBVIOUS
  <1>2. \A s \in F : IsFiniteSet(s)
    BY FS_Subset
  <1>3. PICK m \in F : \A s \in F : ~ (Cardinality(s) < Cardinality(m))
    BY <1>1, <1>2, Smallest, Zenon
  <1>4. \A s \in SUBSET (S \cap T) :
          /\ g[s] = IF s = {} THEN 0 ELSE f[Pick(s)] + g[s \ {Pick(s)}]
          /\ h[s] = IF s = {} THEN 0 ELSE f[Pick(s)] + h[s \ {Pick(s)}]
    <2> TAKE s \in SUBSET (S \cap T)
    <2>1. s \in SUBSET S /\ s \in SUBSET T
      OBVIOUS
    <2> QED BY <2>1, Zenon DEF IsSums
  <1>5. m # {}
    BY <1>4
  <1>6. Pick(m) \in m
    BY <1>5, PickIn
  <1>7. m \ {Pick(m)} \in F
    BY <1>4, <1>5
  <1> QED BY <1>2, <1>3, <1>6, <1>7, LessOne

\* On a finite set there is one: the recursion that Sum chooses has a solution.
LEMMA SumsExist ==
  ASSUME NEW f, NEW S, IsFiniteSet(S)
  PROVE  IsSums(f, S, Sums(f, S))
  <1> DEFINE F == {T \in SUBSET S : ~ IsSums(f, T, Sums(f, T))}
  <1>1. SUFFICES ASSUME F # {} PROVE FALSE
    OBVIOUS
  <1>2. \A s \in F : IsFiniteSet(s)
    BY FS_Subset
  <1>3. PICK T \in F : \A s \in F : ~ (Cardinality(s) < Cardinality(T))
    BY <1>1, <1>2, Smallest, Zenon
  <1>4. \A s \in SUBSET T : s # {} => IsSums(f, s \ {Pick(s)}, Sums(f, s \ {Pick(s)}))
    <2> TAKE s \in SUBSET T
    <2> HAVE s # {}
    <2>1. IsFiniteSet(s) /\ IsFiniteSet(T) /\ Cardinality(s) <= Cardinality(T)
          /\ Cardinality(T) \in Nat /\ Cardinality(s) \in Nat
      BY <1>2, FS_Subset, FS_CardinalityType
    <2>2. Pick(s) \in s
      BY PickIn
    <2>3. Cardinality(s \ {Pick(s)}) < Cardinality(T)
      <3>1. /\ Cardinality(s \ {Pick(s)}) < Cardinality(s)
            /\ IsFiniteSet(s \ {Pick(s)})
        BY <2>1, <2>2, LessOne
      <3>2. Cardinality(s \ {Pick(s)}) \in Nat
        BY <3>1, FS_CardinalityType
      <3> QED BY <2>1, <3>1, <3>2
    <2>4. s \ {Pick(s)} \in SUBSET S
      OBVIOUS
    <2> QED BY <1>3, <2>3, <2>4
  <1> DEFINE val(s) == IF s = {} THEN 0 ELSE f[Pick(s)] + SumOf(f, s \ {Pick(s)})
             g == [s \in SUBSET T |-> val(s)]
  <1>5. \A s \in SUBSET T : s # {} => val(s \ {Pick(s)}) = SumOf(f, s \ {Pick(s)})
    <2> TAKE s \in SUBSET T
    <2> HAVE s # {}
    <2> DEFINE r == s \ {Pick(s)}
               q == r \ {Pick(r)}
    <2> HIDE DEF r, q
    <2>1. r \in SUBSET T /\ IsFiniteSet(r) /\ IsSums(f, r, Sums(f, r))
      <3>1. r \in SUBSET T
        BY DEF r
      <3>2. IsFiniteSet(r)
        BY <3>1, <1>2, FS_Subset, Zenon
      <3> QED BY <3>1, <3>2, <1>4 DEF r
    <2>2. Sums(f, r)[r] = IF r = {} THEN 0 ELSE f[Pick(r)] + Sums(f, r)[q]
      BY <2>1, Zenon DEF IsSums, q
    <2>3. CASE r = {}
      BY <2>2, <2>3 DEF r, SumOf
    <2>4. CASE r # {}
      <3>1. IsSums(f, q, Sums(f, q))
        BY <1>4, <2>1, <2>4 DEF q
      <3>2. q \in SUBSET (r \cap q)
        BY DEF q
      <3>3. Sums(f, r)[q] = Sums(f, q)[q]
        <4>1. \A s1 \in SUBSET (r \cap q) : Sums(f, r)[s1] = Sums(f, q)[s1]
          <5> HIDE DEF F, val, g
          <5>1. IsFiniteSet(r) /\ IsSums(f, r, Sums(f, r)) /\ IsSums(f, q, Sums(f, q))
            BY <2>1, <3>1
          <5> QED BY <5>1, SumsAgree
        <4> QED BY <3>2, <4>1, Zenon
      <3>4. val(r) = SumOf(f, r)
        BY <2>2, <2>4, <3>3, Zenon DEF SumOf, q
      <3> QED BY <3>4 DEF r
    <2> QED BY <2>3, <2>4
  <1>6. IsSums(f, T, g)
    <2>1. \A s \in SUBSET T : s # {} => g[s \ {Pick(s)}] = SumOf(f, s \ {Pick(s)})
      BY <1>5
    <2>2. \A s \in SUBSET T : val(s) = IF s = {} THEN 0 ELSE f[Pick(s)] + g[s \ {Pick(s)}]
      BY <2>1
    <2> HIDE DEF val
    <2> QED BY <2>2, Zenon DEF IsSums
  <1> HIDE DEF g
  <1>7. IsSums(f, T, Sums(f, T))
    BY <1>6, Zenon DEF IsSums, Sums
  <1> QED BY <1>7

\* So the sum of a finite set is what is picked plus the sum of the rest.
LEMMA SumStep ==
  ASSUME NEW f, NEW S, IsFiniteSet(S)
  PROVE  SumOf(f, S) = IF S = {} THEN 0 ELSE f[Pick(S)] + SumOf(f, S \ {Pick(S)})
  <1>1. IsSums(f, S, Sums(f, S)) /\ IsFiniteSet(S \ {Pick(S)})
    BY SumsExist, FS_Subset
  <1>2. IsSums(f, S \ {Pick(S)}, Sums(f, S \ {Pick(S)}))
    BY <1>1, SumsExist
  <1>3. Sums(f, S)[S \ {Pick(S)}] = Sums(f, S \ {Pick(S)})[S \ {Pick(S)}]
    BY <1>1, <1>2, SumsAgree
  <1>4. Sums(f, S)[S] = IF S = {} THEN 0 ELSE f[Pick(S)] + Sums(f, S)[S \ {Pick(S)}]
    BY <1>1, Zenon DEF IsSums
  <1> QED BY <1>3, <1>4, Zenon DEF SumOf

\* A sum of natural numbers is one.
LEMMA SumNat ==
  ASSUME NEW f, NEW S, IsFiniteSet(S), \A x \in S : f[x] \in Nat
  PROVE  SumOf(f, S) \in Nat
  <1> DEFINE F == {s \in SUBSET S : SumOf(f, s) \notin Nat}
  <1>1. SUFFICES ASSUME F # {} PROVE FALSE
    OBVIOUS
  <1>2. \A s \in F : IsFiniteSet(s)
    BY FS_Subset
  <1>3. PICK m \in F : \A s \in F : ~ (Cardinality(s) < Cardinality(m))
    BY <1>1, <1>2, Smallest, Zenon
  <1>4. SumOf(f, m) = IF m = {} THEN 0 ELSE f[Pick(m)] + SumOf(f, m \ {Pick(m)})
    BY <1>2, SumStep
  <1>5. m # {} /\ Pick(m) \in m
    BY <1>4, PickIn
  <1>6. m \ {Pick(m)} \notin F
    BY <1>2, <1>3, <1>5, LessOne
  <1>7. SumOf(f, m \ {Pick(m)}) \in Nat
    BY <1>6
  <1> QED BY <1>4, <1>5, <1>7

\* One more element adds its own value, whichever elements are picked in between.
LEMMA SumAdd ==
  ASSUME NEW f, NEW S, IsFiniteSet(S), NEW x, x \notin S, \A y \in S \cup {x} : f[y] \in Nat
  PROVE  SumOf(f, S \cup {x}) = f[x] + SumOf(f, S)
  <1> DEFINE Bad(s) == \E y \in (S \cup {x}) \ s : SumOf(f, s \cup {y}) # f[y] + SumOf(f, s)
             F == {s \in SUBSET (S \cup {x}) : Bad(s)}
  <1>1. SUFFICES ASSUME F # {} PROVE FALSE
    OBVIOUS
  <1>2. \A s \in SUBSET (S \cup {x}) : IsFiniteSet(s)
    BY FS_AddElement, FS_Subset
  <1>3. PICK m \in F : \A s \in F : ~ (Cardinality(s) < Cardinality(m))
    BY <1>1, <1>2, Smallest, Zenon
  <1>4. PICK y \in (S \cup {x}) \ m : SumOf(f, m \cup {y}) # f[y] + SumOf(f, m)
    OBVIOUS
  <1> DEFINE c == Pick(m \cup {y})
  <1>5. c \in m \cup {y}
    BY PickIn
  <1>6. SumOf(f, m \cup {y}) = f[c] + SumOf(f, (m \cup {y}) \ {c})
    BY <1>2, SumStep
  <1>7. c # y
    <2> SUFFICES ASSUME c = y PROVE FALSE
      OBVIOUS
    <2>1. (m \cup {y}) \ {c} = m
      BY <1>4
    <2> QED BY <1>4, <1>6, <2>1
  <1> DEFINE r == m \ {c}
  <1>8. c \in m /\ (m \cup {y}) \ {c} = r \cup {y} /\ m = r \cup {c}
    BY <1>5, <1>7
  <1>9. r \notin F
    BY <1>2, <1>3, <1>8, LessOne
  <1>10. \A z \in (S \cup {x}) \ r : SumOf(f, r \cup {z}) = f[z] + SumOf(f, r)
    BY <1>9
  <1>11. y \in (S \cup {x}) \ r /\ c \in (S \cup {x}) \ r
    BY <1>4, <1>8
  <1>12. SumOf(f, r \cup {y}) = f[y] + SumOf(f, r) /\ SumOf(f, m) = f[c] + SumOf(f, r)
    BY <1>8, <1>10, <1>11
  <1>13. f[y] \in Nat /\ f[c] \in Nat /\ SumOf(f, r) \in Nat
    <2>1. \A z \in r : f[z] \in Nat
      BY <1>3
    <2>2. IsFiniteSet(r)
      BY <1>2
    <2> QED BY <1>8, <2>1, <2>2, SumNat
  <1> HIDE DEF c, r
  <1>14. SumOf(f, m \cup {y}) = f[c] + (f[y] + SumOf(f, r))
    BY <1>6, <1>8, <1>12
  <1>15. SumOf(f, m \cup {y}) = f[y] + SumOf(f, m)
    BY <1>12, <1>13, <1>14
  <1> QED BY <1>4, <1>15

\* A sum depends only on the values of the elements summed.
LEMMA SumSame ==
  ASSUME NEW f, NEW g, NEW S, IsFiniteSet(S), \A x \in S : f[x] = g[x]
  PROVE  SumOf(f, S) = SumOf(g, S)
  <1> DEFINE F == {s \in SUBSET S : SumOf(f, s) # SumOf(g, s)}
  <1>1. SUFFICES ASSUME F # {} PROVE FALSE
    OBVIOUS
  <1>2. \A s \in F : IsFiniteSet(s)
    BY FS_Subset
  <1>3. PICK m \in F : \A s \in F : ~ (Cardinality(s) < Cardinality(m))
    BY <1>1, <1>2, Smallest, Zenon
  <1>4. /\ SumOf(f, m) = IF m = {} THEN 0 ELSE f[Pick(m)] + SumOf(f, m \ {Pick(m)})
        /\ SumOf(g, m) = IF m = {} THEN 0 ELSE g[Pick(m)] + SumOf(g, m \ {Pick(m)})
    BY <1>2, SumStep
  <1>5. m # {} /\ Pick(m) \in m
    BY <1>4, PickIn
  <1>6. m \ {Pick(m)} \notin F
    BY <1>2, <1>3, <1>5, LessOne
  <1>7. SumOf(f, m \ {Pick(m)}) = SumOf(g, m \ {Pick(m)})
    BY <1>6
  <1> QED BY <1>4, <1>5, <1>7

-----------------------------------------------------------------------------
\* Lemmas about sequences.

\* Appending adds one element at the end.
LEMMA AppendOf ==
  ASSUME NEW T, NEW s \in Seq(T), NEW x \in T
  PROVE  /\ Append(s, x) \in Seq(T) /\ Len(s) \in Nat
         /\ DOMAIN s = 1..Len(s) /\ DOMAIN Append(s, x) = 1..Len(s) + 1
         /\ \A i \in 1..Len(s) : Append(s, x)[i] = s[i]
         /\ Append(s, x)[Len(s) + 1] = x
         /\ Elements(Append(s, x)) = Elements(s) \cup {x}
  <1>1. /\ Append(s, x) \in Seq(T) /\ Len(Append(s, x)) = Len(s) + 1
        /\ \A i \in 1..Len(s) : Append(s, x)[i] = s[i]
        /\ Append(s, x)[Len(s) + 1] = x
    BY AppendProperties
  <1>2. Len(s) \in Nat /\ DOMAIN s = 1..Len(s)
    OBVIOUS
  <1> DEFINE t == Append(s, x)
  <1> HIDE DEF t
  <1>3. /\ DOMAIN t = 1..Len(s) + 1 /\ t[Len(s) + 1] = x
        /\ \A i \in 1..Len(s) : t[i] = s[i]
    BY <1>1, <1>2 DEF t
  <1>4. Elements(t) = Elements(s) \cup {x}
    BY <1>2, <1>3 DEF Elements
  <1> QED BY <1>1, <1>2, <1>3, <1>4 DEF t

\* Taking the first element away moves the others down by one.
LEMMA TailOf ==
  ASSUME NEW T, NEW s \in Seq(T), s # <<>>
  PROVE  /\ Tail(s) \in Seq(T) /\ Head(s) \in T /\ Len(s) \in Nat \ {0}
         /\ DOMAIN s = 1..Len(s) /\ DOMAIN Tail(s) = 1..Len(s) - 1
         /\ \A i \in 1..Len(s) - 1 : Tail(s)[i] = s[i + 1]
         /\ Head(s) = s[1] /\ 1 \in 1..Len(s)
         /\ Elements(s) = Elements(Tail(s)) \cup {Head(s)}
  <1>1. /\ Tail(s) \in Seq(T) /\ Len(Tail(s)) = Len(s) - 1
        /\ \A i \in 1..Len(Tail(s)) : Tail(s)[i] = s[i + 1]
    BY HeadTailProperties
  <1>2. Len(s) \in Nat \ {0} /\ DOMAIN s = 1..Len(s) /\ Head(s) = s[1]
    OBVIOUS
  <1> DEFINE t == Tail(s)
             h == Head(s)
  <1> HIDE DEF t, h
  <1>3. /\ DOMAIN t = 1..Len(s) - 1 /\ h = s[1]
        /\ \A i \in 1..Len(s) - 1 : t[i] = s[i + 1]
    BY <1>1, <1>2 DEF t, h
  <1>4. Elements(s) = Elements(t) \cup {h}
    <2>1. \A i \in 1..Len(s) : i = 1 \/ (i - 1 \in 1..Len(s) - 1 /\ t[i - 1] = s[i])
      BY <1>2, <1>3
    <2>2. Elements(s) \subseteq Elements(t) \cup {h}
      BY <1>2, <1>3, <2>1 DEF Elements
    <2>3. Elements(t) \cup {h} \subseteq Elements(s)
      <3>1. \A i \in 1..Len(s) - 1 : i + 1 \in 1..Len(s) /\ t[i] = s[i + 1]
        BY <1>2, <1>3
      <3>2. \A i \in 1..Len(s) - 1 : t[i] \in Elements(s)
        BY <1>2, <3>1, Zenon DEF Elements
      <3>3. h \in Elements(s)
        BY <1>2, <1>3 DEF Elements
      <3> QED BY <1>3, <3>2, <3>3, Zenon DEF Elements
    <2> QED BY <2>2, <2>3
  <1> QED BY <1>1, <1>2, <1>3, <1>4 DEF t, h

\* The elements of a concatenation, place by place.
LEMMA ConcatOf ==
  ASSUME NEW T, NEW s \in Seq(T), NEW t \in Seq(T)
  PROVE  /\ s \o t \in Seq(T) /\ Len(s) \in Nat /\ Len(t) \in Nat
         /\ DOMAIN s = 1..Len(s) /\ DOMAIN t = 1..Len(t)
         /\ DOMAIN (s \o t) = 1..Len(s) + Len(t)
         /\ \A i \in 1..Len(s) : (s \o t)[i] = s[i]
         /\ \A i \in 1..Len(t) : (s \o t)[Len(s) + i] = t[i]
         /\ Elements(s \o t) = Elements(s) \cup Elements(t)
  <1>1. /\ s \o t \in Seq(T) /\ Len(s \o t) = Len(s) + Len(t)
        /\ \A i \in 1..Len(s) + Len(t) :
             (s \o t)[i] = IF i <= Len(s) THEN s[i] ELSE t[i - Len(s)]
    BY ConcatProperties
  <1>2. /\ Len(s) \in Nat /\ DOMAIN s = 1..Len(s) /\ Len(t) \in Nat
        /\ DOMAIN t = 1..Len(t)
    OBVIOUS
  <1> DEFINE c == s \o t
  <1> HIDE DEF c
  <1>3. /\ DOMAIN c = 1..Len(s) + Len(t)
        /\ \A i \in 1..Len(s) : c[i] = s[i]
        /\ \A i \in 1..Len(t) : c[Len(s) + i] = t[i]
        /\ \A i \in 1..Len(s) + Len(t) :
             c[i] = IF i <= Len(s) THEN s[i] ELSE t[i - Len(s)]
    BY <1>1, <1>2 DEF c
  <1>4. Elements(c) = Elements(s) \cup Elements(t)
    <2>1. \A i \in 1..Len(s) + Len(t) : c[i] \in Elements(s) \cup Elements(t)
      <3> TAKE i \in 1..Len(s) + Len(t)
      <3>1. CASE i <= Len(s)
        BY <1>2, <1>3, <3>1 DEF Elements
      <3>2. CASE ~ (i <= Len(s))
        <4>1. i - Len(s) \in 1..Len(t) /\ c[i] = t[i - Len(s)]
          BY <1>2, <1>3, <3>2
        <4> QED BY <1>2, <4>1 DEF Elements
      <3> QED BY <3>1, <3>2
    <2>2. \A i \in 1..Len(t) : Len(s) + i \in 1..Len(s) + Len(t)
      BY <1>2
    <2>3. \A i \in 1..Len(s) : i \in 1..Len(s) + Len(t)
      BY <1>2
    <2>4. \A i \in 1..Len(s) : s[i] \in Elements(c)
      BY <1>3, <2>3 DEF Elements
    <2>5. \A i \in 1..Len(t) : t[i] \in Elements(c)
      BY <1>3, <2>2 DEF Elements
    <2>6. Elements(c) \subseteq Elements(s) \cup Elements(t)
      BY <1>3, <2>1 DEF Elements
    <2>7. Elements(s) \cup Elements(t) \subseteq Elements(c)
      BY <1>2, <2>4, <2>5 DEF Elements
    <2> QED BY <2>6, <2>7
  <1> QED BY <1>1, <1>2, <1>3, <1>4 DEF c

\* Taking the last element away leaves the others where they are.
LEMMA FrontOf ==
  ASSUME NEW T, NEW s \in Seq(T), s # <<>>
  PROVE  /\ SubSeq(s, 1, Len(s) - 1) \in Seq(T) /\ Len(s) \in Nat \ {0}
         /\ DOMAIN s = 1..Len(s) /\ DOMAIN SubSeq(s, 1, Len(s) - 1) = 1..Len(s) - 1
         /\ \A i \in 1..Len(s) - 1 : SubSeq(s, 1, Len(s) - 1)[i] = s[i]
         /\ Elements(s) = Elements(SubSeq(s, 1, Len(s) - 1)) \cup {s[Len(s)]}
  <1>1. Len(s) \in Nat \ {0} /\ DOMAIN s = 1..Len(s)
    OBVIOUS
  <1> DEFINE t == SubSeq(s, 1, Len(s) - 1)
  <1>2. /\ t \in Seq(T) /\ DOMAIN t = 1..Len(s) - 1
        /\ \A i \in 1..Len(s) - 1 : t[i] = s[i]
    BY <1>1, SubSeqProperties
  <1> HIDE DEF t
  <1>3. Elements(s) = Elements(t) \cup {s[Len(s)]}
    BY <1>1, <1>2 DEF Elements
  <1> QED BY <1>1, <1>2, <1>3 DEF t

\* Only the empty sequence has no elements.
LEMMA EmptyOf ==
  ASSUME NEW T, NEW s \in Seq(T)
  PROVE  Elements(s) = {} <=> s = <<>>
  <1>1. CASE s = <<>>
    BY <1>1 DEF Elements
  <1>2. CASE s # <<>>
    <2>1. Elements(s) = Elements(Tail(s)) \cup {Head(s)}
      BY <1>2, TailOf
    <2> QED BY <2>1, <1>2
  <1> QED BY <1>1, <1>2

-----------------------------------------------------------------------------
\* Types.

\* What is added to the log of a callback is an event.
LEMMA LogType ==
  ASSUME Types, NEW w \in Sends, NEW e \in Events
  PROVE  Append(cbLog[w], e) \in Seq(Events)
  BY AppendOf DEF Types

\* Telling a callback its answer keeps the types.
LEMMA TellType ==
  ASSUME Types, NEW w \in Sends, NEW answer \in {"true", "false"}, Tell(w, answer)
  PROVE  cbLog' \in [Sends -> Seq(Events)] /\ frames' \in Seq(Sends \ Silent)
  <1>1. CASE w \in Silent
    BY <1>1 DEF Tell, Types
  <1>2. CASE w \notin Silent
    <2>1. Append(cbLog[w], answer) \in Seq(Events)
      BY LogType DEF Events
    <2>2. Append(frames, w) \in Seq(Sends \ Silent)
      BY <1>2, AppendOf DEF Types
    <2> QED BY <1>2, <2>1, <2>2 DEF Tell, Types
  <1> QED BY <1>1, <1>2

\* Deleting a callback keeps the types.
LEMMA DeleteType ==
  ASSUME Types, NEW w \in Sends, Delete(w)
  PROVE  cbLog' \in [Sends -> Seq(Events)]
  <1>1. Append(cbLog[w], "freed") \in Seq(Events)
    BY LogType DEF Events
  <1> QED BY <1>1 DEF Delete, Types

\* Noting that Send was called keeps the types.
LEMMA CalledType ==
  ASSUME Types, NEW w \in Sends, NEW n \in 0..MaxLen, Called(w, n)
  PROVE  /\ issued' \in Seq(Sends) /\ length' \in [Sends -> 0..MaxLen]
         /\ n \in Nat
  <1>1. Append(issued, w) \in Seq(Sends)
    BY AppendOf DEF Types
  <1> QED BY <1>1, BoundAssumption DEF Called, Types

\* Each way through Send keeps the types.
LEMMA SendType ==
  ASSUME Types, NEW w \in Sends, NEW n \in 0..MaxLen, Send(w, n)
  PROVE  Types'
  <1>1. CASE SendRefused(w, n)
    <2>1. Called(w, n) /\ Tell(w, "false")
      BY <1>1 DEF SendRefused
    <2>2. /\ issued' \in Seq(Sends) /\ length' \in [Sends -> 0..MaxLen]
          /\ UNCHANGED <<uvVars, mem, closed, received>>
      BY <2>1, CalledType DEF Called
    <2>3. cbLog' \in [Sends -> Seq(Events)] /\ frames' \in Seq(Sends \ Silent)
      BY <2>1, TellType
    <2>4. refused' \in SUBSET Sends /\ UNCHANGED <<reqVars, sentBytes>>
      BY <1>1 DEF SendRefused, Types
    <2> QED BY <2>2, <2>3, <2>4 DEF Types, uvVars, reqVars
  <1>2. CASE SendDirect(w, n)
    <2>1. Called(w, n) /\ Tell(w, "true") /\ Append(left, w) \in Seq(Sends)
      BY <1>2, AppendOf DEF SendDirect, Tried, Types
    <2>2. n \in Nat /\ sentBytes' = sentBytes + n /\ left' = Append(left, w)
          /\ UNCHANGED <<queue, completed, refused>>
      BY <1>2, CalledType, <2>1 DEF SendDirect, Tried
    <2>3. /\ issued' \in Seq(Sends) /\ length' \in [Sends -> 0..MaxLen]
          /\ UNCHANGED <<uvVars, mem, closed, received>>
      BY <2>1, CalledType DEF Called
    <2>4. cbLog' \in [Sends -> Seq(Events)] /\ frames' \in Seq(Sends \ Silent)
      BY <2>1, TellType
    <2> QED BY <2>1, <2>2, <2>3, <2>4 DEF Types, uvVars
  <1>3. CASE SendTruncated(w, n)
    <2>1. Called(w, n) /\ Tell(w, "false") /\ sentBytes' \in Nat
      BY <1>3, BoundAssumption DEF SendTruncated, Tried, Types
    <2> QED BY <1>3, <2>1, CalledType, TellType
        DEF SendTruncated, Tried, Called, Types, uvVars, reqVars
  <1>4. CASE SendFails(w, n)
    <2>1. Called(w, n) /\ Tell(w, "false") /\ UNCHANGED refused
      BY <1>4 DEF SendFails, Tried
    <2> QED BY <1>4, <2>1, CalledType, TellType
        DEF SendFails, Called, Types, uvVars, reqVars
  <1>5. CASE SendQueued(w, n)
    <2>1. Called(w, n) /\ Append(queue, w) \in Seq(Sends) /\ UNCHANGED refused
      BY <1>5, AppendOf DEF SendQueued, Tried, Types
    <2> QED BY <1>5, <2>1, CalledType
        DEF SendQueued, Called, Types, uvVars
  <1> QED BY <1>1, <1>2, <1>3, <1>4, <1>5 DEF Send

\* The requests that closing cancels.
LEMMA Cancelled ==
  ASSUME Types
  PROVE  /\ [i \in DOMAIN queue |-> [w |-> queue[i], status |-> "error"]]
              \in Seq([w : Sends, status : {"ok", "error"}])
         /\ Len([i \in DOMAIN queue |-> [w |-> queue[i], status |-> "error"]]) = Len(queue)
  <1>1. \A i \in 1..Len(queue) : queue[i] \in Sends
    BY DEF Types
  <1>2. DOMAIN queue = 1..Len(queue) /\ Len(queue) \in Nat
    BY DEF Types
  <1> QED BY <1>1, <1>2

\* Every step keeps the types.
LEMMA TypeStep == Types /\ [Next]_vars => Types'
  <1> SUFFICES ASSUME Types, [Next]_vars PROVE Types'
    OBVIOUS
  <1>1. CASE Construct
    BY <1>1 DEF Construct, Types, reqVars
  <1>2. CASE ConstructFails
    BY <1>2 DEF ConstructFails, Types, reqVars
  <1>3. CASE UserClose
    BY <1>3 DEF UserClose, Close, Types, reqVars, uvVars
  <1>4. CASE Destroy
    BY <1>4 DEF Destroy, Close, Types, reqVars, uvVars
  <1>5. CASE \E w \in Sends, n \in 0..MaxLen : Send(w, n)
    BY <1>5, SendType
  <1>6. CASE CbReturn
    <2>1. frames # <<>> /\ frames \in Seq(Sends \ Silent)
      BY <1>6 DEF CbReturn, Types
    <2>2. /\ SubSeq(frames, 1, Len(frames) - 1) \in Seq(Sends \ Silent)
          /\ frames[Len(frames)] \in Sends
      BY <2>1, FrontOf
    <2>3. cbLog' \in [Sends -> Seq(Events)]
      BY <1>6, <2>2, DeleteType DEF CbReturn, Types
    <2> QED BY <1>6, <2>2, <2>3 DEF CbReturn, Types, reqVars, uvVars
  <1>7. CASE OnRecv
    BY <1>7, BoundAssumption DEF OnRecv, Types, reqVars
  <1>8. CASE OnSend
    <2>1. /\ Tail(completed) \in Seq([w : Sends, status : {"ok", "error"}])
          /\ Head(completed) \in [w : Sends, status : {"ok", "error"}]
      BY <1>8, TailOf DEF OnSend, Types
    <2>2. cbLog' \in [Sends -> Seq(Events)] /\ frames' \in Seq(Sends \ Silent)
      <3>1. CASE data
        BY <1>8, <2>1, <3>1, TellType DEF OnSend
      <3>2. CASE ~data
        BY <1>8, <2>1, <3>2, DeleteType DEF OnSend, Types
      <3> QED BY <3>1, <3>2
    <2> QED BY <1>8, <2>1, <2>2 DEF OnSend, Types
  <1>9. CASE OnClose
    BY <1>9 DEF OnClose, Types, reqVars
  <1>10. CASE Transmit
    <2>1. Tail(queue) \in Seq(Sends) /\ Head(queue) \in Sends
      BY <1>10, TailOf DEF Transmit, Types
    <2>2. /\ Append(left, Head(queue)) \in Seq(Sends)
          /\ \A s \in {"ok", "error"} : Append(completed, [w |-> Head(queue), status |-> s])
               \in Seq([w : Sends, status : {"ok", "error"}])
      BY <2>1, AppendOf DEF Types
    <2> QED BY <1>10, <2>1, <2>2 DEF Transmit, Types, uvVars
  <1>11. CASE Cancel
    <2>1. completed' \in Seq([w : Sends, status : {"ok", "error"}])
      BY <1>11, Cancelled, ConcatOf DEF Cancel, Types
    <2> QED BY <1>11, <2>1 DEF Cancel, Types, uvVars
  <1>12. CASE UNCHANGED vars
    BY <1>12 DEF vars, uvVars, reqVars, Types
  <1> QED
    BY <1>1, <1>2, <1>3, <1>4, <1>5, <1>6, <1>7, <1>8, <1>9, <1>10, <1>11, <1>12 DEF Next

-----------------------------------------------------------------------------
\* The life of the object.

\* An unfinished request is one of a Send that was made.
LEMMA NothingAsked ==
  ASSUME Types, Requests, Order, issued = <<>>
  PROVE  queue = <<>> /\ completed = <<>>
  <1>1. Elements(issued) = {}
    BY DEF Elements
  <1>2. Elements(completed) = {}
    BY <1>1 DEF Requests, Elements
  <1>3. Elements(queue) = {}
    BY <1>1, ConcatOf DEF Types, Order, Out
  <1> QED BY <1>2, <1>3, EmptyOf DEF Types

\* Every step keeps what closing promises of the handle.
LEMMA LifeStep == IInv /\ [Next]_vars => Life'
  <1> SUFFICES ASSUME IInv, [Next]_vars PROVE Life'
    OBVIOUS
  <1>a. Types /\ Life /\ Requests /\ Order
    BY DEF IInv
  <1>1. CASE Construct
    BY <1>1, <1>a DEF Construct, Life, Types, reqVars
  <1>2. CASE ConstructFails
    BY <1>2, <1>a DEF ConstructFails, Life, Types, reqVars
  <1>3. CASE UserClose
    BY <1>3, <1>a DEF UserClose, Close, Life, Types, reqVars, uvVars
  <1>4. CASE Destroy
    BY <1>4, <1>a DEF Destroy, Close, Life, Types, reqVars, uvVars
  <1>5. CASE \E w \in Sends, n \in 0..MaxLen : Send(w, n)
    <2>1. PICK w \in Sends, n \in 0..MaxLen : Send(w, n)
      BY <1>5
    <2>2. Called(w, n) /\ (closed => UNCHANGED <<queue, completed>>)
      BY <2>1 DEF Send, SendRefused, SendDirect, SendTruncated, SendFails, SendQueued,
                  Tried, reqVars
    <2> QED BY <2>2, <1>a DEF Called, Life, Types, uvVars
  <1>6. CASE CbReturn
    BY <1>6, <1>a DEF CbReturn, Life, Types, reqVars, uvVars
  <1>7. CASE OnRecv
    BY <1>7, <1>a DEF OnRecv, Life, Types, reqVars
  <1>8. CASE OnSend
    BY <1>8, <1>a, NothingAsked DEF OnSend, Life, Types
  <1>9. CASE OnClose
    BY <1>9, <1>a DEF OnClose, Life, Types, reqVars
  <1>10. CASE Transmit
    BY <1>10, <1>a DEF Transmit, Life, Types, uvVars
  <1>11. CASE Cancel
    BY <1>11, <1>a DEF Cancel, Life, Types, uvVars
  <1>12. CASE UNCHANGED vars
    BY <1>12, <1>a DEF vars, uvVars, reqVars, Life
  <1> QED
    BY <1>1, <1>2, <1>3, <1>4, <1>5, <1>6, <1>7, <1>8, <1>9, <1>10, <1>11, <1>12 DEF Next

-----------------------------------------------------------------------------
\* Requests, and the order of what leaves.

Finished == {completed[i].w : i \in DOMAIN completed}

\* A datagram is in flight while it is queued or finished and not yet answered.
LEMMA InFlightIs == \A w : InFlight(w) <=> w \in Elements(queue) \cup Finished
  BY DEF InFlight, Finished

\* The three things a Send can do.  It is told that it failed (or its datagram was
\* empty, or cut off), and nothing is left of it.
FailedSend(w, n) ==
  /\ UNCHANGED <<queue, left>> /\ Tell(w, "false")
  /\ sentBytes' \in sentBytes..(sentBytes + n)
  /\ refused' \in {refused, refused \cup {w}}

\* Its datagram left at once, before which nothing was waiting.
DirectSend(w, n) ==
  /\ queue = <<>> /\ left' = Append(left, w) /\ UNCHANGED <<queue, refused>>
  /\ Tell(w, "true") /\ sentBytes' = sentBytes + n

\* It is the last in the queue.
QueuedSend(w, n) ==
  /\ queue' = Append(queue, w) /\ UNCHANGED <<left, refused, cbLog, frames>>
  /\ sentBytes' = sentBytes + n

\* Every way through Send is one of the three.
LEMMA SendForm ==
  ASSUME Types, NEW w \in Sends, NEW n \in 0..MaxLen, Send(w, n)
  PROVE  /\ Called(w, n) /\ UNCHANGED completed /\ n \in Nat
         /\ FailedSend(w, n) \/ DirectSend(w, n) \/ QueuedSend(w, n)
  <1>0. n \in Nat /\ sentBytes \in Nat
    BY BoundAssumption DEF Types
  <1>1. CASE SendRefused(w, n)
    BY <1>0, <1>1 DEF SendRefused, FailedSend, reqVars
  <1>2. CASE SendDirect(w, n)
    BY <1>0, <1>2 DEF SendDirect, Tried, UvTrySend, DirectSend
  <1>3. CASE SendTruncated(w, n)
    <2>1. PICK k \in 0..n-1 : sentBytes' = sentBytes + k
      BY <1>3 DEF SendTruncated
    <2>2. sentBytes' \in sentBytes..(sentBytes + n)
      BY <1>0, <2>1
    <2> QED BY <1>0, <1>3, <2>2 DEF SendTruncated, Tried, FailedSend, reqVars
  <1>4. CASE SendFails(w, n)
    BY <1>0, <1>4 DEF SendFails, Tried, FailedSend, reqVars
  <1>5. CASE SendQueued(w, n)
    BY <1>0, <1>5 DEF SendQueued, Tried, QueuedSend
  <1> QED BY <1>1, <1>2, <1>3, <1>4, <1>5 DEF Send

\* What a Send has to do with is new.
LEMMA CalledFacts ==
  ASSUME IInv, NEW w \in Sends, NEW n \in 0..MaxLen, Called(w, n)
  PROVE  /\ w \notin Elements(issued) /\ w \notin Elements(Out) /\ w \notin Finished
         /\ w \notin Elements(queue) /\ w \notin Elements(left)
         /\ Elements(issued)' = Elements(issued) \cup {w}
         /\ Len(issued) \in Nat /\ DOMAIN issued = 1..Len(issued)
         /\ DOMAIN issued' = 1..Len(issued) + 1
         /\ issued'[Len(issued) + 1] = w
         /\ \A i \in 1..Len(issued) : issued'[i] = issued[i]
         /\ issued \in Seq(Sends) /\ issued' \in Seq(Sends)
  <1>1. w \notin Elements(issued)
    BY DEF Called, Elements
  <1>2. issued' = Append(issued, w) /\ issued \in Seq(Sends)
    BY DEF Called, IInv, Types
  <1>3. w \notin Elements(Out) /\ w \notin Finished
    BY <1>1 DEF IInv, Order, Requests, Finished
  <1>4. Elements(Out) = Elements(left) \cup Elements(queue)
    BY ConcatOf DEF Out, IInv, Types
  <1>5. Elements(issued') = Elements(issued) \cup {w}
    BY <1>2, AppendOf
  <1>6. Elements(issued)' = Elements(issued')
    BY DEF Elements
  <1> QED BY <1>1, <1>2, <1>3, <1>4, <1>5, <1>6, AppendOf

\* What leaves and is queued is distinct.
LEMMA Distinct ==
  ASSUME Types, Order
  PROVE  /\ \A i, j \in DOMAIN Out : Out[i] = Out[j] => i = j
         /\ \A i, j \in DOMAIN queue : queue[i] = queue[j] => i = j
         /\ \A i \in DOMAIN queue : queue[i] \in Elements(issued) \ Elements(left)
         /\ Elements(left) \subseteq Elements(issued)
  <1>1. /\ Out \in Seq(Sends) /\ Len(left) \in Nat /\ Len(queue) \in Nat
        /\ DOMAIN left = 1..Len(left) /\ DOMAIN queue = 1..Len(queue)
        /\ DOMAIN Out = 1..Len(left) + Len(queue)
        /\ \A i \in 1..Len(left) : Out[i] = left[i]
        /\ \A i \in 1..Len(queue) : Out[Len(left) + i] = queue[i]
        /\ Elements(Out) = Elements(left) \cup Elements(queue)
    BY ConcatOf DEF Out, Types
  <1>2. \A i \in DOMAIN Out : \E a \in DOMAIN issued : issued[a] = Out[i]
    BY DEF Order, Elements
  <1>3. DOMAIN issued = 1..Len(issued) /\ Len(issued) \in Nat
    BY DEF Types
  <1>4. \A i, j \in DOMAIN Out : i < j => Out[i] # Out[j]
    <2> TAKE i, j \in DOMAIN Out
    <2> HAVE i < j
    <2> SUFFICES ASSUME Out[i] = Out[j] PROVE FALSE
      OBVIOUS
    <2>1. PICK a \in DOMAIN issued : issued[a] = Out[i]
      BY <1>2
    <2>2. a < a
      BY <2>1 DEF Order
    <2> QED BY <1>3, <2>2
  <1>5. \A i, j \in DOMAIN Out : Out[i] = Out[j] => i = j
    BY <1>1, <1>4
  <1>6. \A i, j \in DOMAIN queue : queue[i] = queue[j] => i = j
    <2> TAKE i, j \in DOMAIN queue
    <2>1. Len(left) + i \in DOMAIN Out /\ Len(left) + j \in DOMAIN Out
      BY <1>1
    <2>2. queue[i] = queue[j] => Len(left) + i = Len(left) + j
      BY <1>1, <1>5, <2>1
    <2> QED BY <1>1, <2>2
  <1>7. \A i \in DOMAIN queue : queue[i] \in Elements(issued) \ Elements(left)
    <2> TAKE i \in DOMAIN queue
    <2>1. Len(left) + i \in DOMAIN Out /\ \A k \in DOMAIN left : k \in DOMAIN Out /\ k # Len(left) + i
      BY <1>1
    <2>2. \A k \in DOMAIN left : queue[i] # left[k]
      BY <1>1, <1>5, <2>1
    <2>3. queue[i] \in Elements(queue)
      BY DEF Elements
    <2> QED BY <1>1, <2>2, <2>3 DEF Elements, Order
  <1> QED BY <1>1, <1>5, <1>6, <1>7 DEF Order

\* Send keeps the requests apart: its datagram is a new one.
LEMMA SendRequests ==
  ASSUME IInv, NEW w \in Sends, NEW n \in 0..MaxLen, Send(w, n)
  PROVE  Requests'
  <1>1. /\ Called(w, n) /\ UNCHANGED completed
        /\ FailedSend(w, n) \/ DirectSend(w, n) \/ QueuedSend(w, n)
    BY SendForm DEF IInv
  <1>2. Types /\ Requests
    BY DEF IInv
  <1>3. \A i, j \in DOMAIN issued' : issued'[i] = issued'[j] => i = j
    <2>1. \A i \in 1..Len(issued) : issued[i] # w
      BY <1>1, CalledFacts DEF Elements
    <2> QED BY <1>1, <1>2, <2>1, CalledFacts DEF Requests
  <1>4. \A i \in DOMAIN completed : completed[i].w # w
    BY <1>1, CalledFacts DEF Finished
  <1>5. /\ Elements(queue') \in {Elements(queue), Elements(queue) \cup {w}}
        /\ Elements(left') \in {Elements(left), Elements(left) \cup {w}}
    <2>1. /\ Elements(Append(queue, w)) = Elements(queue) \cup {w}
          /\ Elements(Append(left, w)) = Elements(left) \cup {w}
      BY <1>2, AppendOf DEF Types
    <2> QED BY <1>1, <2>1 DEF FailedSend, DirectSend, QueuedSend
  <1>6. Elements(queue)' = Elements(queue') /\ Elements(left)' = Elements(left')
    BY DEF Elements
  <1> QED BY <1>1, <1>2, <1>3, <1>4, <1>5, <1>6, CalledFacts DEF Requests

\* A datagram leaves the queue: its request is finished.
LEMMA TransmitFacts ==
  ASSUME IInv, Transmit
  PROVE  \E s \in {"ok", "error"} :
           LET h == Head(queue)
           IN  /\ queue # <<>> /\ queue' = Tail(queue)
               /\ completed' = Append(completed, [w |-> h, status |-> s])
               /\ left' = IF s = "ok" THEN Append(left, h) ELSE left
               /\ h \in Sends
               /\ Elements(queue) = Elements(queue') \cup {h} /\ h \notin Elements(queue')
               /\ Elements(left') = IF s = "ok" THEN Elements(left) \cup {h} ELSE Elements(left)
               /\ Finished' = Finished \cup {h}
               /\ h \notin Elements(left) /\ h \in Elements(issued)
               /\ \A i \in DOMAIN completed : completed[i].w # h
  <1> DEFINE h == Head(queue)
  <1>1. Types /\ Requests /\ Order /\ queue # <<>>
    BY DEF IInv, Transmit
  <1>2. PICK s \in {"ok", "error"} :
          /\ queue' = Tail(queue)
          /\ completed' = Append(completed, [w |-> h, status |-> s])
          /\ left' = IF s = "ok" THEN Append(left, h) ELSE left
    BY DEF Transmit
  <1>3. /\ h \in Sends /\ h = queue[1] /\ 1 \in DOMAIN queue
        /\ Len(queue) \in Nat \ {0} /\ DOMAIN queue = 1..Len(queue)
        /\ Elements(queue) = Elements(Tail(queue)) \cup {h}
        /\ DOMAIN Tail(queue) = 1..Len(queue) - 1
        /\ \A i \in 1..Len(queue) - 1 : Tail(queue)[i] = queue[i + 1]
    BY <1>1, TailOf DEF Types
  <1>4. h \notin Elements(Tail(queue))
    <2>1. \A i \in 1..Len(queue) - 1 : i + 1 \in DOMAIN queue /\ i + 1 # 1
      BY <1>3
    <2>2. \A i \in 1..Len(queue) - 1 : queue[i + 1] # queue[1]
      BY <1>1, <1>3, <2>1, Distinct
    <2> QED BY <1>3, <2>2 DEF Elements
  <1>5. h \notin Elements(left) /\ h \in Elements(issued)
    BY <1>1, <1>3, Distinct
  <1>6. \A i \in DOMAIN completed : completed[i].w # h
    BY <1>1, <1>3 DEF Requests
  <1>7. Elements(left') = IF s = "ok" THEN Elements(left) \cup {h} ELSE Elements(left)
    <2>1. Elements(Append(left, h)) = Elements(left) \cup {h}
      BY <1>1, <1>3, AppendOf DEF Types
    <2> QED BY <1>2, <2>1
  <1> DEFINE c == [w |-> h, status |-> s]
  <1>8. /\ DOMAIN completed' = 1..Len(completed) + 1 /\ DOMAIN completed = 1..Len(completed)
        /\ Len(completed) \in Nat
        /\ \A i \in 1..Len(completed) : completed'[i] = completed[i]
        /\ completed'[Len(completed) + 1] = c
    <2>1. c \in [w : Sends, status : {"ok", "error"}] /\ completed' = Append(completed, c)
      BY <1>2, <1>3
    <2> HIDE DEF c
    <2> QED BY <1>1, <2>1, AppendOf DEF Types
  <1>9. Finished' = Finished \cup {h}
    <2>1. c.w = h
      OBVIOUS
    <2> HIDE DEF c, h
    <2> QED BY <1>8, <2>1 DEF Finished
  <1> HIDE DEF h
  <1> QED BY <1>1, <1>2, <1>3, <1>4, <1>5, <1>6, <1>7, <1>9 DEF h

\* uv__udp_sendmsg moves the oldest request to the finished ones.
LEMMA TransmitRequests ==
  ASSUME IInv, Transmit
  PROVE  Requests'
  <1> DEFINE h == Head(queue)
  <1>1. PICK s \in {"ok", "error"} :
               /\ queue' = Tail(queue)
               /\ completed' = Append(completed, [w |-> h, status |-> s])
               /\ left' = IF s = "ok" THEN Append(left, h) ELSE left
               /\ h \in Sends
               /\ Elements(queue) = Elements(queue') \cup {h} /\ h \notin Elements(queue')
               /\ Elements(left') = IF s = "ok" THEN Elements(left) \cup {h} ELSE Elements(left)
               /\ h \notin Elements(left) /\ h \in Elements(issued)
               /\ \A i \in DOMAIN completed : completed[i].w # h
    BY TransmitFacts
  <1>2. Types /\ Requests /\ UNCHANGED issued
    BY DEF IInv, Transmit
  <1> DEFINE c == [w |-> h, status |-> s]
  <1>3. c.w = h /\ c.status = s
    OBVIOUS
  <1>4. c \in [w : Sends, status : {"ok", "error"}] /\ completed' = Append(completed, c)
    BY <1>1
  <1> HIDE DEF c, h
  <1>5. /\ DOMAIN completed' = 1..Len(completed) + 1 /\ DOMAIN completed = 1..Len(completed)
        /\ Len(completed) \in Nat
        /\ \A i \in 1..Len(completed) : completed'[i] = completed[i]
        /\ completed'[Len(completed) + 1] = c
    BY <1>2, <1>4, AppendOf DEF Types
  <1>6. \A i, j \in DOMAIN completed' : completed'[i].w = completed'[j].w => i = j
    BY <1>1, <1>2, <1>3, <1>5 DEF Requests
  <1>7. \A i \in DOMAIN completed' :
          /\ completed'[i].w \in Elements(issued) \ Elements(queue')
          /\ completed'[i].status = "ok" <=> completed'[i].w \in Elements(left')
    <2> TAKE i \in DOMAIN completed'
    <2>1. CASE i = Len(completed) + 1
      <3>1. completed'[i] = c
        BY <1>5, <2>1
      <3> QED BY <3>1, <1>1, <1>3
    <2>2. CASE i # Len(completed) + 1
      <3>1. i \in DOMAIN completed /\ completed'[i] = completed[i]
        BY <1>5, <2>2
      <3> QED BY <3>1, <1>1, <1>2 DEF Requests
    <2> QED BY <2>1, <2>2
  <1>8. Elements(queue)' = Elements(queue') /\ Elements(left)' = Elements(left')
        /\ Elements(issued)' = Elements(issued)
    BY <1>2 DEF Elements
  <1> QED BY <1>2, <1>6, <1>7, <1>8 DEF Requests

\* Closing finishes what is queued, and nothing of it ever left.
LEMMA CancelFacts ==
  ASSUME IInv, Cancel
  PROVE  /\ Elements(queue) \subseteq Elements(issued) /\ queue' = <<>>
         /\ Elements(queue) \cap Elements(left) = {}
         /\ Finished' = Finished \cup Elements(queue)
         /\ Len(completed) \in Nat /\ Len(queue) \in Nat
         /\ DOMAIN completed = 1..Len(completed) /\ DOMAIN queue = 1..Len(queue)
         /\ DOMAIN completed' = 1..Len(completed) + Len(queue)
         /\ \A i \in 1..Len(completed) : completed'[i] = completed[i]
         /\ \A i \in 1..Len(queue) : /\ completed'[Len(completed) + i].w = queue[i]
                                     /\ completed'[Len(completed) + i].status = "error"
  <1>1. Types /\ Order /\ queue' = <<>>
    BY DEF IInv, Cancel
  <1> DEFINE c == [i \in DOMAIN queue |-> [w |-> queue[i], status |-> "error"]]
  <1>2. /\ c \in Seq([w : Sends, status : {"ok", "error"}]) /\ Len(c) = Len(queue)
        /\ completed' = completed \o c
        /\ \A i \in DOMAIN queue : c[i].w = queue[i] /\ c[i].status = "error"
    BY <1>1, Cancelled DEF Cancel
  <1> HIDE DEF c
  <1>3. /\ Len(completed) \in Nat /\ DOMAIN completed = 1..Len(completed)
        /\ DOMAIN completed' = 1..Len(completed) + Len(queue)
        /\ \A i \in 1..Len(completed) : completed'[i] = completed[i]
        /\ \A i \in 1..Len(queue) : completed'[Len(completed) + i] = c[i]
    <2> DEFINE Request == [w : Sends, status : {"ok", "error"}]
    <2>1. completed \in Seq(Request) /\ c \in Seq(Request)
      BY <1>1, <1>2 DEF Types
    <2> HIDE DEF Request
    <2> DEFINE d == completed \o c
    <2>2. /\ Len(completed) \in Nat /\ DOMAIN completed = 1..Len(completed)
          /\ DOMAIN d = 1..Len(completed) + Len(c)
          /\ \A i \in 1..Len(completed) : d[i] = completed[i]
          /\ \A i \in 1..Len(c) : d[Len(completed) + i] = c[i]
      BY <2>1, ConcatOf
    <2>3. completed' = d
      BY <1>2
    <2> HIDE DEF d
    <2> QED BY <1>2, <2>2, <2>3
  <1>4. Len(queue) \in Nat /\ DOMAIN queue = 1..Len(queue)
    BY <1>1 DEF Types
  <1>5. /\ \A i \in 1..Len(completed) : i \in DOMAIN completed'
        /\ \A i \in 1..Len(queue) : Len(completed) + i \in DOMAIN completed'
        /\ \A i \in DOMAIN completed' : \/ i \in 1..Len(completed)
                                        \/ i - Len(completed) \in 1..Len(queue)
                                           /\ i = Len(completed) + (i - Len(completed))
    BY <1>3, <1>4
  <1>6. \A i \in 1..Len(queue) : completed'[Len(completed) + i].w = queue[i]
    BY <1>2, <1>3, <1>4
  <1>7. Finished' = Finished \cup Elements(queue)
    <2>1. Finished' \subseteq Finished \cup Elements(queue)
      BY <1>3, <1>4, <1>5, <1>6 DEF Finished, Elements
    <2>2. Finished \subseteq Finished'
      BY <1>3, <1>5 DEF Finished
    <2>3. Elements(queue) \subseteq Finished'
      BY <1>4, <1>5, <1>6 DEF Finished, Elements
    <2> QED BY <2>1, <2>2, <2>3
  <1>8. /\ Elements(queue) \subseteq Elements(issued)
        /\ Elements(queue) \cap Elements(left) = {}
    BY <1>1, Distinct DEF Elements
  <1> QED BY <1>1, <1>2, <1>3, <1>4, <1>6, <1>7, <1>8

\* uv_udp_close moves all queued requests to the finished ones, in their order.
LEMMA CancelRequests ==
  ASSUME IInv, Cancel
  PROVE  Requests'
  <1>1. Types /\ Requests /\ Order /\ UNCHANGED <<issued, left>>
    BY DEF IInv, Cancel
  <1> DEFINE m == Len(completed)
             k == Len(queue)
  <1>2. /\ m \in Nat /\ k \in Nat /\ DOMAIN completed = 1..m /\ DOMAIN queue = 1..k
        /\ DOMAIN completed' = 1..m + k
        /\ \A i \in 1..m : completed'[i] = completed[i]
        /\ \A i \in 1..k : /\ completed'[m + i].w = queue[i]
                           /\ completed'[m + i].status = "error"
        /\ queue' = <<>>
    BY CancelFacts
  <1> HIDE DEF m, k
  <1>3. \A i \in 1..m : completed[i].w \notin Elements(queue)
    BY <1>1, <1>2 DEF Requests
  <1>4. \A i \in DOMAIN completed' :
          \/ i \in 1..m /\ completed'[i] = completed[i] /\ completed'[i].w \notin Elements(queue)
          \/ /\ i - m \in 1..k /\ completed'[i].w = queue[i - m]
             /\ completed'[i].w \in Elements(queue)
             /\ completed'[i].status = "error"
    <2> TAKE i \in DOMAIN completed'
    <2>1. CASE i <= m
      BY <1>2, <1>3, <2>1
    <2>2. CASE ~ (i <= m)
      <3>1. i - m \in 1..k /\ m + (i - m) = i
        BY <1>2, <2>2
      <3>2. queue[i - m] \in Elements(queue)
        BY <1>2, <3>1 DEF Elements
      <3> QED BY <1>2, <3>1, <3>2
    <2> QED BY <2>1, <2>2
  <1>5. \A i, j \in 1..k : queue[i] = queue[j] => i = j
    BY <1>1, <1>2, Distinct
  <1>6. \A i, j \in DOMAIN completed' : completed'[i].w = completed'[j].w => i = j
    <2> TAKE i, j \in DOMAIN completed'
    <2> HAVE completed'[i].w = completed'[j].w
    <2>1. CASE i \in 1..m /\ j \in 1..m
      BY <1>1, <1>2, <2>1 DEF Requests
    <2>2. CASE i - m \in 1..k /\ j - m \in 1..k
      <3>1. completed'[i].w = queue[i - m] /\ completed'[j].w = queue[j - m]
        BY <1>2, <1>4, <2>2
      <3>2. i - m = j - m
        BY <1>5, <2>2, <3>1
      <3> QED BY <1>2, <3>2
    <2> QED BY <1>4, <2>1, <2>2
  <1>7. \A i \in DOMAIN completed' :
          /\ completed'[i].w \in Elements(issued)
          /\ completed'[i].status = "ok" <=> completed'[i].w \in Elements(left)
    BY <1>1, <1>2, <1>4, CancelFacts DEF Requests
  <1>8. Elements(queue)' = {} /\ Elements(left)' = Elements(left)
        /\ Elements(issued)' = Elements(issued)
    BY <1>1, <1>2 DEF Elements
  <1> QED BY <1>1, <1>6, <1>7, <1>8 DEF Requests

\* The oldest finished request is taken out.
LEMMA OnSendFacts ==
  ASSUME IInv, OnSend
  PROVE  LET c == Head(completed)
         IN  /\ c.w \in Sends /\ c.w \in Elements(issued) \ Elements(queue)
             /\ c.status \in {"ok", "error"}
             /\ c.status = "ok" <=> c.w \in Elements(left)
             /\ c.w \notin Finished' /\ Finished = Finished' \cup {c.w}
             /\ completed \in Seq([w : Sends, status : {"ok", "error"}])
             /\ completed # <<>> /\ completed' = Tail(completed)
             /\ UNCHANGED <<issued, queue, left>>
  <1> DEFINE c == Head(completed)
  <1>1. /\ Types /\ Requests /\ completed # <<>> /\ completed' = Tail(completed)
        /\ UNCHANGED <<issued, queue, left>>
    BY DEF IInv, OnSend
  <1>2. /\ c \in [w : Sends, status : {"ok", "error"}]
        /\ Len(completed) \in Nat \ {0} /\ DOMAIN completed = 1..Len(completed)
        /\ DOMAIN completed' = 1..Len(completed) - 1
        /\ \A i \in 1..Len(completed) - 1 : completed'[i] = completed[i + 1]
        /\ c = completed[1]
    BY <1>1, TailOf DEF Types
  <1> HIDE DEF c
  <1>3. /\ 1 \in DOMAIN completed
        /\ \A i \in DOMAIN completed' : i + 1 \in DOMAIN completed
        /\ \A i \in DOMAIN completed : i = 1 \/ (i - 1 \in DOMAIN completed' /\ i = (i - 1) + 1)
    BY <1>2
  <1>4. c.w \notin Finished'
    <2>1. \A i \in DOMAIN completed' : completed'[i].w # c.w
      BY <1>1, <1>2, <1>3 DEF Requests
    <2> QED BY <2>1 DEF Finished
  <1>5. Finished = Finished' \cup {c.w}
    <2>1. Finished \subseteq Finished' \cup {c.w}
      BY <1>2, <1>3 DEF Finished
    <2>2. Finished' \cup {c.w} \subseteq Finished
      BY <1>2, <1>3 DEF Finished
    <2> QED BY <2>1, <2>2
  <1>6. c.w \in Elements(issued) \ Elements(queue) /\ (c.status = "ok" <=> c.w \in Elements(left))
    BY <1>1, <1>2, <1>3 DEF Requests
  <1>7. c.w \in Sends /\ c.status \in {"ok", "error"}
    BY <1>2
  <1> QED BY <1>1, <1>4, <1>5, <1>6, <1>7 DEF c, Types

\* OnSend takes the oldest finished request.
LEMMA OnSendRequests ==
  ASSUME IInv, OnSend
  PROVE  Requests'
  <1>1. /\ Types /\ Requests /\ completed # <<>> /\ completed' = Tail(completed)
        /\ UNCHANGED <<issued, queue, left>>
    BY DEF IInv, OnSend
  <1>2. /\ Len(completed) \in Nat \ {0} /\ DOMAIN completed = 1..Len(completed)
        /\ DOMAIN completed' = 1..Len(completed) - 1
        /\ \A i \in 1..Len(completed) - 1 : completed'[i] = completed[i + 1]
    BY <1>1, TailOf DEF Types
  <1>3. \A i \in DOMAIN completed' : i + 1 \in DOMAIN completed /\ completed'[i] = completed[i + 1]
    BY <1>2
  <1>4. \A i, j \in DOMAIN completed' : completed'[i].w = completed'[j].w => i = j
    <2> TAKE i, j \in DOMAIN completed'
    <2> HAVE completed'[i].w = completed'[j].w
    <2>1. i + 1 = j + 1
      BY <1>1, <1>3 DEF Requests
    <2> QED BY <1>2, <2>1
  <1>5. \A i \in DOMAIN completed' :
          /\ completed'[i].w \in Elements(issued) \ Elements(queue)
          /\ completed'[i].status = "ok" <=> completed'[i].w \in Elements(left)
    BY <1>1, <1>3 DEF Requests
  <1>6. /\ Elements(queue)' = Elements(queue) /\ Elements(left)' = Elements(left)
        /\ Elements(issued)' = Elements(issued)
    BY <1>1 DEF Elements
  <1> QED BY <1>1, <1>4, <1>5, <1>6 DEF Requests

\* The other steps change no request.
LEMMA OtherSteps ==
  ASSUME [Next]_vars
  PROVE  \/ \E w \in Sends, n \in 0..MaxLen : Send(w, n)
         \/ Transmit \/ Cancel \/ OnSend
         \/ UNCHANGED <<reqVars, issued, length, refused, sentBytes>>
  BY DEF Next, Construct, ConstructFails, UserClose, Destroy, CbReturn, OnRecv, OnClose,
         vars

\* Every step keeps the requests apart.
LEMMA RequestStep == IInv /\ [Next]_vars => Requests'
  <1> SUFFICES ASSUME IInv, [Next]_vars PROVE Requests'
    OBVIOUS
  <1>1. CASE UNCHANGED <<reqVars, issued, length, refused, sentBytes>>
    BY <1>1 DEF reqVars, IInv, Requests, Elements
  <1> QED BY <1>1, OtherSteps, SendRequests, TransmitRequests, CancelRequests,
             OnSendRequests

-----------------------------------------------------------------------------
\* The order of what leaves.

\* Datagrams keep their order when some are taken out: h says where each was.
LEMMA Thinned ==
  ASSUME Order, UNCHANGED issued, NEW h,
         \A i \in DOMAIN Out' : h[i] \in DOMAIN Out /\ Out'[i] = Out[h[i]],
         \A i, j \in DOMAIN Out' : i < j => h[i] < h[j]
  PROVE  Order'
  <1>1. \A i \in DOMAIN Out' : Out'[i] \in Elements(issued)
    BY DEF Order, Elements
  <1>2. Elements(Out)' \subseteq Elements(issued)'
    BY <1>1 DEF Elements
  <1>3. \A i, j \in DOMAIN Out' : \A a, b \in DOMAIN issued :
          i < j /\ issued[a] = Out'[i] /\ issued[b] = Out'[j] => a < b
    BY DEF Order
  <1> QED BY <1>2, <1>3 DEF Order

\* Send adds at most its own datagram, behind all that leave or wait.
LEMMA SendOrder ==
  ASSUME IInv, NEW w \in Sends, NEW n \in 0..MaxLen, Send(w, n)
  PROVE  /\ Order'
         /\ \/ FailedSend(w, n) /\ Out' = Out
            \/ /\ DirectSend(w, n) \/ QueuedSend(w, n)
               /\ Elements(Out)' = Elements(Out) \cup {w}
  <1>1. /\ Called(w, n)
        /\ FailedSend(w, n) \/ DirectSend(w, n) \/ QueuedSend(w, n)
    BY SendForm DEF IInv
  <1>2. Types /\ Order
    BY DEF IInv
  <1>3. /\ Out \in Seq(Sends) /\ Len(Out) \in Nat /\ DOMAIN Out = 1..Len(Out)
    BY <1>2, ConcatOf DEF Types, Out
  <1> DEFINE m == Len(issued)
  <1>4. /\ w \notin Elements(issued) /\ m \in Nat /\ DOMAIN issued = 1..m
        /\ DOMAIN issued' = 1..m + 1 /\ issued'[m + 1] = w
        /\ \A i \in 1..m : issued'[i] = issued[i]
        /\ Elements(issued)' = Elements(issued) \cup {w}
    BY <1>1, CalledFacts
  <1>5. \A i \in DOMAIN Out : \E a \in 1..m : issued[a] = Out[i] /\ Out[i] # w
    BY <1>2, <1>4 DEF Order, Elements
  <1> HIDE DEF m
  <1>6. \A i, j \in DOMAIN Out : \A a, b \in DOMAIN issued' :
          i < j /\ issued'[a] = Out[i] /\ issued'[b] = Out[j] => a < b
    <2> TAKE i, j \in DOMAIN Out
    <2> TAKE a, b \in DOMAIN issued'
    <2> HAVE i < j /\ issued'[a] = Out[i] /\ issued'[b] = Out[j]
    <2>1. a \in 1..m /\ b \in 1..m
      BY <1>4, <1>5
    <2> QED BY <2>1, <1>2, <1>4 DEF Order
  <1>7. CASE FailedSend(w, n)
    <2>1. Out' = Out
      BY <1>7 DEF FailedSend, Out
    <2>2. Elements(Out)' \subseteq Elements(issued)'
      BY <1>2, <1>4, <2>1 DEF Order, Elements
    <2> QED BY <1>6, <1>7, <2>1, <2>2 DEF Order
  <1>8. CASE DirectSend(w, n) \/ QueuedSend(w, n)
    <2>1. Out' = Append(Out, w)
      <3>1. CASE DirectSend(w, n)
        <4>1. left \o queue = left /\ Append(left, w) \o <<>> = Append(left, w)
          BY <1>2, <3>1 DEF Types, DirectSend
        <4> QED BY <3>1, <4>1 DEF DirectSend, Out
      <3>2. CASE QueuedSend(w, n)
        <4>1. left \o Append(queue, w) = Append(left \o queue, w)
          BY <1>2, SMTT(20) DEF Types
        <4> QED BY <3>2, <4>1 DEF QueuedSend, Out
      <3> QED BY <1>8, <3>1, <3>2
    <2>2. /\ DOMAIN Out' = 1..Len(Out) + 1 /\ Out'[Len(Out) + 1] = w
          /\ \A i \in 1..Len(Out) : Out'[i] = Out[i]
          /\ Elements(Append(Out, w)) = Elements(Out) \cup {w}
      BY <1>3, <2>1, AppendOf
    <2>3. Elements(Out)' = Elements(Out) \cup {w}
      BY <2>1, <2>2 DEF Elements
    <2>4. Elements(Out)' \subseteq Elements(issued)'
      BY <1>2, <1>4, <2>3 DEF Order
    <2>5. \A i, j \in DOMAIN Out' : \A a, b \in DOMAIN issued' :
            i < j /\ issued'[a] = Out'[i] /\ issued'[b] = Out'[j] => a < b
      <3> TAKE i, j \in DOMAIN Out'
      <3> TAKE a, b \in DOMAIN issued'
      <3> HAVE i < j /\ issued'[a] = Out'[i] /\ issued'[b] = Out'[j]
      <3>1. i \in DOMAIN Out /\ Out'[i] = Out[i]
        BY <1>3, <2>2
      <3>2. a \in 1..m
        BY <1>4, <1>5, <3>1
      <3>3. CASE j = Len(Out) + 1
        <4>1. b = m + 1
          BY <1>4, <2>2, <3>3 DEF Elements
        <4> QED BY <1>4, <3>2, <4>1
      <3>4. CASE j # Len(Out) + 1
        <4>1. j \in DOMAIN Out /\ Out'[j] = Out[j]
          BY <1>3, <2>2, <3>4
        <4> QED BY <1>6, <3>1, <4>1
      <3> QED BY <3>3, <3>4
    <2> QED BY <1>8, <2>3, <2>4, <2>5 DEF Order
  <1> QED BY <1>1, <1>7, <1>8

\* The oldest queued datagram leaves or is dropped; the others keep their places.
LEMMA TransmitOrder ==
  ASSUME IInv, Transmit
  PROVE  /\ Order'
         /\ \/ Elements(Out)' = Elements(Out)
            \/ \E h \in Elements(Out) : Elements(Out)' = Elements(Out) \ {h}
  <1> DEFINE h == Head(queue)
             m == Len(left)
             k == Len(queue)
  <1>1. /\ Types /\ Order /\ queue # <<>> /\ queue' = Tail(queue)
        /\ left' \in {left, Append(left, h)} /\ UNCHANGED issued
    BY DEF IInv, Transmit
  <1>2. /\ h \in Sends /\ h = queue[1] /\ DOMAIN queue' = 1..k - 1 /\ k \in Nat \ {0}
        /\ queue' \in Seq(Sends) /\ Len(queue') = k - 1
        /\ \A i \in 1..k - 1 : queue'[i] = queue[i + 1]
        /\ Elements(queue) = Elements(queue') \cup {h}
    BY <1>1, TailOf DEF Types
  <1>3. h \notin Elements(queue') /\ h \notin Elements(left)
    BY TransmitFacts
  <1>4. /\ Out \in Seq(Sends) /\ m \in Nat /\ DOMAIN Out = 1..m + k
        /\ \A i \in 1..m : Out[i] = left[i]
        /\ \A i \in 1..k : Out[m + i] = queue[i]
        /\ Elements(Out) = Elements(left) \cup Elements(queue)
    BY <1>1, ConcatOf DEF Types, Out
  <1>5. CASE left' = left
    <2>1. Out' = left \o queue'
      BY <1>5 DEF Out
    <2>2. /\ DOMAIN Out' = 1..m + (k - 1)
          /\ \A i \in 1..m : Out'[i] = left[i]
          /\ \A i \in 1..k - 1 : Out'[m + i] = queue'[i]
          /\ Elements(left \o queue') = Elements(left) \cup Elements(queue')
      <3> DEFINE d == left \o queue'
      <3>1. /\ DOMAIN d = 1..Len(left) + Len(queue')
            /\ \A i \in 1..Len(left) : d[i] = left[i]
            /\ \A i \in 1..Len(queue') : d[Len(left) + i] = queue'[i]
            /\ Elements(d) = Elements(left) \cup Elements(queue')
        <4>1. left \in Seq(Sends) /\ queue' \in Seq(Sends)
          BY <1>1, <1>2 DEF Types
        <4> QED BY <4>1, ConcatOf
      <3> HIDE DEF d
      <3> QED BY <1>2, <2>1, <3>1 DEF d
    <2>3. Elements(Out)' = Elements(Out) \ {h} /\ h \in Elements(Out)
      <3>1. Elements(Out)' = Elements(Out')
        BY DEF Elements
      <3> QED BY <1>2, <1>3, <1>4, <2>1, <2>2, <3>1
    <2> DEFINE p == [i \in 1..m + (k - 1) |-> IF i <= m THEN i ELSE i + 1]
    <2> HIDE DEF h, m, k
    <2>4. \A i \in DOMAIN Out' : p[i] \in DOMAIN Out /\ Out'[i] = Out[p[i]]
      <3> TAKE i \in DOMAIN Out'
      <3>1. CASE i <= m
        BY <1>2, <1>4, <2>2, <3>1
      <3>2. CASE ~ (i <= m)
        <4>1. i - m \in 1..k - 1 /\ i = m + (i - m) /\ i + 1 = m + ((i - m) + 1)
              /\ (i - m) + 1 \in 1..k /\ p[i] = i + 1
          BY <1>2, <1>4, <2>2, <3>2
        <4>2. Out'[i] = queue'[i - m] /\ queue'[i - m] = queue[(i - m) + 1]
          BY <1>2, <2>2, <4>1
        <4>3. Out[i + 1] = queue[(i - m) + 1]
          BY <1>4, <4>1
        <4> QED BY <1>2, <1>4, <4>1, <4>2, <4>3
      <3> QED BY <3>1, <3>2
    <2>5. \A i, j \in DOMAIN Out' : i < j => p[i] < p[j]
      BY <1>2, <1>4, <2>2
    <2> HIDE DEF p
    <2>6. Order'
      BY <1>1, <2>4, <2>5, Thinned
    <2> QED BY <2>3, <2>6
  <1>6. CASE left' = Append(left, h)
    <2>1. Out' = Out
      <3>1. Append(left, h) \o Tail(queue) = left \o queue
        <4>1. /\ left \in Seq(Sends) /\ <<h>> \in Seq(Sends) /\ Tail(queue) \in Seq(Sends)
              /\ Append(left, h) = left \o <<h>>
          BY <1>1, <1>2, AppendIsConcat DEF Types
        <4>2. <<h>> \o Tail(queue) = queue
          <5>1. queue \in Seq(Sends) /\ queue # <<>>
            BY <1>1 DEF Types
          <5> QED BY <5>1
        <4>3. (left \o <<h>>) \o Tail(queue) = left \o (<<h>> \o Tail(queue))
          BY <4>1, ConcatAssociative
        <4> QED BY <4>1, <4>2, <4>3
      <3> QED BY <1>1, <1>6, <3>1 DEF Out
    <2>2. Order'
      BY <1>1, <2>1 DEF Order, Elements
    <2>3. Elements(Out)' = Elements(Out)
      BY <2>1 DEF Elements
    <2> QED BY <2>2, <2>3
  <1> QED BY <1>1, <1>5, <1>6

\* A close drops all that wait and touches nothing that has left.
LEMMA CancelOrder ==
  ASSUME IInv, Cancel
  PROVE  Order' /\ Elements(Out)' \subseteq Elements(Out)
  <1>1. Types /\ Order /\ queue' = <<>> /\ UNCHANGED <<left, issued>>
    BY DEF IInv, Cancel
  <1>2. Out' = left
    <2>1. left \o <<>> = left
      BY <1>1 DEF Types
    <2> QED BY <1>1, <2>1 DEF Out
  <1>3. /\ Len(left) \in Nat /\ Len(queue) \in Nat /\ DOMAIN left = 1..Len(left)
        /\ DOMAIN Out = 1..Len(left) + Len(queue)
        /\ \A i \in 1..Len(left) : Out[i] = left[i]
        /\ Elements(Out) = Elements(left) \cup Elements(queue)
    BY <1>1, ConcatOf DEF Types, Out
  <1> DEFINE p == [i \in 1..Len(left) |-> i]
  <1>4. \A i \in DOMAIN Out' : p[i] \in DOMAIN Out /\ Out'[i] = Out[p[i]]
    BY <1>2, <1>3
  <1>5. \A i, j \in DOMAIN Out' : i < j => p[i] < p[j]
    BY <1>2, <1>3
  <1> HIDE DEF p
  <1>6. Order'
    BY <1>1, <1>4, <1>5, Thinned
  <1>7. Elements(Out)' = Elements(left)
    BY <1>2 DEF Elements
  <1> QED BY <1>3, <1>6, <1>7

\* Every step keeps the order.
LEMMA OrderStep == IInv /\ [Next]_vars => Order'
  <1> SUFFICES ASSUME IInv, [Next]_vars PROVE Order'
    OBVIOUS
  <1>1. CASE UNCHANGED <<reqVars, issued, length, refused, sentBytes>> \/ OnSend
    BY <1>1 DEF OnSend, reqVars, IInv, Order, Out, Elements
  <1> QED BY <1>1, OtherSteps, SendOrder, TransmitOrder, CancelOrder

-----------------------------------------------------------------------------
\* The callbacks.

\* The logs a callback can have.
LEMMA PairIs ==
  ASSUME NEW T, NEW a \in T, NEW b \in T
  PROVE  Append(<<a>>, b) = <<a, b>>
  <1> DEFINE s == Append(<<a>>, b)
             t == <<a, b>>
  <1>1. /\ s \in Seq(T) /\ Len(s) = 2 /\ s[1] = a /\ s[2] = b
    <2>1. <<a>> \in Seq(T) /\ Len(<<a>>) = 1 /\ <<a>>[1] = a
      OBVIOUS
    <2> QED BY <2>1, AppendProperties
  <1>2. t \in Seq(T) /\ Len(t) = 2 /\ t[1] = a /\ t[2] = b
    OBVIOUS
  <1> HIDE DEF s, t
  <1>3. \A i \in 1..Len(s) : s[i] = t[i]
    BY <1>1, <1>2
  <1>4. s = t
    BY <1>1, <1>2, <1>3, SeqEqual
  <1> QED BY <1>4 DEF s, t

\* How the log of a callback grows, one event after the other ...
LEMMA LogCases ==
  /\ \A e \in Events : Append(<<>>, e) = <<e>>
  /\ Append(<<"true">>, "freed") = <<"true", "freed">>
  /\ Append(<<"false">>, "freed") = <<"false", "freed">>
  <1>1. ASSUME NEW e \in Events PROVE Append(<<>>, e) = <<e>>
    <2>1. <<>> \in Seq(Events) /\ <<e>> \in Seq(Events)
      OBVIOUS
    <2>2. Append(<<>>, e) = <<>> \o <<e>>
      BY <2>1, AppendIsConcat
    <2> QED BY <2>1, <2>2, ConcatEmptySeq
  <1>2. /\ Append(<<"true">>, "freed") = <<"true", "freed">>
        /\ Append(<<"false">>, "freed") = <<"false", "freed">>
    <2>1. "true" \in Events /\ "false" \in Events /\ "freed" \in Events
      BY DEF Events
    <2> QED BY <2>1, PairIs, Zenon
  <1> QED BY <1>1, <1>2

\* ... through logs that are all different.
LEMMA LogsDiffer ==
  /\ <<>> # <<"true">> /\ <<>> # <<"false">> /\ <<>> # <<"freed">>
  /\ <<>> # <<"true", "freed">> /\ <<>> # <<"false", "freed">>
  /\ <<"true">> # <<"false">> /\ <<"true">> # <<"freed">> /\ <<"false">> # <<"freed">>
  /\ <<"true">> # <<"true", "freed">> /\ <<"true">> # <<"false", "freed">>
  /\ <<"false">> # <<"true", "freed">> /\ <<"false">> # <<"false", "freed">>
  /\ <<"freed">> # <<"true", "freed">> /\ <<"freed">> # <<"false", "freed">>
  /\ <<"true", "freed">> # <<"false", "freed">>
  OBVIOUS

\* The log of w still says the truth when nothing that it speaks of changed for w.
LEMMA SameLog ==
  ASSUME NEW w, LogOf(w), cbLog'[w] = cbLog[w],
         w \in Elements(issued)' <=> w \in Elements(issued),
         InFlight(w)' <=> InFlight(w),
         cbLog[w] # <<>> => (w \in Elements(left)' <=> w \in Elements(left)),
         w \in refused' <=> w \in refused,
         w \in Elements(frames)' <=> w \in Elements(frames),
         closed => closed'
  PROVE  LogOf(w)'
  BY LogsDiffer DEF LogOf

\* Nor does it lie when w is answered, and its callback runs.
LEMMA AnsweredLog ==
  ASSUME NEW w, NEW answer \in {"true", "false"}, cbLog'[w] = <<answer>>,
         w \in Elements(issued)', ~InFlight(w)',
         w \in Elements(left)' <=> answer = "true",
         w \in refused' => answer = "false", w \in Elements(frames)'
  PROVE  LogOf(w)'
  BY LogsDiffer DEF LogOf

\* What telling a callback does.
LEMMA TellFacts ==
  ASSUME Types, Logs, NEW w \in Sends, NEW answer \in {"true", "false"}, Tell(w, answer),
         cbLog[w] = <<>>
  PROVE  /\ \A v \in Sends : v # w => cbLog'[v] = cbLog[v]
         /\ w \in Silent => cbLog' = cbLog /\ frames' = frames
         /\ w \notin Silent => cbLog'[w] = <<answer>> /\ w \in Elements(frames)'
         /\ \A v : v # w => (v \in Elements(frames)' <=> v \in Elements(frames))
         /\ \A i, j \in DOMAIN frames' : frames'[i] = frames'[j] => i = j
  <1>1. CASE w \in Silent
    BY <1>1 DEF Tell, Elements, Logs
  <1>2. CASE w \notin Silent
    <2>1. /\ cbLog' = [cbLog EXCEPT ![w] = Append(@, answer)]
          /\ frames' = Append(frames, w)
      BY <1>2 DEF Tell
    <2>2. /\ cbLog'[w] = Append(<<>>, answer)
          /\ \A v \in Sends : v # w => cbLog'[v] = cbLog[v]
      BY <2>1 DEF Types
    <2>3. cbLog'[w] = <<answer>>
      BY <2>2, LogCases DEF Events
    <2>4. frames \in Seq(Sends \ Silent) /\ w \in Sends \ Silent
      BY <1>2 DEF Types
    <2>5. /\ Len(frames) \in Nat /\ DOMAIN frames = 1..Len(frames)
          /\ DOMAIN frames' = 1..Len(frames) + 1
          /\ \A i \in 1..Len(frames) : frames'[i] = frames[i]
          /\ frames'[Len(frames) + 1] = w
          /\ Elements(frames') = Elements(frames) \cup {w}
      BY <2>1, <2>4, AppendOf
    <2>6. w \notin Elements(frames)
      BY <2>4, LogsDiffer DEF Logs, LogOf
    <2>7. \A i \in 1..Len(frames) : frames[i] # w
      BY <2>5, <2>6 DEF Elements
    <2>8. \A i, j \in DOMAIN frames' : frames'[i] = frames'[j] => i = j
      BY <2>5, <2>7 DEF Logs
    <2>9. Elements(frames)' = Elements(frames')
      BY DEF Elements
    <2> QED BY <1>2, <2>2, <2>3, <2>5, <2>8, <2>9
  <1> QED BY <1>1, <1>2

\* Send answers its own callback at most, and that one had no answer.
LEMMA SendLogs ==
  ASSUME IInv, NEW w \in Sends, NEW n \in 0..MaxLen, Send(w, n)
  PROVE  Logs'
  <1>1. /\ Called(w, n) /\ UNCHANGED completed
        /\ FailedSend(w, n) \/ DirectSend(w, n) \/ QueuedSend(w, n)
    BY SendForm DEF IInv
  <1>2. Types /\ Logs
    BY DEF IInv
  <1>3. /\ w \notin Elements(issued) /\ w \notin Elements(left) /\ ~InFlight(w)
        /\ Elements(issued)' = Elements(issued) \cup {w}
    BY <1>1, CalledFacts, InFlightIs
  <1>4. (cbLog[w] = <<>> /\ w \notin refused) \/ w \in Silent
    BY <1>2, <1>3, LogsDiffer DEF Logs, LogOf
  <1>5. cbLog[w] = <<>>
    BY <1>2, <1>4 DEF Logs
  <1>6. UNCHANGED closed
    BY <1>1 DEF Called
  <1>7. CASE FailedSend(w, n)
    <2>1. Tell(w, "false") /\ UNCHANGED <<queue, left, completed>>
          /\ \A v : v # w => (v \in refused' <=> v \in refused)
      BY <1>1, <1>7 DEF FailedSend
    <2>2. /\ \A v : InFlight(v)' <=> InFlight(v)
          /\ Elements(left)' = Elements(left)
      BY <2>1 DEF InFlight, Elements
    <2>3. ASSUME NEW v \in Sends \ Silent, v # w PROVE LogOf(v)'
      BY <1>2, <1>3, <1>5, <1>6, <2>1, <2>2, <2>3, TellFacts, SameLog DEF Logs
    <2>4. ASSUME w \notin Silent PROVE LogOf(w)'
      <3>1. /\ cbLog'[w] = <<"false">> /\ w \in Elements(frames)'
            /\ w \in Elements(issued)' /\ ~InFlight(w)' /\ w \notin Elements(left)'
        BY <1>2, <1>3, <1>5, <2>1, <2>2, <2>4, TellFacts
      <3> QED BY <3>1, AnsweredLog
    <2> QED BY <1>2, <1>5, <2>1, <2>3, <2>4, TellFacts, SendsAssumption DEF Logs
  <1>8. CASE DirectSend(w, n)
    <2>1. /\ Tell(w, "true") /\ UNCHANGED <<queue, completed, refused>>
          /\ left' = Append(left, w)
      BY <1>1, <1>8 DEF DirectSend
    <2>2. /\ \A v : InFlight(v)' <=> InFlight(v)
          /\ Elements(left)' = Elements(left) \cup {w}
      <3>1. Elements(left') = Elements(left) \cup {w} /\ Elements(left)' = Elements(left')
        <4>1. Elements(Append(left, w)) = Elements(left) \cup {w}
          BY <1>2, AppendOf DEF Types
        <4> QED BY <2>1, <4>1 DEF Elements
      <3> QED BY <2>1, <3>1 DEF InFlight, Elements
    <2>3. ASSUME NEW v \in Sends \ Silent, v # w PROVE LogOf(v)'
      <3>1. cbLog'[v] = cbLog[v] /\ (v \in Elements(frames)' <=> v \in Elements(frames))
        BY <1>2, <1>5, <2>1, <2>3, TellFacts
      <3> QED BY <1>2, <1>3, <1>6, <2>1, <2>2, <2>3, <3>1, SameLog DEF Logs
    <2>4. ASSUME w \notin Silent PROVE LogOf(w)'
      <3>1. /\ cbLog'[w] = <<"true">> /\ w \in Elements(frames)'
            /\ w \in Elements(issued)' /\ ~InFlight(w)' /\ w \in Elements(left)'
            /\ w \notin refused'
        BY <1>2, <1>3, <1>4, <1>5, <2>1, <2>2, <2>4, TellFacts
      <3> QED BY <3>1, AnsweredLog
    <2> QED BY <1>2, <1>5, <2>1, <2>3, <2>4, TellFacts, SendsAssumption DEF Logs
  <1>9. CASE QueuedSend(w, n)
    <2>1. /\ queue' = Append(queue, w) /\ UNCHANGED <<left, completed, refused, cbLog, frames>>
      BY <1>1, <1>9 DEF QueuedSend
    <2>2. /\ \A v : InFlight(v)' <=> InFlight(v) \/ v = w
          /\ Elements(left)' = Elements(left) /\ Elements(frames)' = Elements(frames)
      <3>1. Elements(queue') = Elements(queue) \cup {w} /\ Elements(queue)' = Elements(queue')
        <4>1. Elements(Append(queue, w)) = Elements(queue) \cup {w}
          BY <1>2, AppendOf DEF Types
        <4> QED BY <2>1, <4>1 DEF Elements
      <3> QED BY <2>1, <3>1 DEF InFlight, Elements
    <2>3. ASSUME NEW v \in Sends \ Silent, v # w PROVE LogOf(v)'
      BY <1>2, <1>3, <1>6, <2>1, <2>2, <2>3, SameLog DEF Logs
    <2>4. ASSUME w \notin Silent PROVE LogOf(w)'
      <3>1. LogOf(w) /\ InFlight(w)' /\ w \in Elements(issued)' /\ cbLog'[w] = <<>>
        BY <1>2, <1>3, <1>5, <2>1, <2>2, <2>4 DEF Logs
      <3> QED BY <1>5, <2>1, <2>2, <3>1, LogsDiffer DEF LogOf
    <2> QED BY <1>2, <2>1, <2>3, <2>4, SendsAssumption DEF Logs
  <1> QED BY <1>1, <1>7, <1>8, <1>9

\* Requests that move from the queue to the finished ones.
LEMMA MovedLogs ==
  ASSUME IInv, Transmit \/ Cancel
  PROVE  Logs'
  <1>1. Types /\ Logs /\ UNCHANGED <<issued, closed, frames, refused, cbLog>>
    BY DEF IInv, Transmit, Cancel
  <1>2. /\ \A v : InFlight(v)' <=> InFlight(v)
        /\ \A v : ~InFlight(v) => (v \in Elements(left)' <=> v \in Elements(left))
    <2>1. /\ \A v : InFlight(v) <=> v \in Elements(queue) \cup Finished
          /\ \A v : InFlight(v)' <=> v \in Elements(queue)' \cup Finished'
      BY InFlightIs DEF InFlight, Finished
    <2>2. Elements(queue)' = Elements(queue') /\ Elements(left)' = Elements(left')
      BY DEF Elements
    <2>3. CASE Transmit
      <3> DEFINE h == Head(queue)
      <3>1. /\ Elements(queue) = Elements(queue') \cup {h}
            /\ Elements(left') \in {Elements(left), Elements(left) \cup {h}}
            /\ Finished' = Finished \cup {h}
        BY <2>3, TransmitFacts
      <3> HIDE DEF h
      <3> QED BY <2>1, <2>2, <3>1
    <2>4. CASE Cancel
      <3>1. UNCHANGED left /\ Elements(queue)' = {}
        BY <2>4, CancelFacts DEF Cancel, Elements
      <3>2. Finished' = Finished \cup Elements(queue)
        BY <2>4, CancelFacts
      <3> QED BY <2>1, <2>2, <3>1, <3>2
    <2> QED BY <2>3, <2>4
  <1>3. /\ Elements(issued)' = Elements(issued) /\ Elements(frames)' = Elements(frames)
    BY <1>1 DEF Elements
  <1>4. ASSUME NEW v \in Sends \ Silent PROVE LogOf(v)'
    <2>1. LogOf(v)
      BY <1>1 DEF Logs
    <2>2. cbLog[v] # <<>> => ~InFlight(v)
      BY <2>1 DEF LogOf
    <2> QED BY <1>1, <1>2, <1>3, <2>1, <2>2, SameLog
  <1> QED BY <1>1, <1>4 DEF Logs

\* OnSend answers and deletes a callback that had no answer, and truly.
LEMMA OnSendLogs ==
  ASSUME IInv, OnSend
  PROVE  Logs'
  <1>1. Types /\ Logs /\ Life /\ Requests /\ Order /\ Idle
        /\ UNCHANGED <<issued, queue, left, closed, refused>>
    BY DEF IInv, OnSend
  <1>2. PICK w \in Sends, answer \in {"true", "false"} :
          /\ w \in Elements(issued) \ Elements(queue)
          /\ answer = "true" <=> w \in Elements(left)
          /\ w \notin Finished' /\ Finished = Finished' \cup {w}
          /\ completed # <<>>
          /\ IF data THEN Tell(w, answer) ELSE Delete(w) /\ UNCHANGED frames
    <2> DEFINE c == Head(completed)
               answer == IF c.status = "ok" THEN "true" ELSE "false"
    <2>1. /\ c.w \in Sends /\ c.w \in Elements(issued) \ Elements(queue)
          /\ c.status \in {"ok", "error"} /\ (c.status = "ok" <=> c.w \in Elements(left))
          /\ c.w \notin Finished' /\ Finished = Finished' \cup {c.w}
          /\ completed # <<>>
      BY OnSendFacts
    <2>2. IF data THEN Tell(c.w, answer) ELSE Delete(c.w) /\ UNCHANGED frames
      BY DEF OnSend
    <2>3. answer \in {"true", "false"} /\ (answer = "true" <=> c.w \in Elements(left))
      BY <2>1
    <2> HIDE DEF c, answer
    <2> QED BY <2>1, <2>2, <2>3
  <1>4. answer \in {"true", "false"} /\ (answer = "true" <=> w \in Elements(left))
    BY <1>2
  <1>5. /\ \A v : v # w => (InFlight(v)' <=> InFlight(v))
        /\ InFlight(w) /\ ~InFlight(w)'
        /\ Elements(left)' = Elements(left) /\ Elements(issued)' = Elements(issued)
    <2>1. /\ \A v : InFlight(v) <=> v \in Elements(queue) \cup Finished
          /\ \A v : InFlight(v)' <=> v \in Elements(queue)' \cup Finished'
      BY InFlightIs DEF InFlight, Finished
    <2>2. Elements(queue)' = Elements(queue)
      BY <1>1 DEF Elements
    <2>3. Elements(left)' = Elements(left) /\ Elements(issued)' = Elements(issued)
      BY <1>1 DEF Elements
    <2> QED BY <1>2, <2>1, <2>2, <2>3
  <1>6. cbLog[w] = <<>>
    BY <1>1, <1>2, <1>5 DEF Logs, LogOf
  <1>7. w \notin Silent => w \notin refused \/ answer = "false"
    BY <1>1, <1>2, <1>6, LogsDiffer DEF Logs, LogOf
  <1>8. CASE data
    <2>1. Tell(w, answer)
      BY <1>2, <1>8
    <2>2. ASSUME NEW v \in Sends \ Silent, v # w PROVE LogOf(v)'
      <3>1. cbLog'[v] = cbLog[v] /\ (v \in Elements(frames)' <=> v \in Elements(frames))
        BY <1>1, <1>2, <1>4, <1>6, <2>1, <2>2, TellFacts
      <3> QED BY <1>1, <1>5, <2>2, <3>1, SameLog DEF Logs
    <2>3. ASSUME w \notin Silent PROVE LogOf(w)'
      <3>1. cbLog'[w] = <<answer>> /\ w \in Elements(frames)'
        BY <1>1, <1>2, <1>4, <1>6, <2>1, <2>3, TellFacts
      <3>2. w \in Elements(issued)' /\ ~InFlight(w)'
            /\ (w \in Elements(left)' <=> answer = "true")
            /\ (w \in refused' => answer = "false")
        BY <1>1, <1>2, <1>4, <1>5, <1>7, <2>3
      <3> QED BY <1>4, <3>1, <3>2, AnsweredLog
    <2>4. /\ \A i, j \in DOMAIN frames' : frames'[i] = frames'[j] => i = j
          /\ \A v \in Sends : v # w => cbLog'[v] = cbLog[v]
          /\ w \in Silent => cbLog' = cbLog
      BY <1>1, <1>2, <1>4, <1>6, <2>1, TellFacts
    <2> QED BY <1>1, <2>2, <2>3, <2>4, SendsAssumption DEF Logs
  <1>9. CASE ~data
    <2>1. Delete(w) /\ UNCHANGED frames
      BY <1>2, <1>9
    <2>2. closed
      BY <1>1, <1>2, <1>9, NothingAsked DEF Life, Types
    <2>3. /\ \A v \in Sends : v # w => cbLog'[v] = cbLog[v]
          /\ cbLog'[w] = IF w \in Silent THEN <<>> ELSE Append(<<>>, "freed")
      BY <1>1, <1>2, <1>6, <2>1 DEF Delete, Types
    <2>4. Elements(frames)' = Elements(frames)
      BY <2>1 DEF Elements
    <2>5. ASSUME NEW v \in Sends \ Silent, v # w PROVE LogOf(v)'
      BY <1>1, <1>5, <2>3, <2>4, <2>5, SameLog DEF Logs
    <2>6. ASSUME w \notin Silent PROVE LogOf(w)'
      <3>1. cbLog'[w] = <<"freed">>
        BY <2>3, <2>6, LogCases DEF Events
      <3>2. LogOf(w)
        BY <1>1, <1>2, <2>6 DEF Logs
      <3>3. w \notin refused' /\ w \notin Elements(frames)' /\ closed'
        BY <1>1, <1>6, <2>2, <2>4, <3>2, LogsDiffer DEF LogOf
      <3>4. w \in Elements(issued)' /\ ~InFlight(w)'
        BY <1>2, <1>5
      <3> QED BY <3>1, <3>3, <3>4, LogsDiffer DEF LogOf
    <2> QED BY <1>1, <1>2, <2>1, <2>3, <2>5, <2>6, SendsAssumption DEF Logs
  <1> QED BY <1>8, <1>9

\* A callback that returns is deleted, unless SendRefused has called it.
LEMMA ReturnLogs ==
  ASSUME IInv, CbReturn
  PROVE  Logs'
  <1> DEFINE m == Len(frames)
  <1>1. /\ Types /\ Logs /\ frames # <<>> /\ frames' = SubSeq(frames, 1, m - 1)
        /\ UNCHANGED <<issued, queue, completed, left, closed, refused>>
    BY DEF IInv, CbReturn, reqVars
  <1>2. /\ m \in Nat \ {0} /\ DOMAIN frames = 1..m /\ DOMAIN frames' = 1..m - 1
        /\ \A i \in 1..m - 1 : frames'[i] = frames[i]
        /\ Elements(frames) = Elements(frames)' \cup {frames[m]}
        /\ frames[m] \in Sends \ Silent
    <2>1. frames \in Seq(Sends \ Silent)
      BY <1>1 DEF Types
    <2>2. Elements(frames)' = Elements(frames')
      BY DEF Elements
    <2>3. Len(frames) \in DOMAIN frames
      BY <1>1, <2>1
    <2> QED BY <1>1, <2>1, <2>2, <2>3, FrontOf
  <1>3. PICK w \in Sends \ Silent : w = frames[m]
    BY <1>2
  <1> HIDE DEF m
  <1>4. \A i \in 1..m - 1 : frames'[i] # w
    BY <1>1, <1>2, <1>3 DEF Logs
  <1>5. w \notin Elements(frames)' /\ w \in Elements(frames)
    BY <1>2, <1>3, <1>4 DEF Elements
  <1>6. /\ \A v : InFlight(v)' <=> InFlight(v)
        /\ Elements(left)' = Elements(left) /\ Elements(issued)' = Elements(issued)
    BY <1>1 DEF InFlight, Elements
  <1>7. LogOf(w) /\ cbLog[w] \in {<<"true">>, <<"false">>}
    BY <1>1, <1>5 DEF Logs, LogOf
  <1>8. IF w \in refused THEN UNCHANGED cbLog ELSE Delete(w)
    BY <1>3 DEF CbReturn, m
  <1>9. \A v \in Sends : v # w => cbLog'[v] = cbLog[v]
    BY <1>1, <1>8 DEF Delete, Types
  <1>10. ASSUME NEW v \in Sends \ Silent, v # w PROVE LogOf(v)'
    <2>1. v \in Elements(frames)' <=> v \in Elements(frames)
      BY <1>2, <1>3, <1>10
    <2> QED BY <1>1, <1>6, <1>9, <1>10, <2>1, SameLog DEF Logs
  <1>11. LogOf(w)'
    <2>1. CASE w \in refused
      BY <1>1, <1>5, <1>6, <1>7, <1>8, <2>1, LogsDiffer DEF LogOf
    <2>2. CASE w \notin refused
      <3>1. cbLog'[w] = Append(cbLog[w], "freed")
        BY <1>1, <1>3, <1>8, <2>2 DEF Delete, Types
      <3>2. \/ cbLog[w] = <<"true">> /\ cbLog'[w] = <<"true", "freed">>
            \/ cbLog[w] = <<"false">> /\ cbLog'[w] = <<"false", "freed">>
        BY <1>7, <3>1, LogCases
      <3> QED BY <1>1, <1>5, <1>6, <1>7, <2>2, <3>2, LogsDiffer DEF LogOf
    <2> QED BY <2>1, <2>2
  <1>12. \A i, j \in DOMAIN frames' : frames'[i] = frames'[j] => i = j
    BY <1>1, <1>2 DEF Logs
  <1> QED BY <1>1, <1>3, <1>9, <1>10, <1>11, <1>12, SendsAssumption DEF Logs

\* Every step keeps the logs.
LEMMA LogStep == IInv /\ [Next]_vars => Logs'
  <1> SUFFICES ASSUME IInv, [Next]_vars PROVE Logs'
    OBVIOUS
  <1>1. CASE /\ UNCHANGED <<reqVars, issued, refused, cbLog, frames>>
             /\ closed => closed'
    <2>1. Logs /\ \A w \in Sends \ Silent : LogOf(w)
      BY DEF IInv, Logs
    <2>2. ASSUME NEW w \in Sends \ Silent PROVE LogOf(w)'
      BY <1>1, <2>1 DEF LogOf, InFlight, Elements, reqVars
    <2> QED BY <1>1, <2>1, <2>2 DEF Logs
  <1>2. \/ CbReturn \/ \E w \in Sends, n \in 0..MaxLen : Send(w, n)
        \/ Transmit \/ Cancel \/ OnSend
        \/ /\ UNCHANGED <<reqVars, issued, refused, cbLog, frames>>
           /\ closed => closed'
    BY DEF Next, Construct, ConstructFails, UserClose, Destroy, Close, OnRecv, OnClose, vars
  <1> QED BY <1>1, <1>2, ReturnLogs, SendLogs, MovedLogs, OnSendLogs

-----------------------------------------------------------------------------
\* Counting.

\* Both sums the counter is compared with, now and in the next state.
LEMMA SumsAre ==
  /\ \A S : Sum(S) = SumOf(length, S)
  /\ Sum(Elements(Out))' = SumOf(length', Elements(Out)')
  /\ Sum(Elements(issued))' = SumOf(length', Elements(issued)')
  BY Zenon DEF Sum, MapThenSumSet, MapThenFoldSet, SumOf, Sums, Pick

\* The elements of a sequence are finitely many.
LEMMA ElementsFinite ==
  ASSUME NEW T, NEW s \in Seq(T)
  PROVE  IsFiniteSet(Elements(s)) /\ Elements(s) \subseteq T
  <1>1. DOMAIN s = 1..Len(s) /\ Len(s) \in Nat
    OBVIOUS
  <1>2. s \in [DOMAIN s -> Elements(s)] /\ \A x \in Elements(s) : \E i \in DOMAIN s : s[i] = x
    BY DEF Elements
  <1>3. s \in Surjection(DOMAIN s, Elements(s))
    BY <1>2 DEF Surjection
  <1>4. IsFiniteSet(DOMAIN s)
    BY <1>1, FS_Interval
  <1>5. IsFiniteSet(Elements(s))
    BY <1>3, <1>4, FS_Surjection
  <1> QED BY <1>5 DEF Elements

\* More datagrams never have fewer bytes.
LEMMA SumMono ==
  ASSUME NEW f, NEW S, NEW T, IsFiniteSet(T), S \subseteq T, \A x \in T : f[x] \in Nat
  PROVE  SumOf(f, S) <= SumOf(f, T)
  <1> DEFINE F == {t \in SUBSET T : S \subseteq t /\ ~ (SumOf(f, S) <= SumOf(f, t))}
  <1>1. SUFFICES ASSUME F # {} PROVE FALSE
    OBVIOUS
  <1>2. \A t \in SUBSET T : IsFiniteSet(t) /\ SumOf(f, t) \in Nat
    BY FS_Subset, SumNat
  <1>3. PICK m \in F : \A t \in F : ~ (Cardinality(t) < Cardinality(m))
    BY <1>1, <1>2, Smallest, Zenon
  <1>4. m # S
    BY <1>2
  <1>5. PICK x \in m : x \notin S
    BY <1>4
  <1> DEFINE r == m \ {x}
  <1>6. r \in SUBSET T /\ S \subseteq r /\ m = r \cup {x} /\ x \notin r
    BY <1>5
  <1>7. r \notin F
    BY <1>2, <1>3, LessOne
  <1>8. SumOf(f, S) <= SumOf(f, r)
    BY <1>6, <1>7
  <1>9. SumOf(f, r \cup {x}) = f[x] + SumOf(f, r)
    BY <1>2, <1>6, SumAdd
  <1>10. /\ SumOf(f, S) \in Nat /\ SumOf(f, r) \in Nat /\ f[x] \in Nat
         /\ ~ (SumOf(f, S) <= SumOf(f, m))
    BY <1>2, <1>6
  <1> HIDE DEF r, F
  <1> QED BY <1>6, <1>8, <1>9, <1>10

\* The sets summed are finite and their lengths are numbers.
LEMMA CountTypes ==
  ASSUME Types
  PROVE  /\ IsFiniteSet(Elements(Out)) /\ IsFiniteSet(Elements(issued))
         /\ Elements(Out) \subseteq Sends /\ Elements(issued) \subseteq Sends
         /\ \A w \in Sends : length[w] \in Nat
         /\ SumOf(length, Elements(Out)) \in Nat
         /\ SumOf(length, Elements(issued)) \in Nat
  <1>1. Out \in Seq(Sends) /\ issued \in Seq(Sends)
    BY ConcatOf DEF Types, Out
  <1>2. /\ IsFiniteSet(Elements(Out)) /\ IsFiniteSet(Elements(issued))
        /\ Elements(Out) \subseteq Sends /\ Elements(issued) \subseteq Sends
    BY <1>1, ElementsFinite
  <1>3. \A w \in Sends : length[w] \in Nat
    BY BoundAssumption DEF Types
  <1> QED BY <1>2, <1>3, SumNat

\* The new datagram adds its length to what was given, and to what has left or
\* waits unless it failed.
LEMMA SendCounted ==
  ASSUME IInv, NEW w \in Sends, NEW n \in 0..MaxLen, Send(w, n)
  PROVE  Counted'
  <1>1. /\ Called(w, n) /\ n \in Nat
        /\ FailedSend(w, n) \/ DirectSend(w, n) \/ QueuedSend(w, n)
    BY SendForm DEF IInv
  <1>2. Types /\ Counted
    BY DEF IInv
  <1>3. /\ length'[w] = n /\ \A v \in Sends : v # w => length'[v] = length[v]
        /\ \A v \in Sends : length[v] \in Nat /\ length'[v] \in Nat
    <2>1. length' = [length EXCEPT ![w] = n] /\ length \in [Sends -> 0..MaxLen]
      BY <1>1, <1>2 DEF Called, Types
    <2> QED BY <1>1, <2>1, BoundAssumption
  <1>4. /\ w \notin Elements(issued) /\ w \notin Elements(Out)
        /\ Elements(issued)' = Elements(issued) \cup {w}
    BY <1>1, CalledFacts
  <1> DEFINE given == SumOf(length, Elements(issued))
             out   == SumOf(length, Elements(Out))
  <1>5. /\ IsFiniteSet(Elements(Out)) /\ IsFiniteSet(Elements(issued))
        /\ Elements(Out) \subseteq Sends /\ Elements(issued) \subseteq Sends
        /\ out \in Nat /\ given \in Nat /\ sentBytes \in Nat
    BY <1>2, CountTypes DEF Types
  <1>6. out <= sentBytes /\ sentBytes <= given
    BY <1>2, SumsAre DEF Counted
  <1>7. SumOf(length', Elements(issued)) = given /\ SumOf(length', Elements(Out)) = out
    <2>1. /\ \A v \in Elements(issued) : length[v] = length'[v]
          /\ \A v \in Elements(Out) : length[v] = length'[v]
      BY <1>3, <1>4, <1>5
    <2> QED BY <1>5, <2>1, SumSame
  <1>8. /\ SumOf(length', Elements(issued) \cup {w}) = n + given
        /\ SumOf(length', Elements(Out) \cup {w}) = n + out
    <2>1. /\ \A v \in Elements(issued) \cup {w} : length'[v] \in Nat
          /\ \A v \in Elements(Out) \cup {w} : length'[v] \in Nat
      BY <1>3, <1>5
    <2>2. /\ SumOf(length', Elements(issued) \cup {w})
               = length'[w] + SumOf(length', Elements(issued))
          /\ SumOf(length', Elements(Out) \cup {w})
               = length'[w] + SumOf(length', Elements(Out))
      BY <1>4, <1>5, <2>1, SumAdd
    <2> QED BY <1>3, <1>7, <2>2
  <1>9. Sum(Elements(issued))' = n + given
    BY <1>4, <1>8, SumsAre
  <1> HIDE DEF given, out
  <1>10. CASE FailedSend(w, n) /\ Out' = Out
    <2>1. Sum(Elements(Out))' = out
      BY <1>7, <1>10, SumsAre DEF Elements
    <2>2. sentBytes <= sentBytes' /\ sentBytes' <= sentBytes + n /\ sentBytes' \in Int
      BY <1>1, <1>5, <1>10 DEF FailedSend
    <2> QED BY <1>1, <1>5, <1>6, <1>9, <2>1, <2>2 DEF Counted
  <1>11. CASE (DirectSend(w, n) \/ QueuedSend(w, n)) /\ Elements(Out)' = Elements(Out) \cup {w}
    <2>1. Sum(Elements(Out))' = n + out
      BY <1>8, <1>11, SumsAre
    <2>2. sentBytes' = sentBytes + n
      BY <1>11 DEF DirectSend, QueuedSend
    <2> QED BY <1>1, <1>5, <1>6, <1>9, <2>1, <2>2 DEF Counted
  <1> QED BY <1>10, <1>11, SendOrder

\* The other steps give and count nothing, and what waits can only become less.
LEMMA CountStep == IInv /\ [Next]_vars => Counted'
  <1> SUFFICES ASSUME IInv, [Next]_vars PROVE Counted'
    OBVIOUS
  <1>1. CASE UNCHANGED <<issued, length, sentBytes>> /\ Elements(Out)' \subseteq Elements(Out)
    <2>1. Types /\ Counted
      BY DEF IInv
    <2>2. Elements(issued)' = Elements(issued)
      BY <1>1 DEF Elements
    <2>3. SumOf(length, Elements(Out)') <= SumOf(length, Elements(Out))
      <3>1. \A w \in Elements(Out) : length[w] \in Nat
        BY <2>1, CountTypes
      <3> QED BY <1>1, <2>1, <3>1, CountTypes, SumMono
    <2>4. SumOf(length, Elements(Out)') \in Nat
      <3>1. /\ IsFiniteSet(Elements(Out)')
            /\ \A w \in Elements(Out)' : length[w] \in Nat
        BY <1>1, <2>1, CountTypes, FS_Subset
      <3> QED BY <3>1, SumNat
    <2>5. /\ SumOf(length, Elements(Out)) <= sentBytes
          /\ sentBytes <= SumOf(length, Elements(issued))
      BY <2>1, SumsAre DEF Counted
    <2>6. /\ Sum(Elements(Out))' = SumOf(length, Elements(Out)')
          /\ Sum(Elements(issued))' = SumOf(length, Elements(issued))
      BY <1>1, <2>2, SumsAre
    <2>7. /\ SumOf(length, Elements(Out)) \in Nat /\ sentBytes \in Nat
          /\ UNCHANGED sentBytes
      BY <1>1, <2>1, CountTypes DEF Types
    <2> QED BY <2>3, <2>4, <2>5, <2>6, <2>7 DEF Counted
  <1>2. CASE UNCHANGED <<reqVars, issued, length, refused, sentBytes>>
    BY <1>1, <1>2 DEF reqVars, Out, Elements
  <1>3. CASE Transmit
    BY <1>1, <1>3, TransmitOrder DEF Transmit
  <1>4. CASE Cancel
    BY <1>1, <1>4, CancelOrder DEF Cancel
  <1>5. CASE OnSend
    <2>1. Elements(Out)' = Elements(Out)
      BY <1>5 DEF OnSend, Out, Elements
    <2> QED BY <1>1, <1>5, <2>1 DEF OnSend
  <1> QED BY <1>2, <1>3, <1>4, <1>5, OtherSteps, SendCounted

-----------------------------------------------------------------------------
\* The theorems.

\* The invariant holds of every reachable state: at the start nothing exists.
THEOREM Invariant == Spec => []IInv
  <1>1. Init => IInv
    <2> SUFFICES ASSUME Init PROVE IInv
      OBVIOUS
    <2>1. Types
      <3>1. /\ <<>> \in Seq(Events) /\ <<>> \in Seq(Sends) /\ <<>> \in Seq(Sends \ Silent)
            /\ <<>> \in Seq([w : Sends, status : {"ok", "error"}])
        OBVIOUS
      <3>2. 0 \in 0..MaxLen /\ 0 \in 0..MaxRecv /\ 0 \in Nat
        BY BoundAssumption
      <3>3. length \in [Sends -> 0..MaxLen] /\ cbLog \in [Sends -> Seq(Events)]
        BY <3>1, <3>2 DEF Init
      <3> QED BY <3>1, <3>2, <3>3 DEF Init, Types
    <2>2. Life
      BY DEF Init, Life
    <2>3. Out = <<>>
      BY DEF Init, Out
    <2>4. /\ Elements(issued) = {} /\ Elements(queue) = {} /\ Elements(Out) = {}
          /\ Elements(frames) = {} /\ DOMAIN completed = {} /\ DOMAIN frames = {}
          /\ DOMAIN issued = {} /\ DOMAIN Out = {}
      BY <2>3 DEF Init, Elements
    <2>5. Requests /\ Order
      BY <2>4 DEF Requests, Order
    <2>6. Logs
      <3>1. ASSUME NEW w \in Sends PROVE cbLog[w] = <<>> /\ w \notin refused
        BY DEF Init
      <3> QED BY <2>4, <3>1, SendsAssumption, LogsDiffer DEF Logs, LogOf, InFlight
    <2>7. Counted
      <3>1. SumOf(length, {}) = 0
        BY FS_EmptySet, SumStep
      <3>2. Sum({}) = 0
        BY <3>1, SumsAre, Zenon
      <3>3. Sum(Elements(Out)) = 0 /\ Sum(Elements(issued)) = 0
        BY <2>4, <3>2, Zenon
      <3> QED BY <3>3 DEF Counted, Init
    <2> QED BY <2>1, <2>2, <2>5, <2>6, <2>7 DEF IInv
  <1>2. IInv /\ [Next]_vars => IInv'
    BY TypeStep, LifeStep, RequestStep, OrderStep, LogStep, CountStep DEF IInv
  <1> QED BY <1>1, <1>2, PTL DEF Spec

\* Every variable has its type, and sentBytes never counts more bytes than Send was
\* given, although a datagram that is cut off counts with a part of its length.
THEOREM TypeCorrect == Spec => []TypeOK
  <1>1. IInv => TypeOK
    <2> SUFFICES ASSUME IInv PROVE TypeOK
      OBVIOUS
    <2>1. Types /\ Counted
      BY DEF IInv
    <2>2. Sum(Elements(issued)) \in Nat
      BY <2>1, CountTypes, SumsAre
    <2>3. sentBytes \in 0..Sum(Elements(issued))
      BY <2>1, <2>2 DEF Types, Counted
    <2> QED BY <2>1, <2>3 DEF TypeOK, Types, Events
  <1> QED BY <1>1, Invariant, PTL

\* Close and delete are safe anywhere, in the callbacks of Send and of onSend too: no
\* handle is closed twice, and nothing of a deleted socket is used.
THEOREM NoFaultEver == Spec => []NoFault
  <1>1. IInv => NoFault
    BY DEF IInv, Life, NoFault
  <1> QED BY <1>1, Invariant, PTL

\* Every callback is told once and rightly, no datagram leaves twice or overtakes
\* an earlier one, and what has left or waits is counted in sentBytes.
THEOREM SendsAlwaysRight == Spec => []SendsRight
  <1>1. IInv => SendsRight
    <2> SUFFICES ASSUME IInv PROVE SendsRight
      OBVIOUS
    <2>1. Types /\ Requests /\ Order /\ Logs /\ Counted
      BY DEF IInv
    <2>2. CallbackDiscipline
      <3> SUFFICES ASSUME NEW w \in Sends \ Silent
                   PROVE  /\ cbLog[w] \in {<<>>, <<"true">>, <<"false">>, <<"freed">>,
                                           <<"true", "freed">>, <<"false", "freed">>}
                          /\ w \in Elements(issued) /\ cbLog[w] = <<>> <=> InFlight(w)
                          /\ "true" \in Elements(cbLog[w]) => w \in Elements(left)
                          /\ "false" \in Elements(cbLog[w]) => w \notin Elements(left)
                          /\ cbLog[w] = <<"freed">> => closed
                          /\ cbLog[w] \in {<<"true">>, <<"false">>} =>
                               w \in Elements(frames) \cup refused
        BY DEF CallbackDiscipline
      <3>1. LogOf(w)
        BY <2>1 DEF Logs
      <3>2. /\ Elements(<<>>) = {} /\ Elements(<<"true">>) = {"true"}
            /\ Elements(<<"false">>) = {"false"} /\ Elements(<<"freed">>) = {"freed"}
            /\ Elements(<<"true", "freed">>) = {"true", "freed"}
            /\ Elements(<<"false", "freed">>) = {"false", "freed"}
        BY DEF Elements
      <3>3. /\ "true" \in Elements(cbLog[w]) => cbLog[w] \in {<<"true">>, <<"true", "freed">>}
            /\ "false" \in Elements(cbLog[w]) => cbLog[w] \in {<<"false">>, <<"false", "freed">>}
        BY <3>1, <3>2 DEF LogOf
      <3> QED BY <3>1, <3>3 DEF LogOf
    <2>3. \A i \in DOMAIN Out : \E a \in DOMAIN issued : issued[a] = Out[i]
      BY <2>1 DEF Order, Elements
    <2> DEFINE place(w) == CHOOSE i \in DOMAIN issued : issued[i] = w
    <2>4. \A i \in DOMAIN Out : place(Out[i]) \in DOMAIN issued /\ issued[place(Out[i])] = Out[i]
      BY <2>3, Zenon
    <2> HIDE DEF place
    <2>5. \A i, j \in DOMAIN Out : i < j => place(Out[i]) < place(Out[j])
      BY <2>1, <2>4 DEF Order
    <2> USE DEF place
    <2> QED BY <2>1, <2>2, <2>5, Zenon DEF SendsRight, Out, Counted
  <1> QED BY <1>1, Invariant, PTL

\* A closed socket receives nothing any more, and whatever was still waiting is neither
\* reported as sent nor as failed: its callback is deleted without having been called.
THEOREM NeverAnsweredAfterClose == Spec => SilentAfterClose
  <1>1. ASSUME IInv, [Next]_vars, closed
        PROVE  /\ received' = received
               /\ \A w \in Sends : InFlight(w) => cbLog'[w] \in {<<>>, <<"freed">>}
    <2>1. Types /\ Life /\ Requests /\ Logs
      BY <1>1 DEF IInv
    <2>2. ~data /\ ~receiving
      BY <1>1, <2>1 DEF Life
    <2>3. received' = received
      BY <1>1, <2>2 DEF Next, Construct, ConstructFails, UserClose, Destroy, Send,
           SendRefused, SendDirect, SendTruncated, SendFails, SendQueued, Tried, Called,
           CbReturn, OnRecv, OnSend, OnClose, Transmit, Cancel, vars
    <2>4. ASSUME NEW w \in Sends, InFlight(w) PROVE cbLog'[w] \in {<<>>, <<"freed">>}
      <3>1. cbLog[w] = <<>>
        BY <2>1, <2>4 DEF Logs, LogOf
      <3>2. w \in Elements(issued)
        <4>1. w \notin Silent => w \in Elements(issued)
          BY <2>1, <2>4 DEF Logs, LogOf
        <4>2. Elements(queue) \subseteq Elements(issued)
          BY <1>1, ConcatOf DEF IInv, Types, Order, Out
        <4> QED BY <2>1, <2>4, <4>2 DEF Requests, InFlight
      <3>3. ASSUME NEW v \in Sends, Delete(v) PROVE cbLog'[w] \in {<<>>, <<"freed">>}
        <4>1. cbLog'[w] \in {<<>>, Append(<<>>, "freed")}
          BY <2>1, <3>1, <3>3 DEF Delete, Types
        <4> QED BY <4>1, LogCases DEF Events
      <3>4. ASSUME NEW v \in Sends, NEW n \in 0..MaxLen, Send(v, n)
            PROVE  cbLog'[w] = <<>>
        <4>1. /\ Called(v, n)
              /\ FailedSend(v, n) \/ DirectSend(v, n) \/ QueuedSend(v, n)
          BY <2>1, <3>4, SendForm
        <4>2. v # w /\ (cbLog[v] = <<>> \/ v \in Silent)
          BY <1>1, <2>1, <3>2, <4>1, CalledFacts DEF Logs, LogOf
        <4>3. UNCHANGED cbLog \/ \E answer \in {"true", "false"} : Tell(v, answer)
          BY <4>1 DEF FailedSend, DirectSend, QueuedSend
        <4>4. cbLog'[w] = cbLog[w]
          BY <2>1, <4>2, <4>3 DEF Tell, Types
        <4> QED BY <3>1, <4>4
      <3>5. CASE CbReturn
        <4>1. /\ frames # <<>> /\ frames[Len(frames)] \in Sends
              /\ UNCHANGED cbLog \/ Delete(frames[Len(frames)])
          BY <2>1, <3>5, FrontOf DEF CbReturn, Types
        <4> QED BY <3>1, <3>3, <4>1
      <3>6. CASE OnSend
        <4>1. Head(completed).w \in Sends
          BY <1>1, <3>6, OnSendFacts
        <4>2. Delete(Head(completed).w)
          BY <2>2, <3>6 DEF OnSend
        <4> QED BY <3>3, <4>1, <4>2
      <3>7. \/ CbReturn \/ (\E v \in Sends, n \in 0..MaxLen : Send(v, n))
            \/ OnSend \/ UNCHANGED cbLog
        BY <1>1 DEF Next, Construct, ConstructFails, UserClose, Destroy, OnRecv, OnClose,
                    Transmit, Cancel, vars
      <3> QED BY <1>1, <3>1, <3>4, <3>5, <3>6, <3>7
    <2> QED BY <2>3, <2>4
  <1>2. IInv /\ [Next]_vars =>
          [closed => /\ received' = received
                     /\ \A w \in Sends : InFlight(w) => cbLog'[w] \in {<<>>, <<"freed">>}]_vars
    BY <1>1
  <1> QED BY <1>2, Invariant, PTL DEF Spec, SilentAfterClose

=============================================================================
