-------------------------- MODULE IpFamily_proofs ---------------------------
(***************************************************************************)
(* Proofs about IpFamily, for texts of any length: no number overflows,    *)
(* and which texts GetFamily takes for IPv4.                               *)
(***************************************************************************)
EXTENDS IpFamily, SequenceTheorems, NaturalsInduction, WellFoundedInduction, TLAPS

\* A number with so many digits is at least so large: only its first digit can
\* be a zero.  With four digits the next one takes it past 255.
LeastValue ==
  /\ digitNumber = 0 => s = 0
  /\ s = 0 => digitNumber = IF hasZero THEN 1 ELSE 0
  /\ digitNumber = 3 => s >= 10
  /\ digitNumber = 4 => s >= 100

\* The inductive invariant: there are no more dots than characters.
IInv ==
  /\ TypeOK
  /\ Len(text) <= MaxLen /\ count <= Len(text)
  /\ pc # "done" => LeastValue

-----------------------------------------------------------------------------
\* A number that fits is not cut off.
LEMMA Fits ==
  ASSUME NEW n \in Nat, n < ShortSize
  PROVE  n % ShortSize = n
  BY SizeAssumption

\* Taking a character makes the text one longer.
LEMMA TakeType ==
  ASSUME IInv, NEW c \in Chars, Take(c)
  PROVE  text' \in Seq(Chars) /\ Len(text') = Len(text) + 1 /\ Len(text') <= MaxLen
  BY SizeAssumption DEF IInv, TypeOK, Take

\* What a number whose last digit is still to be read may be is kept in IInv by
\* whatever leaves the number, and the dots before it, as they are.
LEMMA SameNumber ==
  ASSUME IInv, text' \in Seq(Chars), Len(text') = Len(text) + 1, Len(text') <= MaxLen,
         UNCHANGED <<s, count, digitNumber, hasZero>>,
         pc' \in {"leading", "reading", "trailing", "done"},
         family' \in {"none", "false", "true", "AF_INET", "AF_INET6"},
         pc' # "done" => pc # "done"
  PROVE  IInv'
  <1>1. TypeOK'
    <2>1. hasZero' \in BOOLEAN
      BY DEF IInv, TypeOK
    <2> QED BY <2>1 DEF IInv, TypeOK
  <1>2. Len(text') <= MaxLen /\ count' <= Len(text')
    BY SizeAssumption DEF IInv, TypeOK
  <1>3. ASSUME pc' # "done" PROVE LeastValue'
    <2>1. LeastValue
      BY <1>3 DEF IInv
    <2> QED BY <2>1 DEF LeastValue
  <1> QED BY <1>1, <1>2, <1>3 DEF IInv

\* The dots are counted exactly.
LEMMA CountIs ==
  ASSUME IInv, Len(text') = Len(text) + 1, Len(text') <= MaxLen
  PROVE  (count + 1) % ShortSize = count + 1 /\ count + 1 \in 0..MaxLen /\ count \in Nat
         /\ count + 1 <= Len(text')
  <1>1. count \in Nat /\ Len(text) \in Nat /\ count + 1 \in Nat /\ count + 1 <= MaxLen
        /\ count <= Len(text)
    BY SizeAssumption DEF IInv, TypeOK
  <1>2. (count + 1) % ShortSize = count + 1
    BY <1>1, Fits, SizeAssumption
  <1> QED BY <1>1, <1>2, SizeAssumption

\* A dot that ends a number starts the next one and counts as one more.
LEMMA DotStep ==
  ASSUME IInv, ReadDot
  PROVE  IInv'
  <1>1. text' \in Seq(Chars) /\ Len(text') = Len(text) + 1 /\ Len(text') <= MaxLen
    <2>1. Dot \in Chars /\ Take(Dot)
      BY DEF ReadDot, Chars
    <2> QED BY <2>1, TakeType
  <1>2. CASE digitNumber = 0
    BY <1>1, <1>2, SameNumber DEF ReadDot, Return
  <1>3. CASE digitNumber # 0
    <2>1. /\ s' = 0 /\ digitNumber' = 0 /\ hasZero' = FALSE /\ pc' = "reading"
          /\ family' = family /\ count' = (count + 1) % ShortSize
      BY <1>3 DEF ReadDot
    <2>2. count' = count + 1 /\ count' \in 0..MaxLen /\ count' <= Len(text')
      BY <1>1, <2>1, CountIs
    <2>3. TypeOK'
      <3>1. hasZero' \in BOOLEAN
        BY <2>1
      <3>2. s' \in 0..2559 /\ s' <= 255 /\ digitNumber' \in 0..4 /\ count' \in 0..MaxLen
        BY <2>1, <2>2
      <3> QED BY <1>1, <2>1, <3>1, <3>2 DEF IInv, TypeOK
    <2>4. LeastValue'
      BY <2>1 DEF LeastValue
    <2> QED BY <1>1, <2>2, <2>3, <2>4 DEF IInv
  <1> QED BY <1>2, <1>3

\* A digit makes the number ten times as large, and larger.
LEMMA DigitIs ==
  ASSUME IInv, NEW d \in Digits, ReadDigit(d)
  PROVE  /\ LeastValue /\ s \in 0..255 /\ d \in 0..9 /\ digitNumber \in 0..4
         /\ s' = s * 10 + d /\ s' \in 0..2559
         /\ s' <= 255 /\ ~(s' = 0 /\ hasZero) =>
              digitNumber <= 3 /\ digitNumber' = digitNumber + 1
  <1>1. pc # "done" /\ LeastValue
    BY DEF ReadDigit, InLoop, IInv
  <1>2. s \in 0..255 /\ d \in 0..9 /\ digitNumber \in 0..4
    <2>1. d \in 0..9
      BY DigitsAssumption
    <2>2. s \in 0..2559 /\ s <= 255 /\ digitNumber \in 0..4
      BY <1>1 DEF IInv, TypeOK
    <2> QED BY <2>1, <2>2
  <1>3. s' = s * 10 + d /\ s' \in 0..2559
    <2>1. s * 10 + d \in 0..2559
      BY <1>2
    <2>2. PICK n \in Nat : n = s * 10 + d /\ n < ShortSize
      BY <2>1, SizeAssumption
    <2>3. n % ShortSize = n
      BY <2>2, Fits
    <2> QED BY <2>1, <2>2, <2>3 DEF ReadDigit
  <1>4. ASSUME s' <= 255, ~(s' = 0 /\ hasZero)
        PROVE  digitNumber <= 3 /\ digitNumber' = digitNumber + 1
    <2>1. digitNumber <= 3
      BY <1>1, <1>2, <1>3, <1>4 DEF LeastValue
    <2>2. digitNumber' = (digitNumber + 1) % ShortSize
      BY <1>3, <1>4 DEF ReadDigit
    <2>3. PICK n \in Nat : n = digitNumber + 1 /\ n < ShortSize
      BY <1>2, <2>1, SizeAssumption
    <2>4. n % ShortSize = n
      BY <2>3, Fits
    <2> QED BY <2>1, <2>2, <2>3, <2>4
  <1> QED BY <1>1, <1>2, <1>3, <1>4

\* A number that is kept has not become too large.
LEMMA DigitStep ==
  ASSUME IInv, NEW d \in Digits, ReadDigit(d)
  PROVE  IInv'
  <1>1. text' \in Seq(Chars) /\ Len(text') = Len(text) + 1 /\ Len(text') <= MaxLen
    <2>1. d \in Chars /\ Take(d)
      BY DEF ReadDigit, Chars
    <2> QED BY <2>1, TakeType
  <1>2. pc # "done" /\ LeastValue
    BY DEF ReadDigit, InLoop, IInv
  <1>3. s \in 0..255 /\ d \in 0..9 /\ digitNumber \in 0..4
    BY DigitIs
  <1>4. hasZero \in BOOLEAN
    BY DEF IInv, TypeOK
  <1>5. s' = s * 10 + d /\ s' \in 0..2559
    BY DigitIs
  <1>6. hasZero' = (hasZero \/ s' = 0)
    BY DEF ReadDigit
  <1>7. hasZero' \in BOOLEAN
    BY <1>4, <1>6, Zenon
  <1>8. count \in 0..MaxLen /\ count <= Len(text) /\ Len(text) \in Nat
    BY SizeAssumption DEF IInv, TypeOK
  <1>9. CASE s' > 255 \/ (s' = 0 /\ hasZero)
    <2>1. pc' = "done" /\ family' = "false" /\ count' = count /\ digitNumber' = digitNumber
      BY <1>9 DEF ReadDigit, Return
    <2>2. TypeOK'
      BY <1>1, <1>3, <1>5, <1>7, <1>8, <2>1 DEF TypeOK
    <2> QED BY <1>1, <1>8, <2>1, <2>2 DEF IInv
  <1>10. CASE ~(s' > 255 \/ (s' = 0 /\ hasZero))
    <2>1. digitNumber <= 3 /\ digitNumber' = digitNumber + 1
      BY <1>5, <1>10, DigitIs
    <2>2. pc' = "reading" /\ count' = count /\ family' = family
      BY <1>10 DEF ReadDigit
    <2>3. s' <= 255
      BY <1>5, <1>10
    <2>4. LeastValue'
      <3>1. CASE hasZero
        <4>1. hasZero' /\ s' # 0
          BY <1>6, <1>10, <3>1
        <4> QED BY <1>2, <1>3, <1>5, <2>1, <3>1, <4>1 DEF LeastValue
      <3>2. CASE ~hasZero
        <4>1. hasZero' <=> s' = 0
          BY <1>6, <3>2
        <4> QED BY <1>2, <1>3, <1>5, <2>1, <3>2, <4>1 DEF LeastValue
      <3> QED BY <3>1, <3>2
    <2>5. TypeOK'
      BY <1>1, <1>3, <1>5, <1>7, <1>8, <2>1, <2>2, <2>3 DEF IInv, TypeOK
    <2> QED BY <1>1, <1>8, <2>2, <2>4, <2>5 DEF IInv
  <1> QED BY <1>9, <1>10

\* Each character leads from good states to good states.
LEMMA Step == IInv /\ [Next]_vars => IInv'
  <1> SUFFICES ASSUME IInv, [Next]_vars PROVE IInv'
    OBVIOUS
  <1>0. Space \in Chars /\ family \in {"none", "false", "true", "AF_INET", "AF_INET6"}
    BY DEF Chars, IInv, TypeOK
  <1>1. CASE LeadingSpace \/ ReadTrailing \/ TrailingSpace
    <2>1. /\ Take(Space) /\ UNCHANGED <<s, count, digitNumber, hasZero, family>>
          /\ pc' \in {"leading", "reading", "trailing", "done"} /\ pc # "done"
      BY <1>1 DEF LeadingSpace, ReadTrailing, TrailingSpace
    <2>2. text' \in Seq(Chars) /\ Len(text') = Len(text) + 1 /\ Len(text') <= MaxLen
      BY <1>0, <2>1, TakeType
    <2> QED BY <1>0, <2>1, <2>2, SameNumber
  <1>2. CASE ReadDot
    BY <1>2, DotStep
  <1>3. ASSUME NEW d \in Digits, ReadDigit(d)
        PROVE  IInv'
    BY <1>3, DigitStep
  <1>4. ASSUME NEW c \in Chars, ReadOther(c) \/ Unread(c)
        PROVE  IInv'
    <2>1. /\ Take(c) /\ UNCHANGED <<s, count, digitNumber, hasZero>>
          /\ pc' = "done" /\ family' = "false"
      BY <1>4 DEF ReadOther, Unread, Return
    <2>2. text' \in Seq(Chars) /\ Len(text') = Len(text) + 1 /\ Len(text') <= MaxLen
      BY <2>1, TakeType
    <2> QED BY <2>1, <2>2, SameNumber
  <1>5. CASE End
    <2>1. /\ UNCHANGED <<text, s, count, digitNumber, hasZero>> /\ pc' = "done"
          /\ family' \in {"none", "false", "true", "AF_INET", "AF_INET6"}
      BY <1>5 DEF End, Return
    <2>2. hasZero' \in BOOLEAN
      BY <2>1 DEF IInv, TypeOK
    <2> QED BY <2>1, <2>2 DEF IInv, TypeOK
  <1>6. CASE UNCHANGED vars
    <2>1. hasZero' \in BOOLEAN
      BY <1>6 DEF vars, IInv, TypeOK
    <2> QED BY <1>6, <2>1 DEF vars, IInv, TypeOK, LeastValue
  <1> QED BY <1>1, <1>2, <1>3, <1>4, <1>5, <1>6 DEF Next

-----------------------------------------------------------------------------
\* No character has been read yet.
LEMMA InitStep == Init => IInv
  <1> SUFFICES ASSUME Init PROVE IInv
    OBVIOUS
  <1>1. text = <<>> /\ text \in Seq(Chars) /\ Len(text) = 0
    BY DEF Init
  <1>2. hasZero = FALSE
    BY DEF Init
  <1>3. TypeOK
    <2>1. hasZero \in BOOLEAN
      BY <1>2
    <2>2. /\ s \in 0..2559 /\ s <= 255 /\ digitNumber \in 0..4
          /\ count \in 0..MaxLen
      BY SizeAssumption DEF Init
    <2> QED BY <1>1, <2>1, <2>2 DEF Init, TypeOK
  <1>4. LeastValue
    BY <1>2 DEF Init, LeastValue
  <1> QED BY <1>1, <1>3, <1>4, SizeAssumption DEF Init, IInv

\* The inductive invariant holds of every text.
THEOREM Invariant == Spec => []IInv
  BY InitStep, Step, PTL DEF Spec

\* No unsigned short of GetFamily overflows and no number that is kept passes
\* 255, whatever the text.
THEOREM NoOverflow == Spec => []TypeOK
  <1>1. IInv => TypeOK
    BY DEF IInv
  <1> QED BY <1>1, Invariant, PTL

(***************************************************************************)
(* What the texts are that GetFamily takes.                                *)
(***************************************************************************)
\* There are n spaces in front.
Indented(t, n) ==
  /\ n \in 0..Len(t) /\ \A i \in 1..n : t[i] = Space
  /\ n = Len(t) \/ t[n + 1] # Space

\* The digits read of the number that is not finished yet.
Number(m) ==
  /\ Len(m) = digitNumber /\ Value(m) = s
  /\ \A i \in DOMAIN m : m[i] \in Digits
  /\ hasZero <=> m # <<>> /\ m[1] = 0
  /\ m # <<>> => IsLooseOctet(m)

\* The dots were read at the places p[1], p[2], ..., and before each of them a
\* loose octet.
Scanned(u, p) ==
  /\ p \in [0..count -> 0..Len(u)] /\ p[0] = 0
  /\ \A n, m \in 0..count : n < m => p[n] < p[m]
  /\ DotsAt(u) = {p[n] : n \in 1..count}
  /\ \A n \in 1..count : IsLooseOctet(Between(u, p[n - 1], p[n]))
  /\ Number(Between(u, p[count], Len(u) + 1))

\* Something that starts at the front or behind a dot is no loose octet and cannot
\* become one, even if spaces are taken away at the end: it has ended with a dot, or
\* it ends with no space.
Bad(u) ==
  \E i \in DotsAt(u) \cup {0}, e \in 1..Len(u) + 1 :
    /\ i < e /\ \A n \in DotsAt(u) : n <= i \/ e <= n
    /\ ~IsLooseOctet(Between(u, i, e))
    /\ e \in DotsAt(u) \/ \E k \in i + 1..Len(u) : e = k + 1 /\ u[k] # Space

\* Nothing is to be taken away at the end.
Unspaced(u) == u = <<>> \/ u[Len(u)] # Space

\* The text is w, with its last dot (if any) at i, and spaces behind it.
Padded(u, w, i) ==
  /\ w # <<>> /\ w[Len(w)] # Space /\ Len(w) < Len(u)
  /\ \A k \in 1..Len(w) : u[k] = w[k]
  /\ \A k \in Len(w) + 1..Len(u) : u[k] = Space
  /\ i \in DotsAt(w) \cup {0} /\ \A n \in DotsAt(w) : n <= i

PaddedLoose(u) == \E w \in Seq(Chars) : \E i : Padded(u, w, i) /\ IsLooseAddress(w)

PaddedNone(u) == \E w \in Seq(Chars) : \E i : Padded(u, w, i) /\ ~IsLooseAddress(w)

\* What the loops have found out about the text they have read, its indentation
\* apart: the numbers and dots in it, or that it is no loose address.
Parse(u) ==
  /\ pc = "leading" => u = <<>> /\ count = 0
  /\ pc = "reading" => u # <<>>
  /\ pc \in {"leading", "reading"} => family = "none" /\ Unspaced(u) /\ \E p : Scanned(u, p)
  /\ pc = "trailing" => PaddedLoose(u)
  /\ pc = "done" => \/ family = "false" /\ (Bad(u) \/ PaddedNone(u))
                    \/ family = "true" /\ PaddedLoose(u)
                    \/ family = "AF_INET" /\ IsLooseAddress(u) /\ Unspaced(u)
                    \/ family = "AF_INET6" /\ ~IsLooseAddress(u) /\ Unspaced(u)

\* The inductive invariant with the text.
PInv == IInv /\ \E n : Indented(text, n) /\ Parse(Between(text, n, Len(text) + 1))

-----------------------------------------------------------------------------
\* Lemmas about texts.

\* A text with one more character.
LEMMA AppendIs ==
  ASSUME NEW t \in Seq(Chars), NEW c \in Chars
  PROVE  /\ Append(t, c) \in Seq(Chars) /\ Len(t) \in Nat /\ Len(Append(t, c)) = Len(t) + 1
         /\ \A i \in 1..Len(t) : Append(t, c)[i] = t[i]
         /\ Append(t, c)[Len(t) + 1] = c
         /\ DOMAIN t = 1..Len(t) /\ DOMAIN Append(t, c) = 1..Len(t) + 1
  OBVIOUS

\* The characters between two places.
LEMMA BetweenIs ==
  ASSUME NEW t \in Seq(Chars), NEW i \in Nat, NEW j \in Nat, i < j, j <= Len(t) + 1
  PROVE  /\ Between(t, i, j) \in Seq(Chars) /\ Len(Between(t, i, j)) = j - i - 1
         /\ DOMAIN Between(t, i, j) = 1..j - i - 1
         /\ \A k \in 1..j - i - 1 : Between(t, i, j)[k] = t[i + k]
  <1>1. \A k \in i + 1..j - 1 : t[k] \in Chars
    OBVIOUS
  <1>2. /\ Between(t, i, j) \in Seq(Chars)
        /\ Len(Between(t, i, j)) = IF i + 1 <= j - 1 THEN j - 1 - (i + 1) + 1 ELSE 0
        /\ \A k \in 1..j - 1 - (i + 1) + 1 : Between(t, i, j)[k] = t[i + 1 + k - 1]
    <2>1. i + 1 \in Int /\ j - 1 \in Int
      OBVIOUS
    <2> QED BY <1>1, <2>1, SubSeqProperties DEF Between
  <1> DEFINE b == Between(t, i, j)
  <1> HIDE DEF b
  <1>3. /\ b \in Seq(Chars) /\ Len(b) = j - i - 1
        /\ \A k \in 1..j - i - 1 : b[k] = t[i + k]
    <2>1. \A k \in 1..j - i - 1 : i + 1 + k - 1 = i + k
      OBVIOUS
    <2>2. 1..j - 1 - (i + 1) + 1 = 1..j - i - 1
      OBVIOUS
    <2> QED BY <1>2, <2>1, <2>2 DEF b
  <1>4. DOMAIN b = 1..j - i - 1
    BY <1>3
  <1> QED BY <1>3, <1>4 DEF b

\* What was between two places stays there ...
LEMMA BetweenStays ==
  ASSUME NEW t \in Seq(Chars), NEW c \in Chars, NEW i \in Nat, NEW j \in Nat,
         i < j, j <= Len(t) + 1
  PROVE  Between(Append(t, c), i, j) = Between(t, i, j)
  <1> DEFINE a == Append(t, c)
             x == Between(a, i, j)
             y == Between(t, i, j)
  <1>1. a \in Seq(Chars) /\ Len(a) = Len(t) + 1 /\ Len(t) \in Nat
        /\ \A k \in 1..Len(t) : a[k] = t[k]
    BY AppendIs
  <1> HIDE DEF a
  <1>2. j <= Len(a) + 1
    BY <1>1
  <1>3. x \in Seq(Chars) /\ Len(x) = j - i - 1 /\ \A k \in 1..j - i - 1 : x[k] = a[i + k]
    BY <1>1, <1>2, BetweenIs
  <1>4. y \in Seq(Chars) /\ Len(y) = j - i - 1 /\ \A k \in 1..j - i - 1 : y[k] = t[i + k]
    BY BetweenIs
  <1>5. \A k \in 1..j - i - 1 : i + k \in 1..Len(t)
    BY <1>1
  <1> HIDE DEF x, y
  <1>6. Len(x) = Len(y) /\ \A k \in 1..Len(x) : x[k] = y[k]
    BY <1>1, <1>3, <1>4, <1>5
  <1>7. x = y
    BY <1>3, <1>4, <1>6, SeqEqual
  <1> QED BY <1>7 DEF x, y, a

\* ... and what reaches to the end grows.
LEMMA BetweenGrows ==
  ASSUME NEW t \in Seq(Chars), NEW c \in Chars, NEW i \in 0..Len(t)
  PROVE  Between(Append(t, c), i, Len(t) + 2) = Append(Between(t, i, Len(t) + 1), c)
  <1> DEFINE a == Append(t, c)
             b == Between(t, i, Len(t) + 1)
             x == Between(a, i, Len(t) + 2)
             y == Append(b, c)
  <1>1. a \in Seq(Chars) /\ Len(a) = Len(t) + 1 /\ Len(t) \in Nat
        /\ (\A k \in 1..Len(t) : a[k] = t[k]) /\ a[Len(t) + 1] = c
    BY AppendIs
  <1> HIDE DEF a
  <1> DEFINE m == Len(t) + 1
             n == Len(t) + 2
  <1>2. i \in Nat /\ n \in Nat /\ m \in Nat /\ i < n /\ n <= Len(a) + 1
        /\ i < m /\ m <= Len(t) + 1
    BY <1>1
  <1>3. x \in Seq(Chars) /\ Len(x) = n - i - 1 /\ \A k \in 1..n - i - 1 : x[k] = a[i + k]
    <2> HIDE DEF m, n
    <2>1. Between(a, i, n) \in Seq(Chars) /\ Len(Between(a, i, n)) = n - i - 1
          /\ \A k \in 1..n - i - 1 : Between(a, i, n)[k] = a[i + k]
      BY <1>1, <1>2, BetweenIs
    <2> QED BY <2>1, Zenon DEF n
  <1>4. b \in Seq(Chars) /\ Len(b) = m - i - 1 /\ \A k \in 1..m - i - 1 : b[k] = t[i + k]
    <2> HIDE DEF m
    <2>1. Between(t, i, m) \in Seq(Chars) /\ Len(Between(t, i, m)) = m - i - 1
          /\ \A k \in 1..m - i - 1 : Between(t, i, m)[k] = t[i + k]
      BY <1>1, <1>2, BetweenIs
    <2> QED BY <2>1, Zenon DEF m
  <1> HIDE DEF x, b
  <1>5. y \in Seq(Chars) /\ Len(y) = Len(b) + 1 /\ y[Len(b) + 1] = c
        /\ \A k \in 1..Len(b) : y[k] = b[k]
    BY <1>4, AppendIs
  <1> HIDE DEF y
  <1>6. Len(x) = Len(y) /\ Len(b) = Len(t) - i
    BY <1>1, <1>3, <1>4, <1>5
  <1>7. \A k \in 1..Len(x) : x[k] = y[k]
    <2> TAKE k \in 1..Len(x)
    <2>1. CASE k = Len(b) + 1
      <3>1. i + k = Len(t) + 1
        BY <1>1, <1>6, <2>1
      <3>2. x[k] = a[i + k]
        BY <1>1, <1>3
      <3> QED BY <1>1, <1>5, <2>1, <3>1, <3>2
    <2>2. CASE k # Len(b) + 1
      <3>1. k \in 1..Len(b) /\ i + k \in 1..Len(t) /\ k \in 1..m - i - 1
            /\ k \in 1..n - i - 1
        BY <1>1, <1>3, <1>6, <2>2
      <3> QED BY <1>1, <1>3, <1>4, <1>5, <3>1
    <2> QED BY <2>1, <2>2
  <1>8. x = y
    BY <1>3, <1>5, <1>6, <1>7, SeqEqual
  <1> QED BY <1>8 DEF x, y, a, b

\* A dot at the end is one more.
LEMMA DotsAppend ==
  ASSUME NEW t \in Seq(Chars), NEW c \in Chars
  PROVE  /\ DotsAt(Append(t, c)) = DotsAt(t) \cup (IF c = Dot THEN {Len(t) + 1} ELSE {})
         /\ DotsAt(t) \subseteq 1..Len(t) /\ Len(t) \in Nat
  <1> DEFINE a == Append(t, c)
  <1>1. /\ Len(t) \in Nat /\ DOMAIN t = 1..Len(t) /\ DOMAIN a = 1..Len(t) + 1
        /\ (\A k \in 1..Len(t) : a[k] = t[k]) /\ a[Len(t) + 1] = c
    BY AppendIs
  <1> HIDE DEF a
  <1>2. DotsAt(a) = DotsAt(t) \cup (IF c = Dot THEN {Len(t) + 1} ELSE {})
    BY <1>1 DEF DotsAt
  <1> QED BY <1>1, <1>2 DEF a, DotsAt

-----------------------------------------------------------------------------
\* Lemmas about numbers.

\* No digits make nothing.
LEMMA ValueEmpty == Value(<<>>) = 0
  BY DEF Value

\* The digits of a short text and the number they make.
LEMMA ValueIs ==
  ASSUME NEW m \in Seq(Chars), Len(m) <= 4, \A i \in DOMAIN m : m[i] \in Digits
  PROVE  /\ Len(m) \in 0..4 /\ \A i \in 1..Len(m) : m[i] \in 0..9
         /\ Len(m) = 0 => Value(m) = 0
         /\ Len(m) = 1 => Value(m) = m[1]
         /\ Len(m) = 2 => Value(m) = 10 * m[1] + m[2]
         /\ Len(m) = 3 => Value(m) = 100 * m[1] + 10 * m[2] + m[3]
         /\ Len(m) = 4 => Value(m) = 1000 * m[1] + 100 * m[2] + 10 * m[3] + m[4]
  <1>1. /\ Len(m) \in 0..4 /\ DOMAIN m = 1..Len(m)
        /\ \A i \in 1..Len(m) : m[i] \in Digits
    <2>1. Len(m) \in Nat /\ DOMAIN m = 1..Len(m)
      BY LenProperties
    <2> QED BY <2>1
  <1>2. \A i \in 1..Len(m) : m[i] \in 0..9
    BY <1>1, DigitsAssumption
  <1> DEFINE digit(k) == IF k < Len(m) THEN m[Len(m) - k] ELSE 0
  <1>3. Value(m) = digit(0) + 10 * digit(1) + 100 * digit(2) + 1000 * digit(3)
    BY Zenon DEF Value
  <1>4. CASE Len(m) = 0
    <2>1. digit(0) = 0 /\ digit(1) = 0 /\ digit(2) = 0 /\ digit(3) = 0
      BY <1>4
    <2> QED BY <1>1, <1>2, <1>3, <1>4, <2>1
  <1>5. CASE Len(m) = 1
    <2>1. digit(0) = m[1] /\ digit(1) = 0 /\ digit(2) = 0 /\ digit(3) = 0
      BY <1>5
    <2> QED BY <1>1, <1>2, <1>3, <1>5, <2>1
  <1>6. CASE Len(m) = 2
    <2>1. digit(0) = m[2] /\ digit(1) = m[1] /\ digit(2) = 0 /\ digit(3) = 0
      BY <1>6
    <2> QED BY <1>1, <1>2, <1>3, <1>6, <2>1
  <1>7. CASE Len(m) = 3
    <2>1. digit(0) = m[3] /\ digit(1) = m[2] /\ digit(2) = m[1] /\ digit(3) = 0
      BY <1>7
    <2>2. m[1] \in 0..9 /\ m[2] \in 0..9 /\ m[3] \in 0..9
      BY <1>2, <1>7
    <2>3. PICK a \in 0..9, b \in 0..9, c \in 0..9 : a = m[1] /\ b = m[2] /\ c = m[3]
      BY <2>2, Zenon
    <2> HIDE DEF digit
    <2>4. digit(0) = c /\ digit(1) = b /\ digit(2) = a /\ digit(3) = 0
      BY <2>1, <2>3, Zenon
    <2>5. Value(m) = c + 10 * b + 100 * a + 1000 * 0
      BY <1>3, <2>4
    <2>6. c + 10 * b + 100 * a + 1000 * 0 = 100 * a + 10 * b + c
      OBVIOUS
    <2>7. Value(m) = 100 * m[1] + 10 * m[2] + m[3]
      BY <2>3, <2>5, <2>6
    <2> QED BY <1>1, <1>2, <1>7, <2>7
  <1>8. CASE Len(m) = 4
    <2>1. digit(0) = m[4] /\ digit(1) = m[3] /\ digit(2) = m[2] /\ digit(3) = m[1]
      BY <1>8
    <2>2. m[1] \in 0..9 /\ m[2] \in 0..9 /\ m[3] \in 0..9 /\ m[4] \in 0..9
      BY <1>2, <1>8
    <2>3. PICK a \in 0..9, b \in 0..9, c \in 0..9, d \in 0..9 :
            a = m[1] /\ b = m[2] /\ c = m[3] /\ d = m[4]
      BY <2>2, Zenon
    <2> HIDE DEF digit
    <2>4. digit(0) = d /\ digit(1) = c /\ digit(2) = b /\ digit(3) = a
      BY <2>1, <2>3, Zenon
    <2>5. Value(m) = d + 10 * c + 100 * b + 1000 * a
      BY <1>3, <2>4
    <2>6. d + 10 * c + 100 * b + 1000 * a = 1000 * a + 100 * b + 10 * c + d
      OBVIOUS
    <2>7. Value(m) = 1000 * m[1] + 100 * m[2] + 10 * m[3] + m[4]
      BY <2>3, <2>5, <2>6
    <2> QED BY <1>1, <1>2, <1>8, <2>7
  <1> QED BY <1>1, <1>2, <1>4, <1>5, <1>6, <1>7, <1>8

\* One more digit makes the number ten times as large, and more.
LEMMA ValueGrows ==
  ASSUME NEW m \in Seq(Chars), Len(m) <= 3, \A i \in DOMAIN m : m[i] \in Digits,
         NEW d \in Digits
  PROVE  Value(Append(m, d)) = 10 * Value(m) + d
  <1> DEFINE a == Append(m, d)
  <1> SUFFICES Value(a) = 10 * Value(m) + d
    OBVIOUS
  <1>1. d \in Chars /\ d \in 0..9
    BY DigitsAssumption DEF Chars
  <1>2. /\ a \in Seq(Chars) /\ Len(a) = Len(m) + 1 /\ a[Len(m) + 1] = d
        /\ \A i \in 1..Len(m) : a[i] = m[i]
        /\ DOMAIN a = 1..Len(m) + 1 /\ DOMAIN m = 1..Len(m) /\ Len(m) \in Nat
    BY <1>1, AppendIs
  <1> HIDE DEF a
  <1>3. \A i \in DOMAIN a : a[i] \in Digits
    BY <1>2
  <1>4. /\ Len(m) \in 0..4 /\ \A i \in 1..Len(m) : m[i] \in 0..9
        /\ Len(m) = 0 => Value(m) = 0
        /\ Len(m) = 1 => Value(m) = m[1]
        /\ Len(m) = 2 => Value(m) = 10 * m[1] + m[2]
        /\ Len(m) = 3 => Value(m) = 100 * m[1] + 10 * m[2] + m[3]
    BY ValueIs
  <1>5. /\ Len(a) = 1 => Value(a) = a[1]
        /\ Len(a) = 2 => Value(a) = 10 * a[1] + a[2]
        /\ Len(a) = 3 => Value(a) = 100 * a[1] + 10 * a[2] + a[3]
        /\ Len(a) = 4 => Value(a) = 1000 * a[1] + 100 * a[2] + 10 * a[3] + a[4]
    BY <1>2, <1>3, ValueIs
  <1>6. CASE Len(m) = 0
    <2>1. a[1] = d
      BY <1>2, <1>6
    <2>2. Value(a) = d /\ Value(m) = 0
      BY <1>2, <1>4, <1>5, <1>6, <2>1
    <2>3. d = 10 * 0 + d
      BY <1>1
    <2> QED BY <2>2, <2>3, Zenon
  <1>7. CASE Len(m) = 1
    <2>1. PICK x \in 0..9 : x = m[1]
      BY <1>4, <1>7
    <2>2. a[1] = x /\ a[2] = d
      BY <1>2, <1>7, <2>1
    <2>3. Value(a) = 10 * x + d /\ Value(m) = x
      BY <1>2, <1>4, <1>5, <1>7, <2>1, <2>2
    <2>4. PICK n \in Nat : n = x
      OBVIOUS
    <2>5. Value(m) = n /\ Value(a) = 10 * n + d
      BY <1>1, <2>3, <2>4
    <2> QED BY <2>5, Zenon
  <1>8. CASE Len(m) = 2
    <2>1. PICK x \in 0..9, y \in 0..9 : x = m[1] /\ y = m[2]
      BY <1>4, <1>8
    <2>2. a[1] = x /\ a[2] = y /\ a[3] = d
      BY <1>2, <1>8, <2>1
    <2>3. Value(a) = 100 * x + 10 * y + d /\ Value(m) = 10 * x + y
      BY <1>2, <1>4, <1>5, <1>8, <2>1, <2>2
    <2>4. PICK n \in Nat : n = 10 * x + y
      OBVIOUS
    <2>5. Value(m) = n /\ Value(a) = 10 * n + d
      BY <1>1, <2>3, <2>4
    <2> QED BY <2>5, Zenon
  <1>9. CASE Len(m) = 3
    <2>1. PICK x \in 0..9, y \in 0..9, z \in 0..9 : x = m[1] /\ y = m[2] /\ z = m[3]
      BY <1>4, <1>9
    <2>2. a[1] = x /\ a[2] = y /\ a[3] = z /\ a[4] = d
      BY <1>2, <1>9, <2>1
    <2>3. Value(a) = 1000 * x + 100 * y + 10 * z + d /\ Value(m) = 100 * x + 10 * y + z
      BY <1>2, <1>4, <1>5, <1>9, <2>1, <2>2
    <2>4. PICK n \in Nat : n = 100 * x + 10 * y + z
      OBVIOUS
    <2>5. Value(m) = n /\ Value(a) = 10 * n + d
      BY <1>1, <2>3, <2>4
    <2> QED BY <2>5, Zenon
  <1>10. Len(m) = 0 \/ Len(m) = 1 \/ Len(m) = 2 \/ Len(m) = 3
    BY <1>2
  <1> QED BY <1>6, <1>7, <1>8, <1>9, <1>10, Zenon

\* Whatever a loose octet starts with is one.
LEMMA PrefixLoose ==
  ASSUME NEW m \in Seq(Chars), IsLooseOctet(m), NEW q \in Seq(Chars),
         Len(q) \in 1..Len(m), \A k \in 1..Len(q) : q[k] = m[k]
  PROVE  IsLooseOctet(q)
  <1>1. /\ Len(m) \in 1..4 /\ \A i \in DOMAIN m : m[i] \in Digits
        /\ Len(m) > 1 => m[1] # 0 \/ m[2] # 0
        /\ Value(m) <= 255 /\ DOMAIN m = 1..Len(m) /\ DOMAIN q = 1..Len(q)
    BY DEF IsLooseOctet
  <1>2. \A i \in DOMAIN q : q[i] \in Digits
    BY <1>1
  <1>3. /\ \A i \in 1..Len(m) : m[i] \in 0..9
        /\ Len(m) = 1 => Value(m) = m[1]
        /\ Len(m) = 2 => Value(m) = 10 * m[1] + m[2]
        /\ Len(m) = 3 => Value(m) = 100 * m[1] + 10 * m[2] + m[3]
        /\ Len(m) = 4 => Value(m) = 1000 * m[1] + 100 * m[2] + 10 * m[3] + m[4]
    <2>1. Len(m) <= 4
      BY <1>1
    <2>2. \A i \in DOMAIN m : m[i] \in Digits
      BY <1>1
    <2> QED BY <2>1, <2>2, ValueIs
  <1>4. Len(q) <= 4
    BY <1>1
  <1>5. /\ Len(q) = 1 => Value(q) = q[1]
        /\ Len(q) = 2 => Value(q) = 10 * q[1] + q[2]
        /\ Len(q) = 3 => Value(q) = 100 * q[1] + 10 * q[2] + q[3]
        /\ Len(q) = 4 => Value(q) = 1000 * q[1] + 100 * q[2] + 10 * q[3] + q[4]
    BY <1>2, <1>4, ValueIs
  <1>6. Value(q) <= 255
    <2>1. \A k \in 1..Len(q) : q[k] = m[k] /\ m[k] \in 0..9 /\ k \in 1..Len(m)
      BY <1>1, <1>3
    <2>2. CASE Len(m) = 1
      <3>1. PICK x \in 0..9 : x = m[1]
        BY <1>3, <2>2
      <3>2. Len(q) = 1 /\ q[1] = x /\ x <= 255
        BY <1>1, <1>3, <2>2, <3>1
      <3> QED BY <1>5, <3>2
    <2>3. CASE Len(m) = 2
      <3>1. PICK x \in 0..9, y \in 0..9 : x = m[1] /\ y = m[2]
        BY <1>3, <2>3
      <3>2. 10 * x + y <= 255
        BY <1>1, <1>3, <2>3, <3>1
      <3>3. /\ Len(q) = 1 => q[1] = x
            /\ Len(q) = 2 => q[1] = x /\ q[2] = y
        BY <3>1
      <3>4. Len(q) \in {1, 2}
        BY <1>1, <2>3
      <3> QED BY <1>5, <3>2, <3>3, <3>4
    <2>4. CASE Len(m) = 3
      <3>1. PICK x \in 0..9, y \in 0..9, z \in 0..9 : x = m[1] /\ y = m[2] /\ z = m[3]
        <4>1. m[1] \in 0..9 /\ m[2] \in 0..9 /\ m[3] \in 0..9
          BY <1>3, <2>4
        <4> QED BY <4>1, Zenon
      <3>2. 100 * x + 10 * y + z <= 255
        BY <1>1, <1>3, <2>4, <3>1
      <3>3. /\ Len(q) = 1 => q[1] = x
            /\ Len(q) = 2 => q[1] = x /\ q[2] = y
            /\ Len(q) = 3 => q[1] = x /\ q[2] = y /\ q[3] = z
        BY <3>1
      <3>4. Len(q) \in {1, 2, 3}
        BY <1>1, <2>4
      <3> QED BY <1>5, <3>2, <3>3, <3>4
    <2>5. CASE Len(m) = 4
      <3>1. PICK w \in 0..9, x \in 0..9, y \in 0..9, z \in 0..9 :
              w = m[1] /\ x = m[2] /\ y = m[3] /\ z = m[4]
        <4>1. m[1] \in 0..9 /\ m[2] \in 0..9 /\ m[3] \in 0..9 /\ m[4] \in 0..9
          BY <1>3, <2>5
        <4> QED BY <4>1, Zenon
      <3>2. 1000 * w + 100 * x + 10 * y + z <= 255
        BY <1>1, <1>3, <2>5, <3>1
      <3>3. /\ Len(q) = 1 => q[1] = w
            /\ Len(q) = 2 => q[1] = w /\ q[2] = x
            /\ Len(q) = 3 => q[1] = w /\ q[2] = x /\ q[3] = y
            /\ Len(q) = 4 => q[1] = w /\ q[2] = x /\ q[3] = y /\ q[4] = z
        BY <3>1
      <3>4. CASE Len(q) = 1
        BY <1>5, <3>2, <3>3, <3>4
      <3>5. CASE Len(q) = 2
        BY <1>5, <3>2, <3>3, <3>5
      <3>6. CASE Len(q) = 3
        BY <1>5, <3>2, <3>3, <3>6
      <3>7. CASE Len(q) = 4
        BY <1>5, <3>2, <3>3, <3>7
      <3>8. Len(q) \in {1, 2, 3, 4}
        BY <1>1, <2>5
      <3> QED BY <3>4, <3>5, <3>6, <3>7, <3>8
    <2>6. Len(m) \in {1, 2, 3, 4}
      BY <1>1
    <2> QED BY <2>2, <2>3, <2>4, <2>5, <2>6
  <1>7. Len(q) > 1 => q[1] # 0 \/ q[2] # 0
    BY <1>1
  <1> QED BY <1>1, <1>2, <1>4, <1>6, <1>7 DEF IsLooseOctet

\* The same of what stands in a text.
LEMMA SegmentPrefix ==
  ASSUME NEW t \in Seq(Chars), NEW i \in Nat, NEW e \in Nat, NEW j \in Nat,
         i + 1 < e, e <= j, j <= Len(t) + 1, IsLooseOctet(Between(t, i, j))
  PROVE  IsLooseOctet(Between(t, i, e))
  <1> DEFINE m == Between(t, i, j)
             q == Between(t, i, e)
  <1>1. i < j /\ i < e /\ e <= Len(t) + 1
    OBVIOUS
  <1>2. m \in Seq(Chars) /\ Len(m) = j - i - 1 /\ \A k \in 1..j - i - 1 : m[k] = t[i + k]
    BY <1>1, BetweenIs
  <1>3. q \in Seq(Chars) /\ Len(q) = e - i - 1 /\ \A k \in 1..e - i - 1 : q[k] = t[i + k]
    BY <1>1, BetweenIs
  <1>4. IsLooseOctet(m)
    OBVIOUS
  <1> HIDE DEF m, q
  <1>5. Len(q) \in 1..Len(m) /\ \A k \in 1..Len(q) : q[k] = m[k]
    BY <1>2, <1>3
  <1>6. IsLooseOctet(q)
    BY <1>2, <1>3, <1>4, <1>5, PrefixLoose
  <1> QED BY <1>6 DEF q

-----------------------------------------------------------------------------
\* Texts that are refused.

\* A text that is refused stays so, whatever is behind it.
LEMMA BadStays ==
  ASSUME NEW t \in Seq(Chars), NEW c \in Chars, Bad(t)
  PROVE  Bad(Append(t, c))
  <1> DEFINE a == Append(t, c)
  <1>1. PICK i \in DotsAt(t) \cup {0}, e \in 1..Len(t) + 1 :
          /\ i < e /\ \A n \in DotsAt(t) : n <= i \/ e <= n
          /\ ~IsLooseOctet(Between(t, i, e))
          /\ e \in DotsAt(t) \/ \E k \in i + 1..Len(t) : e = k + 1 /\ t[k] # Space
    BY DEF Bad
  <1>2. /\ DotsAt(a) = DotsAt(t) \cup (IF c = Dot THEN {Len(t) + 1} ELSE {})
        /\ DotsAt(t) \subseteq 1..Len(t) /\ Len(t) \in Nat /\ Len(a) = Len(t) + 1
        /\ \A k \in 1..Len(t) : a[k] = t[k]
    BY DotsAppend, AppendIs
  <1>3. i \in Nat /\ e \in Nat /\ e <= Len(t) + 1
    BY <1>2
  <1>4. Between(a, i, e) = Between(t, i, e)
    BY <1>1, <1>3, BetweenStays
  <1> HIDE DEF a
  <1>5. \A n \in DotsAt(a) : n <= i \/ e <= n
    BY <1>1, <1>2, <1>3
  <1>6. i \in DotsAt(a) \cup {0} /\ e \in 1..Len(a) + 1
    BY <1>1, <1>2, <1>3
  <1>7. e \in DotsAt(a) \/ \E k \in i + 1..Len(a) : e = k + 1 /\ a[k] # Space
    <2>1. \A k \in i + 1..Len(t) : k \in i + 1..Len(a) /\ k \in 1..Len(t)
      BY <1>2, <1>3
    <2> QED BY <1>1, <1>2, <2>1
  <1>8. Bad(a)
    BY <1>1, <1>4, <1>5, <1>6, <1>7 DEF Bad
  <1> QED BY <1>8 DEF a

\* Between two dots of a loose address, or in front or behind them all, nothing is bad.
LEMMA GoodSegment ==
  ASSUME NEW t \in Seq(Chars), NEW i \in Nat, NEW e \in Nat, NEW j \in Nat,
         i < e, e <= j, j <= Len(t) + 1, IsLooseOctet(Between(t, i, j)),
         e = i + 1 => e = j
  PROVE  IsLooseOctet(Between(t, i, e))
  <1>1. CASE e = i + 1
    BY <1>1
  <1>2. CASE e # i + 1
    <2>1. i + 1 < e
      BY <1>2
    <2> QED BY <2>1, SegmentPrefix
  <1> QED BY <1>1, <1>2

\* No refused text is a loose address.
LEMMA BadIsNone ==
  ASSUME NEW t \in Seq(Chars), Bad(t)
  PROVE  ~IsLooseAddress(t)
  <1> SUFFICES ASSUME IsLooseAddress(t) PROVE FALSE
    OBVIOUS
  <1>1. PICK i \in DotsAt(t) \cup {0}, e \in 1..Len(t) + 1 :
          /\ i < e /\ \A n \in DotsAt(t) : n <= i \/ e <= n
          /\ ~IsLooseOctet(Between(t, i, e))
          /\ e \in DotsAt(t) \/ \E k \in i + 1..Len(t) : e = k + 1 /\ t[k] # Space
    BY DEF Bad
  <1>2. PICK j \in DotsAt(t), k \in DotsAt(t), l \in DotsAt(t) :
          /\ j < k /\ k < l /\ DotsAt(t) = {j, k, l}
          /\ IsLooseOctet(Between(t, 0, j)) /\ IsLooseOctet(Between(t, j, k))
          /\ IsLooseOctet(Between(t, k, l))
          /\ l = Len(t) \/ IsLooseOctet(Between(t, l, Len(t) + 1))
    BY Zenon DEF IsLooseAddress
  <1>3. Len(t) \in Nat /\ DotsAt(t) \subseteq 1..Len(t)
    BY DEF DotsAt
  <1>4. /\ i \in Nat /\ e \in Nat /\ e <= Len(t) + 1 /\ Len(t) + 1 \in Nat
        /\ j \in Nat /\ k \in Nat /\ l \in Nat /\ 0 < j /\ l <= Len(t)
    BY <1>2, <1>3
  <1>5. i \in {0, j, k, l}
    BY <1>2
  <1>6. CASE i = 0
    <2>1. e <= j /\ (e = i + 1 => e = j) /\ j <= Len(t) + 1
      BY <1>1, <1>2, <1>4, <1>6
    <2> QED BY <1>1, <1>2, <1>4, <1>6, <2>1, GoodSegment
  <1>7. CASE i = j
    <2>1. e <= k /\ (e = i + 1 => e = k) /\ k <= Len(t) + 1
      BY <1>1, <1>2, <1>4, <1>7
    <2> QED BY <1>1, <1>2, <1>4, <1>7, <2>1, GoodSegment
  <1>8. CASE i = k
    <2>1. e <= l /\ (e = i + 1 => e = l) /\ l <= Len(t) + 1
      BY <1>1, <1>2, <1>4, <1>8
    <2> QED BY <1>1, <1>2, <1>4, <1>8, <2>1, GoodSegment
  <1>9. CASE i = l
    <2>1. e # i + 1
      BY <1>1, <1>2, <1>4, <1>9
    <2>2. l # Len(t)
      BY <1>1, <1>4, <1>9, <2>1
    <2> DEFINE n == Len(t) + 1
    <2>3. IsLooseOctet(Between(t, l, n)) /\ e <= n /\ n \in Nat /\ n <= Len(t) + 1
      BY <1>2, <1>4, <2>2
    <2> HIDE DEF n
    <2> QED BY <1>1, <1>4, <1>9, <2>1, <2>3, GoodSegment
  <1> QED BY <1>5, <1>6, <1>7, <1>8, <1>9

-----------------------------------------------------------------------------
\* The text without its indentation.

\* There is only one way to take the spaces in front away.
LEMMA IndentedOnce ==
  ASSUME NEW t \in Seq(Chars), NEW n, Indented(t, n)
  PROVE  Unindented(t) = Between(t, n, Len(t) + 1)
  <1> DEFINE F(m) == /\ \A i \in 1..m : t[i] = Space
                     /\ m = Len(t) \/ t[m + 1] # Space
             first == CHOOSE m \in 0..Len(t) : F(m)
  <1>1. Len(t) \in Nat /\ n \in 0..Len(t) /\ F(n)
    BY DEF Indented
  <1>2. first \in 0..Len(t) /\ F(first)
    <2> HIDE DEF F
    <2> QED BY <1>1
  <1>3. Unindented(t) = SubSeq(t, first + 1, Len(t))
    BY DEF Unindented
  <1> HIDE DEF first
  <1>4. first = n
    <2>1. ~(first < n)
      <3>1. first < n => first + 1 \in 1..n /\ first # Len(t)
        BY <1>1, <1>2
      <3> QED BY <1>1, <1>2, <3>1
    <2>2. ~(n < first)
      <3>1. n < first => n + 1 \in 1..first /\ n # Len(t)
        BY <1>1, <1>2
      <3> QED BY <1>1, <1>2, <3>1
    <2> QED BY <1>1, <1>2, <2>1, <2>2
  <1> DEFINE l == Len(t) + 1
  <1>5. l - 1 = Len(t)
    BY <1>1
  <1> HIDE DEF l
  <1>6. Between(t, n, l) = Unindented(t)
    BY <1>3, <1>4, <1>5, Zenon DEF Between
  <1> QED BY <1>6, Zenon DEF l

\* A character read belongs to the text behind the indentation, unless it is one
\* more space in front.
LEMMA TextGrows ==
  ASSUME NEW t \in Seq(Chars), NEW c \in Chars, NEW n, Indented(t, n),
         NEW u, u = Between(t, n, Len(t) + 1)
  PROVE  /\ u \in Seq(Chars)
         /\ \E k : /\ Indented(Append(t, c), k)
                   /\ LET v == Between(Append(t, c), k, Len(Append(t, c)) + 1) IN
                      IF u = <<>> /\ c = Space THEN v = <<>> ELSE v = Append(u, c)
  <1> DEFINE a == Append(t, c)
  <1>1. /\ a \in Seq(Chars) /\ Len(t) \in Nat /\ Len(a) = Len(t) + 1
        /\ \A i \in 1..Len(t) : a[i] = t[i]
        /\ a[Len(t) + 1] = c
    BY AppendIs
  <1>2. n \in 0..Len(t) /\ (\A i \in 1..n : t[i] = Space) /\ (n = Len(t) \/ t[n + 1] # Space)
    BY DEF Indented
  <1>3. u \in Seq(Chars) /\ Len(u) = Len(t) - n
    <2> DEFINE j == Len(t) + 1
    <2>1. n \in Nat /\ j \in Nat /\ n < j /\ j <= Len(t) + 1
      BY <1>1, <1>2
    <2>2. j - n - 1 = Len(t) - n
      BY <1>1, <1>2
    <2>3. u = Between(t, n, j)
      OBVIOUS
    <2> HIDE DEF j
    <2>4. Between(t, n, j) \in Seq(Chars) /\ Len(Between(t, n, j)) = j - n - 1
      BY <2>1, BetweenIs
    <2> QED BY <2>2, <2>3, <2>4, Zenon
  <1>4. u = <<>> <=> n = Len(t)
    BY <1>1, <1>2, <1>3
  <1>5. Between(a, n, Len(a) + 1) = Append(u, c)
    <2>1. Len(a) + 1 = Len(t) + 2
      BY <1>1
    <2>2. Between(a, n, Len(t) + 2) = Append(u, c)
      BY <1>2, BetweenGrows
    <2> HIDE DEF a
    <2> QED BY <2>1, <2>2
  <1>6. CASE u = <<>> /\ c = Space
    <2> DEFINE k == Len(t) + 1
               j == Len(a) + 1
    <2> HIDE DEF a
    <2>1. Indented(a, k)
      BY <1>1, <1>2, <1>4, <1>6 DEF Indented
    <2>2. k \in Nat /\ j \in Nat /\ k < j /\ j <= Len(a) + 1 /\ j - k - 1 = 0
      BY <1>1
    <2> HIDE DEF k, j
    <2>3. Between(a, k, j) \in Seq(Chars) /\ Len(Between(a, k, j)) = 0
      BY <1>1, <2>2, BetweenIs
    <2>4. Between(a, k, j) = <<>>
      BY <2>3, EmptySeq
    <2>5. Between(a, k, Len(a) + 1) = <<>>
      BY <2>4 DEF j
    <2> QED BY <1>3, <1>6, <2>1, <2>5 DEF a
  <1>7. CASE ~(u = <<>> /\ c = Space)
    <2> HIDE DEF a
    <2>1. Indented(a, n)
      BY <1>1, <1>2, <1>4, <1>7 DEF Indented
    <2> QED BY <1>3, <1>5, <1>7, <2>1 DEF a
  <1> QED BY <1>6, <1>7

\* The text and what is left of it end alike.
LEMMA LastIs ==
  ASSUME NEW t \in Seq(Chars), NEW n, Indented(t, n), NEW u, u = Between(t, n, Len(t) + 1)
  PROVE  u \in Seq(Chars) /\ (u # <<>> => u[Len(u)] = t[Len(t)])
  <1>1. n \in 0..Len(t) /\ Len(t) \in Nat
    BY DEF Indented
  <1> DEFINE j == Len(t) + 1
  <1>2. /\ n \in Nat /\ j \in Nat /\ n < j /\ j <= Len(t) + 1
        /\ j - n - 1 = Len(t) - n /\ u = Between(t, n, j)
    BY <1>1
  <1>3. u \in Seq(Chars) /\ Len(u) = j - n - 1 /\ \A k \in 1..j - n - 1 : u[k] = t[n + k]
    <2> HIDE DEF j
    <2>1. LET b == Between(t, n, j) IN
          b \in Seq(Chars) /\ Len(b) = j - n - 1 /\ \A k \in 1..j - n - 1 : b[k] = t[n + k]
      BY <1>2, BetweenIs
    <2> QED BY <1>2, <2>1, Zenon
  <1>4. Len(u) = Len(t) - n /\ \A k \in 1..Len(u) : u[k] = t[n + k]
    <2> HIDE DEF j
    <2> QED BY <1>2, <1>3
  <1>5. ASSUME u # <<>> PROVE u[Len(u)] = t[Len(t)]
    <2>1. Len(u) \in 1..Len(u)
      BY <1>1, <1>3, <1>4, <1>5, EmptySeq
    <2>2. n + Len(u) = Len(t)
      BY <1>1, <1>4
    <2> QED BY <1>4, <2>1, <2>2
  <1> QED BY <1>3, <1>5

-----------------------------------------------------------------------------
\* The text without the spaces behind.

\* Every nonempty set of natural numbers has a least one.
LEMMA LeastElement ==
  ASSUME NEW S \in SUBSET Nat, S # {}
  PROVE  \E m \in S : \A k \in S : m <= k
  <1> DEFINE R == OpToRel(<, Nat)
  <1>1. IsWellFoundedOn(R, Nat)
    BY NatLessThanWellFounded, Zenon
  <1>2. \A x, y \in S : y < x => <<y, x>> \in R
    BY DEF OpToRel
  <1> HIDE DEF R
  <1>3. PICK x \in S : \A y \in S : ~ (<<y, x>> \in R)
    BY <1>1, WFMin, Zenon
  <1>4. \A y \in S : ~ (y < x)
    BY <1>2, <1>3, Zenon
  <1> QED BY <1>4

\* Only spaces are behind place n, which has none itself.
EndsAt(t, n) ==
  /\ n \in 0..Len(t) /\ \A i \in n + 1..Len(t) : t[i] = Space
  /\ n = 0 \/ t[n] # Space

\* There is only one way to take the spaces behind away.
LEMMA UnpaddedOnce ==
  ASSUME NEW t \in Seq(Chars), NEW n, EndsAt(t, n)
  PROVE  Unpadded(t) = SubSeq(t, 1, n)
  <1> DEFINE F(m) == /\ \A i \in m + 1..Len(t) : t[i] = Space
                     /\ m = 0 \/ t[m] # Space
             last == CHOOSE m \in 0..Len(t) : F(m)
  <1>1. Len(t) \in Nat /\ n \in 0..Len(t) /\ F(n)
    BY DEF EndsAt
  <1>2. last \in 0..Len(t) /\ F(last)
    <2> HIDE DEF F
    <2> QED BY <1>1
  <1>3. Unpadded(t) = SubSeq(t, 1, last)
    BY DEF Unpadded
  <1> HIDE DEF last
  <1>4. last = n
    <2>1. ~(last < n)
      <3>1. last < n => n \in last + 1..Len(t) /\ n # 0
        BY <1>1, <1>2
      <3> QED BY <1>1, <1>2, <3>1
    <2>2. ~(n < last)
      <3>1. n < last => last \in n + 1..Len(t) /\ last # 0
        BY <1>1, <1>2
      <3> QED BY <1>1, <1>2, <3>1
    <2> QED BY <1>1, <1>2, <2>1, <2>2
  <1> QED BY <1>3, <1>4

\* A text ends somewhere.
LEMMA EndExists ==
  ASSUME NEW t \in Seq(Chars)
  PROVE  \E n : EndsAt(t, n)
  <1> DEFINE S == {n \in 0..Len(t) : \A i \in n + 1..Len(t) : t[i] = Space}
  <1>1. Len(t) \in Nat /\ Len(t) \in S /\ S \in SUBSET Nat
    OBVIOUS
  <1>2. PICK m \in S : \A k \in S : m <= k
    <2>1. S # {}
      BY <1>1
    <2> HIDE DEF S
    <2> QED BY <1>1, <2>1, LeastElement
  <1>3. m = 0 \/ t[m] # Space
    <2> SUFFICES ASSUME m # 0, t[m] = Space PROVE FALSE
      OBVIOUS
    <2>1. m - 1 \in 0..Len(t) /\ m \in Nat
      BY <1>1
    <2>2. \A i \in m - 1 + 1..Len(t) : t[i] = Space
      <3> TAKE i \in m - 1 + 1..Len(t)
      <3>1. i = m \/ i \in m + 1..Len(t)
        BY <1>1, <2>1
      <3> QED BY <3>1
    <2>3. m - 1 \in S
      BY <2>1, <2>2
    <2>4. m <= m - 1
      BY <1>2, <2>3
    <2> QED BY <2>1, <2>4
  <1> QED BY <1>3 DEF EndsAt

\* What is left of a text without the spaces behind.
LEMMA UnpaddedIs ==
  ASSUME NEW t \in Seq(Chars), NEW n, EndsAt(t, n)
  PROVE  /\ Unpadded(t) \in Seq(Chars) /\ Len(Unpadded(t)) = n /\ n \in Nat
         /\ \A k \in 1..n : Unpadded(t)[k] = t[k]
  <1>1. Len(t) \in Nat /\ n \in 0..Len(t) /\ \A k \in 1..n : t[k] \in Chars
    BY DEF EndsAt
  <1>2. Unpadded(t) = SubSeq(t, 1, n)
    BY UnpaddedOnce
  <1>3. /\ SubSeq(t, 1, n) \in Seq(Chars)
        /\ Len(SubSeq(t, 1, n)) = IF 1 <= n THEN n - 1 + 1 ELSE 0
        /\ \A k \in 1..n - 1 + 1 : SubSeq(t, 1, n)[k] = t[1 + k - 1]
    <2>1. 1 \in Int /\ n \in Int
      BY <1>1
    <2> QED BY <1>1, <2>1, SubSeqProperties
  <1> DEFINE w == SubSeq(t, 1, n)
  <1> HIDE DEF w
  <1>4. w \in Seq(Chars) /\ Len(w) = n /\ \A k \in 1..n : w[k] = t[k]
    <2>1. n - 1 + 1 = n /\ (1 <= n \/ n = 0) /\ \A k \in 1..n : 1 + k - 1 = k
      BY <1>1
    <2> QED BY <1>3, <2>1 DEF w
  <1> QED BY <1>1, <1>2, <1>4 DEF w

LEMMA UnspacedUnpadded ==
  ASSUME NEW t \in Seq(Chars), Unspaced(t)
  PROVE  Unpadded(t) = t
  <1>1. Len(t) \in Nat
    OBVIOUS
  <1> DEFINE n == Len(t)
  <1>2. EndsAt(t, n)
    BY <1>1, EmptySeq DEF EndsAt, Unspaced
  <1> DEFINE w == Unpadded(t)
  <1>3. w \in Seq(Chars) /\ Len(w) = n /\ \A k \in 1..n : w[k] = t[k]
    <2> HIDE DEF n
    <2> QED BY <1>2, UnpaddedIs
  <1> HIDE DEF w
  <1>4. w = t
    BY <1>3, SeqEqual
  <1> QED BY <1>4 DEF w

LEMMA PaddedUnpadded ==
  ASSUME NEW u \in Seq(Chars), NEW w \in Seq(Chars), NEW i, Padded(u, w, i)
  PROVE  Unpadded(u) = w /\ u # <<>> /\ u[Len(u)] = Space
  <1>1. /\ Len(w) \in Nat /\ Len(u) \in Nat /\ Len(w) < Len(u) /\ w[Len(w)] # Space
        /\ \A k \in 1..Len(w) : u[k] = w[k]
        /\ \A k \in Len(w) + 1..Len(u) : u[k] = Space
        /\ w # <<>>
    BY DEF Padded
  <1>2. Len(w) # 0
    BY <1>1, EmptySeq
  <1> DEFINE n == Len(w)
  <1>3. EndsAt(u, n)
    BY <1>1, <1>2 DEF EndsAt
  <1> DEFINE v == Unpadded(u)
  <1>4. v \in Seq(Chars) /\ Len(v) = n /\ \A k \in 1..n : v[k] = u[k]
    <2> HIDE DEF n
    <2> QED BY <1>3, UnpaddedIs
  <1> HIDE DEF v
  <1>5. v = w
    BY <1>1, <1>4, SeqEqual
  <1>6. Len(u) \in Len(w) + 1..Len(u) /\ u # <<>>
    BY <1>1
  <1> QED BY <1>1, <1>5, <1>6 DEF v

\* A refused text is no loose address without the spaces behind either.
LEMMA BadUnpadded ==
  ASSUME NEW u \in Seq(Chars), Bad(u)
  PROVE  ~IsLooseAddress(Unpadded(u))
  <1>1. PICK i \in DotsAt(u) \cup {0}, e \in 1..Len(u) + 1 :
          /\ i < e /\ \A n \in DotsAt(u) : n <= i \/ e <= n
          /\ ~IsLooseOctet(Between(u, i, e))
          /\ e \in DotsAt(u) \/ \E k \in i + 1..Len(u) : e = k + 1 /\ u[k] # Space
    BY DEF Bad
  <1>2. PICK n : EndsAt(u, n)
    BY EndExists
  <1>3. PICK w : w = Unpadded(u)
    OBVIOUS
  <1>4. w \in Seq(Chars) /\ Len(w) = n /\ n \in Nat /\ \A k \in 1..n : w[k] = u[k]
    BY <1>2, <1>3, UnpaddedIs
  <1>5. Len(u) \in Nat /\ n \in 0..Len(u) /\ \A k \in n + 1..Len(u) : u[k] = Space
    BY <1>2 DEF EndsAt
  <1>6. DOMAIN u = 1..Len(u) /\ DOMAIN w = 1..n
    BY <1>4
  <1>7. \A k \in 1..Len(u) : u[k] # Space => k \in 1..n
    BY <1>4, <1>5
  <1>8. DotsAt(w) = DotsAt(u)
    <2>1. Dot # Space
      BY DEF Dot, Space
    <2> QED BY <1>4, <1>5, <1>6, <1>7, <2>1 DEF DotsAt
  <1>9. i \in Nat /\ e \in Nat /\ e <= Len(u) + 1
    BY <1>5, <1>6 DEF DotsAt
  <1>10. e <= n + 1
    <2>1. CASE e \in DotsAt(u)
      <3>1. e \in DOMAIN w
        BY <1>8, <2>1 DEF DotsAt
      <3> QED BY <1>4, <1>6, <3>1
    <2>2. ASSUME NEW k \in i + 1..Len(u), e = k + 1, u[k] # Space
          PROVE  e <= n + 1
      <3>1. k \in 1..Len(u)
        BY <1>5, <1>9
      <3>2. k \in 1..n
        BY <1>7, <2>2, <3>1
      <3> QED BY <1>4, <2>2, <3>2
    <2> QED BY <1>1, <2>1, <2>2
  <1>11. Between(w, i, e) = Between(u, i, e)
    <2> DEFINE x == Between(w, i, e)
               y == Between(u, i, e)
    <2>1. x \in Seq(Chars) /\ Len(x) = e - i - 1 /\ \A k \in 1..e - i - 1 : x[k] = w[i + k]
      BY <1>1, <1>4, <1>9, <1>10, BetweenIs
    <2>2. y \in Seq(Chars) /\ Len(y) = e - i - 1 /\ \A k \in 1..e - i - 1 : y[k] = u[i + k]
      BY <1>1, <1>9, BetweenIs
    <2>3. \A k \in 1..e - i - 1 : i + k \in 1..n
      BY <1>4, <1>9, <1>10
    <2> HIDE DEF x, y
    <2>4. Len(x) = Len(y) /\ \A k \in 1..Len(x) : x[k] = y[k]
      BY <1>4, <2>1, <2>2, <2>3
    <2>5. x = y
      BY <2>1, <2>2, <2>4, SeqEqual
    <2> QED BY <2>5 DEF x, y
  <1>12. e \in DotsAt(w) \/ \E k \in i + 1..Len(w) : e = k + 1 /\ w[k] # Space
    <2>1. \A k \in i + 1..Len(u) : e = k + 1 => k \in i + 1..Len(w) /\ k \in 1..n
      BY <1>4, <1>5, <1>9, <1>10
    <2> QED BY <1>1, <1>4, <1>8, <2>1
  <1>13. i \in DotsAt(w) \cup {0} /\ e \in 1..Len(w) + 1
    BY <1>1, <1>4, <1>8, <1>9, <1>10
  <1>14. Bad(w)
    BY <1>1, <1>8, <1>11, <1>12, <1>13 DEF Bad
  <1> QED BY <1>3, <1>4, <1>14, BadIsNone

-----------------------------------------------------------------------------
\* What each character does to the numbers and the dots.

\* A digit that is kept belongs to the number.
LEMMA NumberGrows ==
  ASSUME IInv, IInv', NEW d \in Digits, ReadDigit(d), s' <= 255, ~(s' = 0 /\ hasZero),
         NEW m \in Seq(Chars), Number(m)
  PROVE  Number(Append(m, d))'
  <1> DEFINE a == Append(m, d)
  <1> SUFFICES Number(a)'
    OBVIOUS
  <1>1. /\ LeastValue /\ s \in 0..255 /\ d \in 0..9 /\ digitNumber \in 0..3
        /\ s' = s * 10 + d /\ digitNumber' = digitNumber + 1
    BY DigitIs
  <1>2. hasZero' = (hasZero \/ s' = 0) /\ hasZero \in BOOLEAN
    BY DEF ReadDigit, IInv, TypeOK
  <1>3. /\ Len(m) = digitNumber /\ Value(m) = s
        /\ \A i \in DOMAIN m : m[i] \in Digits
    BY DEF Number
  <1>4. d \in Chars
    BY DEF Chars
  <1>5. /\ Len(a) = Len(m) + 1 /\ a[Len(m) + 1] = d
        /\ \A i \in 1..Len(m) : a[i] = m[i]
        /\ DOMAIN a = 1..Len(m) + 1 /\ DOMAIN m = 1..Len(m) /\ Len(m) \in Nat
        /\ a \in Seq(Chars)
    BY <1>4, AppendIs
  <1>6. Value(a) = s'
    <2>1. Len(m) <= 3
      BY <1>1, <1>3
    <2>2. Value(a) = 10 * Value(m) + d
      BY <1>3, <2>1, ValueGrows
    <2>3. 10 * s + d = s'
      BY <1>1
    <2> HIDE DEF a
    <2> QED BY <1>3, <2>2, <2>3, Zenon
  <1>7. m = <<>> <=> digitNumber = 0
    BY <1>1, <1>3, EmptySeq
  <1>8. hasZero <=> m # <<>> /\ m[1] = 0
    BY DEF Number
  <1>9. m # <<>> => IsLooseOctet(m)
    BY DEF Number
  <1> HIDE DEF a
  <1>10. Len(a) = digitNumber' /\ \A i \in DOMAIN a : a[i] \in Digits
    BY <1>1, <1>3, <1>5
  <1>11. s = 0 => digitNumber = IF hasZero THEN 1 ELSE 0
    BY <1>1 DEF LeastValue
  <1>12. a # <<>> /\ Len(a) \in 1..4
    BY <1>1, <1>3, <1>5, EmptySeq
  <1>13. hasZero' <=> a[1] = 0
    <2>1. CASE digitNumber = 0
      <3>1. a[1] = d /\ s = 0 /\ ~hasZero
        BY <1>1, <1>3, <1>5, <1>7, <1>8, <2>1 DEF LeastValue
      <3>2. s' = d
        BY <1>1, <3>1
      <3> QED BY <1>2, <3>1, <3>2
    <2>2. CASE digitNumber # 0
      <3>1. a[1] = m[1] /\ m # <<>>
        BY <1>1, <1>3, <1>5, <1>7, <2>2
      <3>2. s' = 0 => s = 0
        BY <1>1
      <3>3. s' # 0
        BY <1>11, <2>2, <3>2
      <3> QED BY <1>2, <1>8, <3>1, <3>3
    <2> QED BY <2>1, <2>2
  <1>14. IsLooseOctet(a)
    <2>1. ASSUME Len(a) > 1, a[1] = 0
          PROVE  a[2] # 0
      <3>1. hasZero /\ m # <<>> /\ m[1] = 0 /\ digitNumber > 0
        BY <1>1, <1>3, <1>5, <1>7, <1>8, <2>1
      <3>2. CASE digitNumber = 1
        <4>1. a[2] = d /\ Value(m) = m[1]
          <5>1. Len(m) <= 4 /\ Len(m) = 1 /\ a[2] = d
            BY <1>3, <1>5, <3>2
          <5> QED BY <1>3, <5>1, ValueIs
        <4>2. s = 0
          BY <1>3, <3>1, <4>1
        <4> QED BY <1>1, <3>1, <4>1, <4>2
      <3>3. CASE digitNumber # 1
        <4>1. Len(m) > 1 /\ a[2] = m[2]
          BY <1>1, <1>3, <1>5, <3>1, <3>3
        <4> QED BY <1>9, <3>1, <4>1 DEF IsLooseOctet
      <3> QED BY <3>2, <3>3
    <2>2. Value(a) <= 255
      BY <1>6
    <2>3. Len(a) > 1 => a[1] # 0 \/ a[2] # 0
      BY <2>1
    <2> QED BY <1>10, <1>12, <2>2, <2>3 DEF IsLooseOctet
  <1> QED BY <1>6, <1>10, <1>12, <1>13, <1>14 DEF Number

\* A digit that is refused makes the number no loose octet.
LEMMA NumberRefused ==
  ASSUME IInv, NEW d \in Digits, ReadDigit(d), s' > 255 \/ (s' = 0 /\ hasZero),
         NEW m \in Seq(Chars), Number(m)
  PROVE  ~IsLooseOctet(Append(m, d))
  <1> DEFINE a == Append(m, d)
  <1> SUFFICES ASSUME IsLooseOctet(a) PROVE FALSE
    OBVIOUS
  <1>1. /\ LeastValue /\ s \in 0..255 /\ d \in 0..9 /\ digitNumber \in 0..4
        /\ s' = s * 10 + d
    BY DigitIs
  <1>2. /\ Len(m) = digitNumber /\ Value(m) = s
        /\ \A i \in DOMAIN m : m[i] \in Digits
        /\ hasZero <=> m # <<>> /\ m[1] = 0
    BY DEF Number
  <1>3. d \in Chars
    BY DEF Chars
  <1>4. /\ Len(a) = Len(m) + 1 /\ a[Len(m) + 1] = d
        /\ \A i \in 1..Len(m) : a[i] = m[i]
    BY <1>3, AppendIs
  <1>5. Len(a) <= 4 /\ Value(a) <= 255 /\ (Len(a) > 1 => a[1] # 0 \/ a[2] # 0)
    BY DEF IsLooseOctet
  <1>6. Len(m) <= 3
    BY <1>1, <1>2, <1>4, <1>5
  <1>7. Value(a) = s'
    <2>1. Value(a) = 10 * Value(m) + d
      BY <1>2, <1>6, ValueGrows
    <2>2. 10 * s + d = s'
      BY <1>1
    <2> HIDE DEF a
    <2> QED BY <1>2, <2>1, <2>2, Zenon
  <1> HIDE DEF a
  <1>8. s' = 0 /\ hasZero
    BY <1>1, <1>5, <1>7
  <1>9. s = 0 /\ d = 0
    BY <1>1, <1>8
  <1>10. digitNumber = 1
    BY <1>1, <1>8, <1>9 DEF LeastValue
  <1>11. a[1] = 0 /\ a[2] = 0 /\ Len(a) = 2
    BY <1>2, <1>4, <1>8, <1>9, <1>10
  <1> QED BY <1>5, <1>11

\* Where the dots are that were read, and what is behind the last of them.
LEMMA ScannedIs ==
  ASSUME IInv, NEW u \in Seq(Chars), NEW p, Scanned(u, p)
  PROVE  /\ count \in Nat /\ Len(u) \in Nat /\ p[count] \in 0..Len(u)
         /\ p[count] \in DotsAt(u) \cup {0}
         /\ \A n \in DotsAt(u) : n <= p[count]
         /\ Between(u, p[count], Len(u) + 1) \in Seq(Chars)
         /\ Len(Between(u, p[count], Len(u) + 1)) = Len(u) - p[count]
         /\ Number(Between(u, p[count], Len(u) + 1))
  <1>1. /\ count \in Nat /\ Len(u) \in Nat
        /\ \A n \in 0..count : p[n] \in 0..Len(u)
        /\ p[0] = 0 /\ \A n, m \in 0..count : n < m => p[n] < p[m]
    <2>1. count \in Nat /\ Len(u) \in Nat
      BY SizeAssumption DEF IInv, TypeOK
    <2> QED BY <2>1 DEF Scanned
  <1>2. DotsAt(u) = {p[n] : n \in 1..count} /\ Number(Between(u, p[count], Len(u) + 1))
    BY DEF Scanned
  <1>3. count \in 0..count /\ p[count] \in 0..Len(u)
    BY <1>1
  <1>4. p[count] \in DotsAt(u) \cup {0}
    BY <1>1, <1>2
  <1>5. ASSUME NEW n \in 1..count PROVE p[n] <= p[count]
    BY <1>1, <1>5
  <1>6. \A n \in DotsAt(u) : n <= p[count]
    BY <1>2, <1>5
  <1> DEFINE i == p[count]
             j == Len(u) + 1
  <1>7. i \in Nat /\ j \in Nat /\ i < j /\ j <= Len(u) + 1 /\ j - i - 1 = Len(u) - i
    BY <1>1, <1>3
  <1>8. Between(u, i, j) \in Seq(Chars) /\ Len(Between(u, i, j)) = Len(u) - i
    <2> HIDE DEF i, j
    <2>1. Between(u, i, j) \in Seq(Chars) /\ Len(Between(u, i, j)) = j - i - 1
      BY <1>7, BetweenIs
    <2> QED BY <1>7, <2>1, Zenon
  <1> QED BY <1>1, <1>2, <1>3, <1>4, <1>6, <1>8

\* A text whose unfinished number is no loose octet with the next character, or
\* is empty in front of a dot, is refused.
LEMMA ScannedBad ==
  ASSUME IInv, NEW u \in Seq(Chars), NEW p, Scanned(u, p), NEW c \in Chars, c # Space,
         IF c = Dot THEN p[count] = Len(u)
                    ELSE ~IsLooseOctet(Append(Between(u, p[count], Len(u) + 1), c))
  PROVE  Bad(Append(u, c))
  <1> DEFINE a == Append(u, c)
             i == p[count]
  <1>1. /\ Len(u) \in Nat /\ i \in 0..Len(u) /\ i \in DotsAt(u) \cup {0}
        /\ \A n \in DotsAt(u) : n <= i
    BY ScannedIs
  <1>2. /\ Len(a) = Len(u) + 1
        /\ DotsAt(a) = DotsAt(u) \cup (IF c = Dot THEN {Len(u) + 1} ELSE {})
        /\ DotsAt(u) \subseteq 1..Len(u) /\ a \in Seq(Chars) /\ a[Len(u) + 1] = c
    BY AppendIs, DotsAppend
  <1>3. Between(a, i, Len(u) + 2) = Append(Between(u, i, Len(u) + 1), c)
    BY <1>1, BetweenGrows
  <1>4. c # Dot => ~IsLooseOctet(Append(Between(u, i, Len(u) + 1), c))
    BY Zenon
  <1>5. c = Dot => i = Len(u)
    BY Zenon
  <1> HIDE DEF a, i
  <1>6. CASE c = Dot
    <2> DEFINE e == Len(u) + 1
    <2>1. /\ e \in 1..Len(a) + 1 /\ e \in Nat /\ i \in Nat /\ i < e /\ e <= Len(a) + 1
          /\ e - i - 1 = 0
      BY <1>1, <1>2, <1>5, <1>6
    <2>2. ~IsLooseOctet(Between(a, i, e))
      <3> HIDE DEF e
      <3>1. Len(Between(a, i, e)) = e - i - 1
        BY <1>2, <2>1, BetweenIs
      <3>2. Len(Between(a, i, e)) = 0
        BY <2>1, <3>1, Zenon
      <3> QED BY <3>2 DEF IsLooseOctet
    <2>3. e \in DotsAt(a) /\ i \in DotsAt(a) \cup {0} /\ \A n \in DotsAt(a) : n <= i \/ e <= n
      BY <1>1, <1>2, <1>6
    <2> HIDE DEF e
    <2>4. Bad(a)
      BY <2>1, <2>2, <2>3 DEF Bad
    <2> QED BY <2>4 DEF a
  <1>7. CASE c # Dot
    <2> DEFINE e == Len(u) + 2
    <2>1. e \in 1..Len(a) + 1 /\ i < e
      BY <1>1, <1>2
    <2>4. \E k \in i + 1..Len(a) : e = k + 1 /\ a[k] # Space
      <3>1. Len(u) + 1 \in i + 1..Len(a) /\ e = Len(u) + 1 + 1
        BY <1>1, <1>2
      <3> QED BY <1>2, <3>1
    <2>2. ~IsLooseOctet(Between(a, i, e))
      BY <1>3, <1>4, <1>7, Zenon
    <2>3. i \in DotsAt(a) \cup {0} /\ \A n \in DotsAt(a) : n <= i \/ e <= n
      BY <1>1, <1>2, <1>7
    <2> HIDE DEF e
    <2>5. Bad(a)
      BY <2>1, <2>2, <2>3, <2>4 DEF Bad
    <2> QED BY <2>5 DEF a
  <1> QED BY <1>6, <1>7

\* A text with three dots that was read to its end is a loose address; no other is.
LEMMA LooseIff ==
  ASSUME IInv, NEW u \in Seq(Chars), NEW p, Scanned(u, p)
  PROVE  count = 3 <=> IsLooseAddress(u)
  <1>1. /\ count \in Nat /\ Len(u) \in Nat /\ p[count] \in 0..Len(u)
        /\ Len(Between(u, p[count], Len(u) + 1)) = Len(u) - p[count]
        /\ Number(Between(u, p[count], Len(u) + 1))
    BY ScannedIs
  <1>2. /\ \A n \in 0..count : p[n] \in 0..Len(u)
        /\ \A n, m \in 0..count : n < m => p[n] < p[m]
        /\ DotsAt(u) = {p[n] : n \in 1..count}
    BY <1>1 DEF Scanned
  <1>3. ASSUME count = 3
        PROVE  IsLooseAddress(u)
    <2>1. PICK i, j, k : i = p[1] /\ j = p[2] /\ k = p[3]
      OBVIOUS
    <2>2. DotsAt(u) = {i, j, k} /\ i \in DotsAt(u) /\ j \in DotsAt(u) /\ k \in DotsAt(u)
      BY <1>2, <1>3, <2>1
    <2>3. i < j /\ j < k
      BY <1>2, <1>3, <2>1
    <2>4. /\ IsLooseOctet(Between(u, 0, i)) /\ IsLooseOctet(Between(u, i, j))
          /\ IsLooseOctet(Between(u, j, k))
      <3>1. /\ \A n \in 1..count : IsLooseOctet(Between(u, p[n - 1], p[n]))
            /\ p[0] = 0
        BY DEF Scanned
      <3>2. /\ IsLooseOctet(Between(u, p[1 - 1], p[1])) /\ IsLooseOctet(Between(u, p[2 - 1], p[2]))
            /\ IsLooseOctet(Between(u, p[3 - 1], p[3]))
        BY <1>3, <3>1
      <3>3. 1 - 1 = 0 /\ 2 - 1 = 1 /\ 3 - 1 = 2
        OBVIOUS
      <3> QED BY <2>1, <3>1, <3>2, <3>3, Zenon
    <2>5. k = Len(u) \/ IsLooseOctet(Between(u, k, Len(u) + 1))
      <3> DEFINE m == Between(u, k, Len(u) + 1)
      <3>1. Len(m) = Len(u) - k /\ Number(m) /\ k \in 0..Len(u)
        BY <1>1, <1>3, <2>1, Zenon
      <3> HIDE DEF m
      <3>2. k # Len(u) => Len(m) # 0
        BY <1>1, <3>1
      <3>3. k # Len(u) => m # <<>>
        BY <3>2, EmptySeq
      <3>4. k # Len(u) => IsLooseOctet(m)
        BY <3>1, <3>3 DEF Number
      <3> QED BY <3>4 DEF m
    <2> QED BY <2>2, <2>3, <2>4, <2>5, Zenon DEF IsLooseAddress
  <1>4. ASSUME IsLooseAddress(u)
        PROVE  count = 3
    <2>1. PICK i \in DotsAt(u), j \in DotsAt(u), k \in DotsAt(u) :
            i < j /\ j < k /\ DotsAt(u) = {i, j, k}
      BY <1>4 DEF IsLooseAddress
    <2>2. PICK a \in 1..count, b \in 1..count, c \in 1..count : i = p[a] /\ j = p[b] /\ k = p[c]
      BY <1>2, <2>1
    <2>3. a # b /\ b # c /\ a # c
      BY <1>1, <1>2, <2>1, <2>2
    <2>4. count >= 3
      BY <1>1, <2>2, <2>3
    <2>5. ~(count > 3)
      <3> SUFFICES ASSUME count > 3 PROVE FALSE
        OBVIOUS
      <3>1. /\ p[1] \in {i, j, k} /\ p[2] \in {i, j, k}
            /\ p[3] \in {i, j, k} /\ p[4] \in {i, j, k}
        <4>1. \A n \in 1..count : p[n] \in DotsAt(u)
          BY <1>2
        <4>2. 1 \in 1..count /\ 2 \in 1..count /\ 3 \in 1..count /\ 4 \in 1..count
          BY <1>1
        <4>3. DotsAt(u) = {i, j, k}
          BY <2>1
        <4> QED BY <4>1, <4>2, <4>3, Zenon
      <3>2. p[1] < p[2] /\ p[2] < p[3] /\ p[3] < p[4]
        BY <1>1, <1>2
      <3>3. p[1] \in Nat /\ p[2] \in Nat /\ p[3] \in Nat /\ p[4] \in Nat
        <4>1. 1 \in 0..count /\ 2 \in 0..count /\ 3 \in 0..count /\ 4 \in 0..count
          BY <1>1
        <4>2. 0..Len(u) \subseteq Nat
          BY <1>1
        <4> QED BY <1>2, <4>1, <4>2, Zenon
      <3>4. PICK a1, a2, a3, a4 : a1 = p[1] /\ a2 = p[2] /\ a3 = p[3] /\ a4 = p[4]
        OBVIOUS
      <3>5. /\ a1 \in {i, j, k} /\ a2 \in {i, j, k} /\ a3 \in {i, j, k} /\ a4 \in {i, j, k}
            /\ a1 \in Nat /\ a2 \in Nat /\ a3 \in Nat /\ a4 \in Nat
            /\ a1 < a2 /\ a2 < a3 /\ a3 < a4
        BY <3>1, <3>2, <3>3, <3>4, Zenon
      <3>6. a1 # a2 /\ a1 # a3 /\ a1 # a4 /\ a2 # a3 /\ a2 # a4 /\ a3 # a4
        BY <3>5
      <3> QED BY <3>5, <3>6, Zenon
    <2> QED BY <1>1, <2>4, <2>5
  <1> QED BY <1>3, <1>4

\* A dot behind a number is the next of the dots.
LEMMA DotScanned ==
  ASSUME IInv, ReadDot, digitNumber # 0, NEW u \in Seq(Chars), NEW p, Scanned(u, p)
  PROVE  \E q : Scanned(Append(u, Dot), q)'
  <1> DEFINE a == Append(u, Dot)
             l == Len(u) + 1
  <1> PICK q : q = [n \in 0..count + 1 |-> IF n <= count THEN p[n] ELSE l]
    OBVIOUS
  <1>1. Dot \in Chars /\ Take(Dot)
    BY DEF ReadDot, Chars
  <1>2. /\ s' = 0 /\ digitNumber' = 0 /\ hasZero' = FALSE
        /\ count' = count + 1 /\ count \in Nat
    <2>1. Len(text') = Len(text) + 1 /\ Len(text') <= MaxLen
      BY <1>1, TakeType
    <2>2. (count + 1) % ShortSize = count + 1 /\ count \in Nat
      BY <2>1, CountIs
    <2> QED BY <2>2 DEF ReadDot
  <1>3. /\ Len(u) \in Nat /\ p[count] \in 0..Len(u)
        /\ \A n \in 0..count : p[n] \in 0..Len(u)
        /\ p[0] = 0
        /\ \A n, m \in 0..count : n < m => p[n] < p[m]
        /\ DotsAt(u) = {p[n] : n \in 1..count}
        /\ \A n \in 1..count : IsLooseOctet(Between(u, p[n - 1], p[n]))
    BY ScannedIs, <1>2 DEF Scanned
  <1>4. a \in Seq(Chars) /\ Len(a) = Len(u) + 1 /\ DotsAt(a) = DotsAt(u) \cup {l}
    BY <1>1, AppendIs, DotsAppend
  <1>5. IsLooseOctet(Between(u, p[count], l))
    <2> DEFINE m == Between(u, p[count], l)
    <2>1. Number(m)
      BY ScannedIs
    <2> HIDE DEF m
    <2>2. Len(m) # 0
      BY <2>1 DEF Number
    <2>3. m # <<>>
      BY <2>2, EmptySeq
    <2>4. IsLooseOctet(m)
      BY <2>1, <2>3 DEF Number
    <2> QED BY <2>4 DEF m
  <1>6. \A i \in 0..Len(u), j \in 1..l : i < j => Between(a, i, j) = Between(u, i, j)
    BY <1>1, <1>3, BetweenStays
  <1> HIDE DEF a
  <1>7. l \in Nat /\ l = Len(a) /\ (\A n \in 0..count : q[n] = p[n]) /\ q[count + 1] = l
    BY <1>2, <1>3, <1>4
  <1>8. q \in [0..count + 1 -> 0..Len(a)]
    BY <1>2, <1>3, <1>4
  <1>9. q[0] = 0
    BY <1>2, <1>3, <1>7
  <1>10. \A n, m \in 0..count + 1 : n < m => q[n] < q[m]
    BY <1>2, <1>3, <1>7
  <1> HIDE DEF l
  <1>11. DotsAt(a) = {q[n] : n \in 1..count + 1}
    <2>1. 1..count + 1 = 1..count \cup {count + 1} /\ \A n \in 1..count : n \in 0..count
      BY <1>2
    <2>2. {q[n] : n \in 1..count + 1} = {q[n] : n \in 1..count} \cup {q[count + 1]}
      BY <2>1
    <2>3. {q[n] : n \in 1..count} = {p[n] : n \in 1..count}
      BY <1>7, <2>1
    <2> QED BY <1>3, <1>4, <1>7, <2>2, <2>3
  <1>12. \A n \in 1..count + 1 : IsLooseOctet(Between(a, q[n - 1], q[n]))
    <2> TAKE n \in 1..count + 1
    <2>1. n - 1 \in 0..count /\ q[n - 1] = p[n - 1] /\ q[n - 1] < q[n] /\ n \in 0..count + 1
      BY <1>2, <1>7, <1>10
    <2>2. q[n - 1] \in 0..Len(u)
      BY <1>3, <2>1
    <2>3. q[n] \in 1..l
      BY <1>7, <1>8, <2>1, <2>2
    <2>4. Between(a, q[n - 1], q[n]) = Between(u, q[n - 1], q[n])
      BY <1>6, <2>1, <2>2, <2>3
    <2>5. CASE n = count + 1
      <3>1. n - 1 = count /\ q[n] = l
        BY <1>2, <1>7, <2>5
      <3> QED BY <1>5, <2>1, <2>4, <3>1, Zenon
    <2>6. CASE n # count + 1
      <3>1. n \in 1..count /\ q[n] = p[n]
        BY <1>2, <1>7, <2>6
      <3> QED BY <1>3, <2>1, <2>4, <3>1, Zenon
    <2> QED BY <2>5, <2>6
  <1>13. PICK m : m = Between(a, l, Len(a) + 1)
    OBVIOUS
  <1>14. Number(m)'
    <2> DEFINE j == Len(a) + 1
    <2>1. j \in Nat /\ l < j /\ j <= Len(a) + 1 /\ j - l - 1 = 0
      BY <1>3, <1>4, <1>7
    <2>2. m = Between(a, l, j)
      BY <1>13
    <2> HIDE DEF j
    <2>3. Between(a, l, j) \in Seq(Chars) /\ Len(Between(a, l, j)) = j - l - 1
      BY <1>4, <1>7, <2>1, BetweenIs
    <2>4. m \in Seq(Chars) /\ Len(m) = 0
      BY <2>1, <2>2, <2>3, Zenon
    <2>5. m = <<>> /\ DOMAIN m = {}
      BY <2>4, EmptySeq
    <2>6. Value(m) = 0
      BY <2>5, ValueEmpty
    <2> QED BY <1>2, <2>4, <2>5, <2>6 DEF Number
  <1>15. Between(a, q[count'], Len(a) + 1) = m
    BY <1>2, <1>7, <1>13
  <1>16. Scanned(a, q)'
    BY <1>2, <1>8, <1>9, <1>10, <1>11, <1>12, <1>14, <1>15 DEF Scanned, Number
  <1> QED BY <1>16 DEF a

\* A digit that is kept leaves the dots where they are.
LEMMA DigitScanned ==
  ASSUME IInv, IInv', NEW d \in Digits, ReadDigit(d), s' <= 255, ~(s' = 0 /\ hasZero),
         NEW u \in Seq(Chars), NEW p, Scanned(u, p)
  PROVE  Scanned(Append(u, d), p)'
  <1> DEFINE a == Append(u, d)
  <1> SUFFICES Scanned(a, p)'
    OBVIOUS
  <1>1. d \in Chars /\ d # Dot /\ count' = count
    BY DigitsAssumption DEF Chars, Dot, ReadDigit, Return
  <1>2. /\ Len(u) \in Nat /\ count \in Nat /\ p[count] \in 0..Len(u)
        /\ Between(u, p[count], Len(u) + 1) \in Seq(Chars)
        /\ Number(Between(u, p[count], Len(u) + 1))
    BY ScannedIs
  <1>3. /\ p \in [0..count -> 0..Len(u)] /\ p[0] = 0
        /\ \A n, m \in 0..count : n < m => p[n] < p[m]
        /\ DotsAt(u) = {p[n] : n \in 1..count}
        /\ \A n \in 1..count : IsLooseOctet(Between(u, p[n - 1], p[n]))
    BY DEF Scanned
  <1>4. Len(a) = Len(u) + 1 /\ DotsAt(a) = DotsAt(u)
    BY <1>1, AppendIs, DotsAppend
  <1>5. \A i \in 0..Len(u), j \in 0..Len(u) : i < j => Between(a, i, j) = Between(u, i, j)
    BY <1>1, <1>2, BetweenStays
  <1>6. Between(a, p[count], Len(a) + 1) = Append(Between(u, p[count], Len(u) + 1), d)
    <2>1. Between(a, p[count], Len(u) + 2) = Append(Between(u, p[count], Len(u) + 1), d)
      BY <1>1, <1>2, BetweenGrows
    <2>2. Len(a) + 1 = Len(u) + 2
      BY <1>2, <1>4
    <2> HIDE DEF a
    <2> QED BY <2>1, <2>2
  <1> HIDE DEF a
  <1>7. p \in [0..count -> 0..Len(a)]
    BY <1>2, <1>3, <1>4
  <1>8. \A n \in 1..count : IsLooseOctet(Between(a, p[n - 1], p[n]))
    <2> TAKE n \in 1..count
    <2>1. n - 1 \in 0..count /\ n \in 0..count /\ n - 1 < n
      BY <1>2
    <2>2. p[n - 1] \in 0..Len(u) /\ p[n] \in 0..Len(u) /\ p[n - 1] < p[n]
      BY <1>3, <2>1
    <2>3. Between(a, p[n - 1], p[n]) = Between(u, p[n - 1], p[n])
      BY <1>5, <2>2
    <2> QED BY <1>3, <2>3
  <1>9. Number(Between(a, p[count], Len(a) + 1))'
    <2>1. PICK m \in Seq(Chars) : m = Between(u, p[count], Len(u) + 1)
      BY <1>2
    <2>2. Number(m)
      BY <1>2, <2>1
    <2>3. PICK x : x = Append(m, d)
      OBVIOUS
    <2>4. Number(x)'
      BY <2>2, <2>3, NumberGrows
    <2>5. Between(a, p[count'], Len(a) + 1) = x
      BY <1>1, <1>6, <2>1, <2>3
    <2> QED BY <2>4, <2>5 DEF Number
  <1> QED BY <1>1, <1>3, <1>4, <1>7, <1>8, <1>9 DEF Scanned

-----------------------------------------------------------------------------
\* What the loops find out stays true.

\* One of the actions reads the character c.
Reads(c) ==
  \/ c = Space /\ (LeadingSpace \/ ReadTrailing \/ TrailingSpace)
  \/ c = Dot /\ ReadDot
  \/ c \in Digits /\ ReadDigit(c)
  \/ ReadOther(c) \/ Unread(c)

\* Any character but a digit, a dot or a space makes the text a refused one.
LEMMA StrangerBad ==
  ASSUME IInv, NEW u \in Seq(Chars), NEW p, Scanned(u, p)
  PROVE  Bad(Append(u, Other))
  <1> DEFINE m == Between(u, p[count], Len(u) + 1)
             x == Append(m, Other)
  <1>1. Other \in Chars /\ Other # Dot /\ Other # Space /\ Other \notin Digits
    BY DigitsAssumption DEF Chars, Dot, Space, Other
  <1>2. m \in Seq(Chars)
    BY ScannedIs
  <1> HIDE DEF m
  <1>3. Len(m) + 1 \in DOMAIN x /\ x[Len(m) + 1] = Other
    BY <1>1, <1>2, AppendIs
  <1> HIDE DEF x
  <1>4. ~IsLooseOctet(x)
    BY <1>1, <1>3 DEF IsLooseOctet
  <1> QED BY <1>1, <1>4, ScannedBad DEF m, x

\* A space behind a text that was read so far may be the first of those at its end.
LEMMA FirstSpace ==
  ASSUME IInv, NEW u \in Seq(Chars), u # <<>>, Unspaced(u), NEW p, Scanned(u, p)
  PROVE  Padded(Append(u, Space), u, p[count])
  <1>1. Space \in Chars
    BY DEF Chars
  <1> DEFINE a == Append(u, Space)
  <1>2. /\ Len(u) \in Nat /\ Len(a) = Len(u) + 1 /\ a[Len(u) + 1] = Space
        /\ \A k \in 1..Len(u) : a[k] = u[k]
    BY <1>1, AppendIs
  <1>3. p[count] \in DotsAt(u) \cup {0} /\ \A n \in DotsAt(u) : n <= p[count]
    BY ScannedIs
  <1> HIDE DEF a
  <1>4. \A k \in Len(u) + 1..Len(a) : a[k] = Space
    BY <1>2
  <1>5. Padded(a, u, p[count])
    BY <1>2, <1>3, <1>4 DEF Padded, Unspaced
  <1> QED BY <1>5 DEF a

\* One more space.
LEMMA PaddedGrows ==
  ASSUME NEW u \in Seq(Chars), NEW w \in Seq(Chars), NEW i, Padded(u, w, i)
  PROVE  Padded(Append(u, Space), w, i)
  <1>1. Space \in Chars
    BY DEF Chars
  <1> DEFINE a == Append(u, Space)
  <1>2. /\ Len(u) \in Nat /\ Len(a) = Len(u) + 1 /\ a[Len(u) + 1] = Space
        /\ \A k \in 1..Len(u) : a[k] = u[k]
    BY <1>1, AppendIs
  <1>3. /\ Len(w) \in Nat /\ Len(w) < Len(u)
        /\ \A k \in 1..Len(w) : u[k] = w[k]
        /\ \A k \in Len(w) + 1..Len(u) : u[k] = Space
    BY DEF Padded
  <1> HIDE DEF a
  <1>4. \A k \in 1..Len(w) : a[k] = w[k]
    BY <1>2, <1>3
  <1>5. \A k \in Len(w) + 1..Len(a) : a[k] = Space
    BY <1>2, <1>3
  <1>6. Len(w) < Len(a)
    BY <1>2, <1>3
  <1>7. Padded(a, w, i)
    BY <1>4, <1>5, <1>6 DEF Padded
  <1> QED BY <1>7 DEF a

\* Any other character puts the spaces into the middle.
LEMMA PaddedBroken ==
  ASSUME NEW u \in Seq(Chars), NEW w \in Seq(Chars), NEW i, Padded(u, w, i),
         NEW c \in Chars, c # Space
  PROVE  Bad(Append(u, c))
  <1> DEFINE a == Append(u, c)
  <1>1. /\ Len(u) \in Nat /\ Len(a) = Len(u) + 1 /\ a[Len(u) + 1] = c /\ a \in Seq(Chars)
        /\ \A k \in 1..Len(u) : a[k] = u[k]
        /\ DotsAt(a) = DotsAt(u) \cup (IF c = Dot THEN {Len(u) + 1} ELSE {})
    BY AppendIs, DotsAppend
  <1>2. /\ Len(w) \in Nat /\ Len(w) < Len(u)
        /\ \A k \in 1..Len(w) : u[k] = w[k]
        /\ \A k \in Len(w) + 1..Len(u) : u[k] = Space
        /\ i \in DotsAt(w) \cup {0} /\ \A n \in DotsAt(w) : n <= i
    BY DEF Padded
  <1>3. DOMAIN u = 1..Len(u) /\ DOMAIN w = 1..Len(w) /\ Dot # Space
    BY DEF Dot, Space
  <1>4. DotsAt(u) = DotsAt(w)
    <2>1. \A k \in 1..Len(u) : k \in 1..Len(w) \/ k \in Len(w) + 1..Len(u)
      BY <1>1, <1>2
    <2>2. \A k \in 1..Len(w) : k \in 1..Len(u)
      BY <1>1, <1>2
    <2> QED BY <1>2, <1>3, <2>1, <2>2 DEF DotsAt
  <1>5. i \in Nat /\ i <= Len(w)
    BY <1>2, <1>3 DEF DotsAt
  <1> HIDE DEF a
  <1> DEFINE e == IF c = Dot THEN Len(u) + 1 ELSE Len(u) + 2
  <1>6. /\ e \in Nat /\ i + 1 < e /\ e <= Len(a) + 1 /\ e \in 1..Len(a) + 1 /\ i < e
        /\ Len(w) + 1 - i \in 1..e - i - 1 /\ Len(w) + 1 \in 1..Len(u)
        /\ i + (Len(w) + 1 - i) = Len(w) + 1
    BY <1>1, <1>2, <1>5
  <1>7. e \in DotsAt(a) \/ \E k \in i + 1..Len(a) : e = k + 1 /\ a[k] # Space
    <2>1. CASE c = Dot
      BY <1>1, <2>1
    <2>2. CASE c # Dot
      <3>1. Len(u) + 1 \in i + 1..Len(a) /\ e = Len(u) + 1 + 1
        BY <1>1, <1>2, <1>5, <2>2
      <3> QED BY <1>1, <3>1
    <2> QED BY <2>1, <2>2
  <1>8. \A n \in DotsAt(a) : n <= i \/ e <= n
    BY <1>1, <1>2, <1>4
  <1>9. i \in DotsAt(a) \cup {0}
    BY <1>1, <1>2, <1>4
  <1> HIDE DEF e
  <1>10. ~IsLooseOctet(Between(a, i, e))
    <2> DEFINE b == Between(a, i, e)
    <2>1. /\ DOMAIN b = 1..e - i - 1
          /\ \A k \in 1..e - i - 1 : b[k] = a[i + k]
      <3>1. a \in Seq(Chars) /\ i \in Nat /\ e \in Nat /\ i < e /\ e <= Len(a) + 1
        BY <1>1, <1>5, <1>6
      <3> HIDE DEF b
      <3>2. DOMAIN Between(a, i, e) = 1..e - i - 1
            /\ \A k \in 1..e - i - 1 : Between(a, i, e)[k] = a[i + k]
        BY <3>1, BetweenIs
      <3> QED BY <3>2, Zenon DEF b
    <2> HIDE DEF b
    <2>2. PICK k : k = Len(w) + 1 - i
      OBVIOUS
    <2>3. k \in DOMAIN b /\ b[k] = a[i + k] /\ i + k = Len(w) + 1
      BY <1>6, <2>1, <2>2
    <2>4. Len(w) + 1 \in Len(w) + 1..Len(u)
      BY <1>1, <1>2
    <2>5. b[k] = Space
      BY <1>1, <1>2, <1>6, <2>3, <2>4
    <2>6. Space \notin Digits
      BY DigitsAssumption DEF Space
    <2>7. ~IsLooseOctet(b)
      BY <2>3, <2>5, <2>6 DEF IsLooseOctet
    <2> QED BY <2>7 DEF b
  <1>11. Bad(a)
    BY <1>6, <1>7, <1>8, <1>9, <1>10 DEF Bad
  <1> QED BY <1>11 DEF a

\* A text refused before its end stays so with every character that follows.
LEMMA StaysRefused ==
  ASSUME NEW u \in Seq(Chars), Bad(u) \/ PaddedNone(u), NEW c \in Chars,
         NEW v, v = IF u = <<>> /\ c = Space THEN <<>> ELSE Append(u, c)
  PROVE  Bad(v) \/ PaddedNone(v)
  <1>1. CASE u = <<>> /\ c = Space
    BY <1>1
  <1>2. CASE ~(u = <<>> /\ c = Space) /\ Bad(u)
    BY <1>2, BadStays
  <1>3. CASE ~(u = <<>> /\ c = Space) /\ PaddedNone(u)
    <2>1. PICK w \in Seq(Chars) : \E i : Padded(u, w, i) /\ ~IsLooseAddress(w)
      BY <1>3 DEF PaddedNone
    <2>2. PICK i : Padded(u, w, i) /\ ~IsLooseAddress(w)
      BY <2>1
    <2>3. v = Append(u, c)
      BY <1>3
    <2>4. CASE c = Space
      <3>1. Padded(v, w, i)
        BY <2>2, <2>3, <2>4, PaddedGrows
      <3> QED BY <2>2, <3>1 DEF PaddedNone
    <2>5. CASE c # Space
      BY <2>2, <2>3, <2>5, PaddedBroken
    <2> QED BY <2>4, <2>5
  <1> QED BY <1>1, <1>2, <1>3

\* A dot.
LEMMA ParseDot ==
  ASSUME IInv, IInv', NEW u \in Seq(Chars), Parse(u), ReadDot, NEW v, v = Append(u, Dot)
  PROVE  Parse(v)'
  <1>1. PICK p : Scanned(u, p)
    BY DEF ReadDot, InLoop, Parse
  <1>2. Dot \in Chars /\ Dot # Space
    BY DEF Chars, Dot, Space
  <1>3. CASE digitNumber = 0
    <2> DEFINE m == Between(u, p[count], Len(u) + 1)
    <2>1. Len(m) = Len(u) - p[count] /\ Number(m) /\ Len(u) \in Nat /\ p[count] \in 0..Len(u)
      BY <1>1, ScannedIs
    <2> HIDE DEF m
    <2>2. p[count] = Len(u)
      BY <1>3, <2>1 DEF Number
    <2>3. Bad(v)
      BY <1>1, <1>2, <2>2, ScannedBad
    <2>4. pc' = "done" /\ family' = "false"
      BY <1>3 DEF ReadDot, Return
    <2> QED BY <2>3, <2>4 DEF Parse
  <1>4. CASE digitNumber # 0
    <2>1. \E q : Scanned(v, q)'
      BY <1>1, <1>4, DotScanned
    <2>2. pc' = "reading" /\ family' = "none"
      BY <1>4 DEF ReadDot, InLoop, Parse
    <2>3. v # <<>> /\ Unspaced(v)
      BY <1>2, AppendIs, EmptySeq DEF Unspaced
    <2> QED BY <2>1, <2>2, <2>3 DEF Parse
  <1> QED BY <1>3, <1>4

\* A digit.
LEMMA ParseDigit ==
  ASSUME IInv, IInv', NEW u \in Seq(Chars), Parse(u), NEW d \in Digits, ReadDigit(d),
         NEW v, v = Append(u, d)
  PROVE  Parse(v)'
  <1>1. PICK p : Scanned(u, p)
    BY DEF ReadDigit, InLoop, Parse
  <1>2. d \in Chars /\ d # Dot /\ d # Space
    BY DigitsAssumption DEF Chars, Dot, Space
  <1>3. s' \in 0..2559
    BY DEF IInv, TypeOK
  <1>4. CASE s' > 255 \/ (s' = 0 /\ hasZero)
    <2> DEFINE m == Between(u, p[count], Len(u) + 1)
    <2>1. m \in Seq(Chars) /\ Number(m)
      BY <1>1, ScannedIs
    <2> HIDE DEF m
    <2>2. ~IsLooseOctet(Append(m, d))
      BY <1>4, <2>1, NumberRefused
    <2>3. Bad(v)
      BY <1>1, <1>2, <2>2, ScannedBad DEF m
    <2>4. pc' = "done" /\ family' = "false"
      BY <1>4 DEF ReadDigit, Return
    <2> QED BY <2>3, <2>4 DEF Parse
  <1>5. CASE ~(s' > 255 \/ (s' = 0 /\ hasZero))
    <2>1. Scanned(v, p)'
      <3>1. s' <= 255 /\ ~(s' = 0 /\ hasZero)
        BY <1>3, <1>5
      <3> QED BY <1>1, <3>1, DigitScanned
    <2>2. pc' = "reading" /\ family' = "none"
      BY <1>5 DEF ReadDigit, InLoop, Parse
    <2>3. v # <<>> /\ Unspaced(v)
      BY <1>2, AppendIs, EmptySeq DEF Unspaced
    <2> QED BY <2>1, <2>2, <2>3 DEF Parse
  <1> QED BY <1>4, <1>5

\* A space behind something.
LEMMA ParseSpace ==
  ASSUME IInv, NEW u \in Seq(Chars), Parse(u), NEW v, v = Append(u, Space),
         ReadTrailing \/ TrailingSpace \/ (pc = "reading" /\ ReadOther(Space))
  PROVE  Parse(v)'
  <1>1. CASE pc = "reading"
    <2>1. PICK p : Scanned(u, p)
      BY <1>1 DEF Parse
    <2>2. u # <<>> /\ Unspaced(u)
      BY <1>1 DEF Parse
    <2>3. Padded(v, u, p[count])
      BY <2>1, <2>2, FirstSpace
    <2>4. count = 3 <=> IsLooseAddress(u)
      BY <2>1, LooseIff
    <2>5. CASE ReadTrailing
      <3>1. count = 3 /\ pc' = "trailing"
        BY <2>5 DEF ReadTrailing
      <3>2. PaddedLoose(v)
        BY <2>3, <2>4, <3>1 DEF PaddedLoose
      <3> QED BY <3>1, <3>2 DEF Parse
    <2>6. CASE ReadOther(Space)
      <3>1. count # 3 /\ pc' = "done" /\ family' = "false"
        BY <1>1, <2>6 DEF ReadOther, Return, Space, Other
      <3>2. PaddedNone(v)
        BY <2>3, <2>4, <3>1 DEF PaddedNone
      <3> QED BY <3>1, <3>2 DEF Parse
    <2> QED BY <1>1, <2>5, <2>6 DEF TrailingSpace
  <1>2. CASE pc # "reading"
    <2>1. pc = "trailing" /\ pc' = "trailing"
      BY <1>2 DEF ReadTrailing, TrailingSpace
    <2>2. PICK w \in Seq(Chars) : \E i : Padded(u, w, i) /\ IsLooseAddress(w)
      BY <2>1 DEF Parse, PaddedLoose
    <2>3. PICK i : Padded(u, w, i) /\ IsLooseAddress(w)
      BY <2>2
    <2>4. Padded(v, w, i)
      BY <2>3, PaddedGrows
    <2>5. PaddedLoose(v)
      BY <2>3, <2>4 DEF PaddedLoose
    <2> QED BY <2>1, <2>5 DEF Parse
  <1> QED BY <1>1, <1>2

\* A character that is refused, a space behind the first digit or dot apart.
LEMMA ParseOther ==
  ASSUME IInv, NEW u \in Seq(Chars), Parse(u), NEW c \in Chars, ReadOther(c),
         ~(pc = "reading" /\ c = Space), NEW v, v = Append(u, c)
  PROVE  Parse(v)'
  <1>1. pc' = "done" /\ family' = "false"
    BY DEF ReadOther, Return
  <1>2. Bad(v)
    <2>1. CASE pc = "trailing"
      <3>1. c # Space
        BY <2>1 DEF ReadOther, InLoop
      <3>2. PICK w \in Seq(Chars) : \E i : Padded(u, w, i) /\ IsLooseAddress(w)
        BY <2>1 DEF Parse, PaddedLoose
      <3>3. PICK i : Padded(u, w, i)
        BY <3>2
      <3> QED BY <3>1, <3>3, PaddedBroken
    <2>2. CASE pc # "trailing"
      <3>1. c = Other /\ \E p : Scanned(u, p)
        BY <2>2 DEF ReadOther, InLoop, Parse
      <3> QED BY <3>1, StrangerBad
    <2> QED BY <2>1, <2>2
  <1> QED BY <1>1, <1>2 DEF Parse

\* Any character.
LEMMA ParseGrows ==
  ASSUME IInv, IInv', NEW u \in Seq(Chars), Parse(u), NEW c \in Chars, Reads(c),
         NEW v, v = IF u = <<>> /\ c = Space THEN <<>> ELSE Append(u, c)
  PROVE  Parse(v)'
  <1>1. CASE c = Space /\ LeadingSpace
    <2>1. v = u /\ u = <<>> /\ UNCHANGED <<pc, s, count, digitNumber, hasZero, family>>
      BY <1>1 DEF LeadingSpace, Parse
    <2>2. \E p : Scanned(u, p)
      BY <1>1 DEF LeadingSpace, Parse
    <2>3. \E p : Scanned(v, p)'
      BY <2>1, <2>2 DEF Scanned, Number
    <2> QED BY <1>1, <2>1, <2>3 DEF LeadingSpace, Parse
  <1>2. CASE c = Dot /\ ReadDot
    <2>1. v = Append(u, Dot)
      BY <1>2 DEF Dot, Space
    <2> QED BY <1>2, <2>1, ParseDot
  <1>3. CASE c \in Digits /\ ReadDigit(c)
    <2>1. v = Append(u, c)
      BY <1>3, DigitsAssumption DEF Space
    <2> QED BY <1>3, <2>1, ParseDigit
  <1>4. CASE c = Space /\ (ReadTrailing \/ TrailingSpace \/ (pc = "reading" /\ ReadOther(c)))
    <2>1. u # <<>>
      <3>1. CASE pc = "reading"
        BY <3>1 DEF Parse
      <3>2. CASE pc # "reading"
        <4>1. PaddedLoose(u)
          BY <1>4, <3>2 DEF ReadTrailing, TrailingSpace, Parse
        <4> QED BY <4>1, PaddedUnpadded DEF PaddedLoose
      <3> QED BY <3>1, <3>2
    <2>2. v = Append(u, Space)
      BY <1>4, <2>1
    <2> QED BY <1>4, <2>2, ParseSpace
  <1>5. CASE ReadOther(c) /\ ~(pc = "reading" /\ c = Space)
    <2>1. c # Space
      BY <1>5 DEF ReadOther, InLoop, Space, Other
    <2>2. v = Append(u, c)
      BY <2>1
    <2> QED BY <1>5, <2>2, ParseOther
  <1>6. CASE Unread(c)
    <2>1. pc = "done" /\ family = "false" /\ pc' = "done" /\ family' = "false"
      BY <1>6 DEF Unread
    <2>2. Bad(u) \/ PaddedNone(u)
      BY <2>1 DEF Parse
    <2>3. Bad(v) \/ PaddedNone(v)
      BY <2>2, StaysRefused
    <2> QED BY <2>1, <2>3 DEF Parse
  <1> QED BY <1>1, <1>2, <1>3, <1>4, <1>5, <1>6 DEF Reads

\* The end of the text.
LEMMA ParseEnd ==
  ASSUME IInv, NEW u \in Seq(Chars), Parse(u), End
  PROVE  Parse(u)'
  <1>1. /\ pc # "done" /\ pc' = "done"
        /\ family' = IF pc = "trailing" THEN "true"
                     ELSE IF count = 3 THEN "AF_INET" ELSE "AF_INET6"
    BY DEF End, Return
  <1>2. CASE pc = "trailing"
    BY <1>1, <1>2 DEF Parse
  <1>3. CASE pc # "trailing"
    <2>1. PICK p : Scanned(u, p)
      BY <1>1, <1>3 DEF Parse, IInv, TypeOK
    <2>2. Unspaced(u)
      BY <1>1, <1>3 DEF Parse, IInv, TypeOK
    <2>3. count = 3 <=> IsLooseAddress(u)
      BY <2>1, LooseIff
    <2> QED BY <1>1, <1>3, <2>2, <2>3 DEF Parse
  <1> QED BY <1>2, <1>3

\* Each character, and the end, leads from good states to good states.
LEMMA ParseStep == PInv /\ [Next]_vars => PInv'
  <1> SUFFICES ASSUME PInv, [Next]_vars PROVE PInv'
    OBVIOUS
  <1>1. IInv /\ IInv'
    BY Step DEF PInv
  <1>2. PICK n : Indented(text, n) /\ Parse(Between(text, n, Len(text) + 1))
    BY DEF PInv
  <1>3. text \in Seq(Chars)
    BY <1>1 DEF IInv, TypeOK
  <1>4. PICK t, u : t = text /\ u = Between(text, n, Len(text) + 1)
    OBVIOUS
  <1>5. t \in Seq(Chars) /\ Indented(t, n) /\ u = Between(t, n, Len(t) + 1) /\ Parse(u)
    BY <1>2, <1>3, <1>4
  <1>6. u \in Seq(Chars)
    <2>1. Space \in Chars
      BY DEF Chars
    <2> QED BY <1>5, <2>1, TextGrows
  <1>7. ASSUME NEW c \in Chars, Reads(c)
        PROVE  PInv'
    <2>1. text' = Append(t, c)
      BY <1>4, <1>7 DEF Reads, LeadingSpace, ReadTrailing, TrailingSpace, ReadDot, ReadDigit,
                        ReadOther, Unread, Take
    <2>2. PICK k :
            /\ Indented(Append(t, c), k)
            /\ LET v == Between(Append(t, c), k, Len(Append(t, c)) + 1) IN
               IF u = <<>> /\ c = Space THEN v = <<>> ELSE v = Append(u, c)
      BY <1>5, TextGrows
    <2>3. PICK v : v = Between(Append(t, c), k, Len(Append(t, c)) + 1)
      OBVIOUS
    <2>4. v = IF u = <<>> /\ c = Space THEN <<>> ELSE Append(u, c)
      BY <2>2, <2>3, Zenon
    <2>5. Parse(v)'
      BY <1>1, <1>5, <1>6, <1>7, <2>4, ParseGrows
    <2>6. Indented(text', k) /\ Between(text', k, Len(text') + 1) = v
      BY <2>1, <2>2, <2>3
    <2> QED BY <1>1, <2>5, <2>6 DEF PInv, Parse, Scanned, Number
  <1>8. CASE End
    <2>1. Parse(u)'
      BY <1>1, <1>5, <1>6, <1>8, ParseEnd
    <2>2. Indented(text', n) /\ Between(text', n, Len(text') + 1) = u
      BY <1>4, <1>5, <1>8 DEF End
    <2> QED BY <1>1, <2>1, <2>2 DEF PInv, Parse, Scanned, Number
  <1>9. CASE UNCHANGED vars
    <2>1. Parse(u)'
      BY <1>5, <1>9 DEF vars, Parse, Scanned, Number
    <2>2. Indented(text', n) /\ Between(text', n, Len(text') + 1) = u
      BY <1>4, <1>5, <1>9 DEF vars
    <2> QED BY <1>1, <2>1, <2>2 DEF PInv, Parse, Scanned, Number
  <1>10. ASSUME Next PROVE End \/ \E c \in Chars : Reads(c)
    BY <1>10 DEF Next, Reads, Chars
  <1> QED BY <1>7, <1>8, <1>9, <1>10

-----------------------------------------------------------------------------
\* What the loops have found out holds of every text.
THEOREM ParseInvariant == Spec => []PInv
  <1>1. Init => PInv
    <2> SUFFICES ASSUME Init PROVE PInv
      OBVIOUS
    <2>1. IInv
      BY InitStep
    <2>2. text = <<>> /\ text \in Seq(Chars) /\ Len(text) = 0
      BY DEF Init
    <2>3. Indented(text, 0)
      BY <2>2 DEF Indented
    <2> DEFINE u == Between(text, 0, Len(text) + 1)
    <2>4. u = <<>> /\ Len(u) = 0 /\ DOMAIN u = {} /\ u \in Seq(Chars)
      <3>1. u = SubSeq(text, 1, 0)
        BY <2>2 DEF Between
      <3> QED BY <2>2, <3>1
    <2> HIDE DEF u
    <2>5. Scanned(u, [n \in 0..0 |-> 0])
      <3> DEFINE p == [n \in 0..0 |-> 0]
                 m == Between(u, p[count], Len(u) + 1)
      <3>1. count = 0 /\ p[0] = 0 /\ p \in [0..0 -> 0..Len(u)] /\ 0..0 = {0}
        BY <2>4 DEF Init
      <3>2. m = <<>> /\ Len(m) = 0 /\ DOMAIN m = {} /\ m \in Seq(Chars)
        <4>1. m = SubSeq(u, 1, 0)
          BY <2>4, <3>1 DEF Between
        <4> QED BY <2>4, <4>1
      <3>3. Value(m) = 0
        BY <3>2, ValueEmpty
      <3>4. Number(m)
        BY <3>2, <3>3 DEF Init, Number
      <3>5. DotsAt(u) = {}
        BY <2>4 DEF DotsAt
      <3> HIDE DEF p
      <3>6. Scanned(u, p)
        BY <3>1, <3>4, <3>5 DEF Scanned
      <3> QED BY <3>6 DEF p
    <2>6. Parse(u)
      BY <2>4, <2>5 DEF Init, Parse, Unspaced
    <2> QED BY <2>1, <2>3, <2>6 DEF PInv, u
  <1> QED BY <1>1, ParseStep, PTL DEF Spec

\* A legal text is a loose address, the spaces at its ends apart.
LEMMA LegalIsLoose ==
  ASSUME NEW t, IsAddress(t)
  PROVE  IsLooseAddress(t)
  <1>1. \A m : IsOctet(m) => IsLooseOctet(m)
    <2> SUFFICES ASSUME NEW m, IsOctet(m) PROVE IsLooseOctet(m)
      OBVIOUS
    <2>1. Len(m) \in 1..4 /\ (Len(m) > 1 => m[1] # 0 \/ m[2] # 0)
      BY DEF IsOctet
    <2> QED BY <2>1 DEF IsOctet, IsLooseOctet
  <1> QED BY <1>1, Zenon DEF IsAddress, IsLooseAddress

\* Every legal text is accepted; what is accepted is, the spaces at its ends apart, a
\* loose address; and the answer is the family unless there are spaces at the end.
THEOREM RulesAlwaysKept == Spec => []RulesKept
  <1>1. PInv => RulesKept
    <2> SUFFICES ASSUME PInv, pc = "done"
                 PROVE  /\ IsLegal(text) => Accepted
                        /\ Accepted <=> IsLooseAddress(Trimmed(text))
                        /\ Accepted => (family = "AF_INET" <=> text[Len(text)] # Space)
      BY DEF RulesKept
    <2>1. text \in Seq(Chars)
      BY DEF PInv, IInv, TypeOK
    <2>2. PICK n : Indented(text, n) /\ Parse(Between(text, n, Len(text) + 1))
      BY DEF PInv
    <2>3. PICK u : u = Between(text, n, Len(text) + 1)
      OBVIOUS
    <2>4. u = Unindented(text)
      BY <2>1, <2>2, <2>3, IndentedOnce
    <2>5. u \in Seq(Chars) /\ (u # <<>> => u[Len(u)] = text[Len(text)])
      BY <2>1, <2>2, <2>3, LastIs
    <2>6. Parse(u)
      BY <2>2, <2>3
    <2>7. Trimmed(text) = Unpadded(u)
      BY <2>4 DEF Trimmed
    <2>8. CASE family = "false"
      <3>1. Bad(u) \/ PaddedNone(u)
        BY <2>6, <2>8 DEF Parse
      <3>2. ~IsLooseAddress(Unpadded(u))
        BY <2>5, <3>1, BadUnpadded, PaddedUnpadded DEF PaddedNone
      <3> QED BY <2>7, <2>8, <3>2, LegalIsLoose DEF Accepted, IsLegal
    <2>9. CASE family = "true"
      <3>1. PaddedLoose(u)
        BY <2>6, <2>9 DEF Parse
      <3>2. IsLooseAddress(Unpadded(u)) /\ u # <<>> /\ u[Len(u)] = Space
        BY <2>5, <3>1, PaddedUnpadded DEF PaddedLoose
      <3> QED BY <2>5, <2>7, <2>9, <3>2 DEF Accepted
    <2>10. CASE family = "AF_INET"
      <3>1. IsLooseAddress(u) /\ Unspaced(u)
        BY <2>6, <2>10 DEF Parse
      <3>2. Unpadded(u) = u
        BY <2>5, <3>1, UnspacedUnpadded
      <3>3. u # <<>>
        BY <3>1 DEF IsLooseAddress, DotsAt
      <3> QED BY <2>5, <2>7, <2>10, <3>1, <3>2, <3>3 DEF Accepted, Unspaced
    <2>11. CASE family = "AF_INET6"
      <3>1. ~IsLooseAddress(u) /\ Unspaced(u)
        BY <2>6, <2>11 DEF Parse
      <3>2. Unpadded(u) = u
        BY <2>5, <3>1, UnspacedUnpadded
      <3> QED BY <2>7, <2>11, <3>1, <3>2, LegalIsLoose DEF Accepted, IsLegal
    <2> QED BY <2>6, <2>8, <2>9, <2>10, <2>11 DEF Parse
  <1> QED BY <1>1, ParseInvariant, PTL

=============================================================================
