------------------------------ MODULE IpFamily ------------------------------
(***************************************************************************)
(* PortManager::GetFamily, which reads the text of an address character by *)
(* character and answers AF_INET, AF_INET6 or false, and                   *)
(* PortManager::NormalizeIp, which acts on the answer.  The text is not    *)
(* known in advance: each action takes one more character, and End finds   *)
(* the terminating zero.                                                   *)
(*                                                                         *)
(* A character is a number: 0 to 9 for a digit, and one value for each of  *)
(* the other characters the code tells apart.                              *)
(***************************************************************************)
EXTENDS Integers, Sequences

CONSTANTS
  Digits,    \* the digits the texts are made of
  MaxLen,    \* a bound on the length of a text
  ShortSize  \* the number of values of an unsigned short, 65536

Dot   == -1
Space == -2
Other == -3

Chars == Digits \cup {Dot, Space, Other}

\* Texts are too short for count to wrap around (and come back to 3), and the
\* largest number before it is refused, 2559, fits.
ASSUME DigitsAssumption == Digits \subseteq 0..9
ASSUME SizeAssumption ==
  /\ MaxLen \in Nat /\ ShortSize \in Nat
  /\ MaxLen < ShortSize /\ 2560 <= ShortSize

VARIABLES
  text,     \* history: the characters read so far
  pc,       \* "leading", "reading", "trailing" (the loops), "done"
  s, count, digitNumber, hasZero,
  family    \* what GetFamily returned: "none" yet, "false", "true", "AF_INET", "AF_INET6"

vars == <<text, pc, s, count, digitNumber, hasZero, family>>

-----------------------------------------------------------------------------
Init ==
  /\ text = <<>> /\ pc = "leading" /\ family = "none"
  /\ s = 0 /\ count = 0 /\ digitNumber = 0 /\ hasZero = FALSE

Take(c) == Len(text) < MaxLen /\ text' = Append(text, c)

Return(f) == pc' = "done" /\ family' = f

\* Spaces in front are skipped.
LeadingSpace ==
  /\ pc = "leading" /\ Take(Space)
  /\ UNCHANGED <<pc, s, count, digitNumber, hasZero, family>>

InLoop == pc \in {"leading", "reading"}

\* Mistake: the zero seen in one number still counts in the next.
ReadDotKeepsZero ==
  /\ InLoop /\ Take(Dot)
  /\ IF digitNumber = 0
     THEN Return("false") /\ UNCHANGED <<s, count, digitNumber, hasZero>>
     ELSE /\ s' = 0 /\ digitNumber' = 0 /\ count' = (count + 1) % ShortSize
          /\ pc' = "reading"
          /\ UNCHANGED <<hasZero, family>>

\* A dot ends a number, which must have a digit.
ReadDot ==
  /\ InLoop /\ Take(Dot)
  /\ IF digitNumber = 0
     THEN Return("false") /\ UNCHANGED <<s, count, digitNumber, hasZero>>
     ELSE /\ s' = 0 /\ digitNumber' = 0 /\ hasZero' = FALSE
          /\ count' = (count + 1) % ShortSize
          /\ pc' = "reading"
          /\ UNCHANGED family

\* Mistake: a number that has grown too large is not refused at once.
ReadDigitUnbounded(d) ==
  /\ InLoop /\ Take(d)
  /\ s' = (s * 10 + d) % ShortSize
  /\ IF s' = 0 /\ hasZero
     THEN Return("false") /\ UNCHANGED <<count, digitNumber, hasZero>>
     ELSE /\ hasZero' = (hasZero \/ s' = 0)
          /\ digitNumber' = (digitNumber + 1) % ShortSize
          /\ pc' = "reading"
          /\ UNCHANGED <<count, family>>

\* A digit: the number may be 0 only once, and at most 255.
ReadDigit(d) ==
  /\ InLoop /\ Take(d)
  /\ s' = (s * 10 + d) % ShortSize
  /\ hasZero' = (hasZero \/ s' = 0)
  /\ IF s' > 255 \/ (s' = 0 /\ hasZero)
     THEN Return("false") /\ UNCHANGED <<count, digitNumber>>
     ELSE /\ digitNumber' = (digitNumber + 1) % ShortSize
          /\ pc' = "reading"
          /\ UNCHANGED <<count, family>>

\* A space after three dots: only spaces may follow.
ReadTrailing ==
  /\ pc = "reading" /\ count = 3 /\ Take(Space)
  /\ pc' = "trailing"
  /\ UNCHANGED <<s, count, digitNumber, hasZero, family>>

TrailingSpace ==
  /\ pc = "trailing" /\ Take(Space)
  /\ UNCHANGED <<pc, s, count, digitNumber, hasZero, family>>

\* Any other character is refused.
ReadOther(c) ==
  /\ \/ InLoop /\ c = Other
     \/ pc = "reading" /\ count # 3 /\ c = Space
     \/ pc = "trailing" /\ c # Space
  /\ Take(c) /\ Return("false")
  /\ UNCHANGED <<s, count, digitNumber, hasZero>>

\* The end of the text: behind trailing spaces the function returns true, which
\* is no family at all; otherwise the number of dots decides.
End ==
  /\ pc # "done"
  /\ Return(IF pc = "trailing" THEN "true" ELSE IF count = 3 THEN "AF_INET" ELSE "AF_INET6")
  /\ UNCHANGED <<text, s, count, digitNumber, hasZero>>

\* What follows the character that made GetFamily return is never looked at.
Unread(c) ==
  /\ pc = "done" /\ family = "false" /\ Take(c)
  /\ UNCHANGED <<pc, s, count, digitNumber, hasZero, family>>

Next ==
  \/ LeadingSpace \/ ReadDot \/ (\E d \in Digits : ReadDigit(d))
  \/ ReadTrailing \/ TrailingSpace \/ (\E c \in Chars : ReadOther(c))
  \/ End \/ (\E c \in Chars : Unread(c))

Spec == Init /\ [][Next]_vars

-----------------------------------------------------------------------------
\* What an address is, and what the code takes for one.

\* The number that up to four digits make.
Value(t) ==
  LET digit(k) == IF k < Len(t) THEN t[Len(t) - k] ELSE 0
  IN  digit(0) + 10 * digit(1) + 100 * digit(2) + 1000 * digit(3)

\* A number from 0 to 255 without superfluous zeros.
IsOctet(t) ==
  /\ Len(t) \in 1..3 /\ \A i \in DOMAIN t : t[i] \in Digits
  /\ Len(t) > 1 => t[1] # 0
  /\ Value(t) <= 255

\* The same with up to one zero in front.
IsLooseOctet(t) ==
  /\ Len(t) \in 1..4 /\ \A i \in DOMAIN t : t[i] \in Digits
  /\ Len(t) > 1 => t[1] # 0 \/ t[2] # 0
  /\ Value(t) <= 255

DotsAt(t) == {i \in DOMAIN t : t[i] = Dot}

Between(t, i, j) == SubSeq(t, i + 1, j - 1)

\* Four octets between dots.  It is all that libuv (inet_pton) reads: a space is
\* too much for it, at the ends of the text as anywhere else.
IsAddress(t) ==
  \E i, j, k \in DotsAt(t) :
    /\ i < j /\ j < k /\ DotsAt(t) = {i, j, k}
    /\ IsOctet(Between(t, 0, i)) /\ IsOctet(Between(t, i, j))
    /\ IsOctet(Between(t, j, k)) /\ IsOctet(Between(t, k, Len(t) + 1))

\* Four loose octets, the last of which may even be missing.
IsLooseAddress(t) ==
  \E i, j, k \in DotsAt(t) :
    /\ i < j /\ j < k /\ DotsAt(t) = {i, j, k}
    /\ IsLooseOctet(Between(t, 0, i)) /\ IsLooseOctet(Between(t, i, j))
    /\ IsLooseOctet(Between(t, j, k))
    /\ k = Len(t) \/ IsLooseOctet(Between(t, k, Len(t) + 1))

\* Without the spaces in front.
Unindented(t) ==
  LET first == CHOOSE n \in 0..Len(t) :
                 /\ \A i \in 1..n : t[i] = Space
                 /\ n = Len(t) \/ t[n + 1] # Space
  IN  SubSeq(t, first + 1, Len(t))

\* Without the spaces behind.
Unpadded(t) ==
  LET last == CHOOSE n \in 0..Len(t) :
                /\ \A i \in n + 1..Len(t) : t[i] = Space
                /\ n = 0 \/ t[n] # Space
  IN  SubSeq(t, 1, last)

Trimmed(t) == Unpadded(Unindented(t))

\* What the comment over GetFamily (PortManager.cpp:515-526) calls a legal IP: four
\* numbers with dots (rule 1), with spaces at both ends if need be (2) but none in
\* between (3), no zero in front (4), 0.0.0.0 included (5).
IsLegal(t) == IsAddress(Trimmed(t))

\* What NormalizeIp makes of the answer: any family other than the two throws,
\* and a text that libuv (inet_pton) cannot read aborts the program.  A text
\* GetFamily takes for AF_INET6 has no colon.
Normalized ==
  IF family \in {"false", "true"} THEN "throws"
  ELSE IF family = "AF_INET" /\ IsAddress(text) THEN "ok"
  ELSE "aborts"

-----------------------------------------------------------------------------
\* Properties.

\* Types and, for the unsigned shorts, that nothing is ever cut off: a number is
\* refused as soon as it passes 255.
TypeOK ==
  /\ text \in Seq(Chars)
  /\ pc \in {"leading", "reading", "trailing", "done"}
  /\ s \in 0..2559 /\ (pc # "done" => s <= 255)
  /\ count \in 0..MaxLen /\ digitNumber \in 0..4
  /\ hasZero \in BOOLEAN
  /\ family \in {"none", "false", "true", "AF_INET", "AF_INET6"}

\* The two answers that say that the text is an IPv4 address: a caller that asks
\* yes or no, as the samples under the function do, cannot tell them apart.
Accepted == family \in {"AF_INET", "true"}

\* What the rules in the comment over GetFamily (PortManager.cpp:515-526) amount to
\* in the code.  Every legal text is accepted.  What else is accepted departs from
\* the rules in two ways only: a number has a zero in front, against rule 4, or the
\* last number is missing, against rule 1.  And with a space at the end, which
\* rule 2 allows, the answer is never the family, although it is accepted.
RulesKept ==
  pc = "done" =>
    /\ IsLegal(text) => Accepted
    /\ Accepted <=> IsLooseAddress(Trimmed(text))
    /\ Accepted => (family = "AF_INET" <=> text[Len(text)] # Space)

\* "First normalize the IP. This may throw if invalid IP." (PortManager.cpp:33
\* and 343): a text that is no legal address throws, it does not end the program.
InvalidThrows ==
  family # "none" /\ ~IsLegal(text) => Normalized = "throws"
=============================================================================
