------------------------ MODULE TcpConnection_proofs ------------------------
(***************************************************************************)
(* Proofs about TcpConnection, for all writes, buffers and lengths.        *)
(***************************************************************************)
EXTENDS TcpConnection, SequenceTheorems, TLAPS

Events == {"true", "false", "freed"}

-----------------------------------------------------------------------------
\* The inductive invariant, beside TypeOK.

\* The life of the object and of its handle.  As long as the application keeps
\* to Close in failure callbacks, at most one call is ever unfinished, and its
\* object is still there.
Life ==
  /\ ~fault
  /\ data <=> ~closed
  /\ mem = "deleted" => closed
  /\ mem = "live" => notified = 0
  /\ notified <= 1
  /\ handle = "raw" => ~closed /\ ~reading /\ frames = <<>> /\ completed = <<>>
  /\ ~closed => handle \in {"raw", "open"} /\ shutting = "none"
  /\ closed /\ handle = "open" => shutting = "requested"
  /\ handle \in {"closing", "freed"} => shutting # "requested"
  /\ handle = "freed" => completed = <<>>
  /\ reading => ~closed /\ handle = "open"
  /\ frames # <<>> => Len(frames) = 1 /\ mem = "live"
  /\ (isClosedByPeer \/ hasError) /\ frames = <<>> => mem = "deleted"

\* The write queue: every request ends within the bytes given to uv_write, the
\* ends are in order, and on a sound open stream the last request ends with the
\* last byte.
StreamLen == Len(wire) + Len(backlog)

Backlog ==
  /\ wire \o backlog = accepted
  /\ \A i \in DOMAIN queue : queue[i].end \in Len(wire) + 1 .. StreamLen
  /\ \A i, j \in DOMAIN queue : i < j => queue[i].end < queue[j].end
  /\ sock = "ok" /\ handle \in {"raw", "open"} =>
       IF queue = <<>> THEN backlog = <<>> ELSE queue[Len(queue)].end = StreamLen

IInv == TypeOK /\ Life /\ Backlog

-----------------------------------------------------------------------------
\* Lemmas about the helpers.

\* The bytes of a write are bytes.
LEMMA DataType ==
  \A w \in Writes, from \in 0..MaxLen, n \in 0..MaxLen :
    /\ Data(w, from, n) \in Seq(Byte) /\ Len(Data(w, from, n)) = n
    /\ \A k \in 1..n : Data(w, from, n)[k][1] = w
  <1> TAKE w \in Writes, from \in 0..MaxLen, n \in 0..MaxLen
  <1>1. \A k \in 1..n : <<w, from + k>> \in Byte
    BY LengthAssumption DEF Byte
  <1> QED BY <1>1, LengthAssumption DEF Data

\* What happens to a callback is a sequence of such events.
LEMMA EventSeqs ==
  /\ <<"freed">> \in Seq(Events) /\ <<"false">> \in Seq(Events)
  /\ <<"true", "freed">> \in Seq(Events) /\ <<"false", "freed">> \in Seq(Events)
  BY DEF Events

\* Recording events of a callback keeps the log a log.
LEMMA LogType ==
  ASSUME cbLog \in [Writes -> Seq(Events)], NEW w \in Writes,
         NEW events \in Seq(Events), Log(w, events)
  PROVE  cbLog' \in [Writes -> Seq(Events)]
  BY DEF Log

\* The two parts a sequence is cut into after n elements.
LEMMA SplitParts ==
  ASSUME NEW S, NEW s \in Seq(S), NEW n \in 0..Len(s)
  PROVE  /\ SubSeq(s, 1, n) \in Seq(S) /\ Len(SubSeq(s, 1, n)) = n
         /\ SubSeq(s, n + 1, Len(s)) \in Seq(S)
         /\ Len(SubSeq(s, n + 1, Len(s))) = Len(s) - n
         /\ \A i \in 1..Len(s) - n : SubSeq(s, n + 1, Len(s))[i] = s[n + i]
  <1>1. Len(s) \in Nat /\ n \in Int /\ \A i \in 1..Len(s) : s[i] \in S
    OBVIOUS
  <1>2. /\ SubSeq(s, 1, n) \in Seq(S)
        /\ Len(SubSeq(s, 1, n)) = IF 1 <= n THEN n - 1 + 1 ELSE 0
    BY <1>1, SubSeqProperties
  <1>3. /\ SubSeq(s, n + 1, Len(s)) \in Seq(S)
        /\ Len(SubSeq(s, n + 1, Len(s))) = IF n + 1 <= Len(s) THEN Len(s) - (n + 1) + 1 ELSE 0
        /\ \A i \in 1..Len(s) - (n + 1) + 1 :
             SubSeq(s, n + 1, Len(s))[i] = s[n + 1 + i - 1]
    <2>1. \A i \in n + 1 .. Len(s) : s[i] \in S
      BY <1>1
    <2>2. n + 1 \in Int /\ Len(s) \in Int
      BY <1>1
    <2> QED BY <2>1, <2>2, SubSeqProperties
  <1> QED BY <1>1, <1>2, <1>3

\* They make it up again.
LEMMA SplitJoins ==
  ASSUME NEW S, NEW s \in Seq(S), NEW n \in 0..Len(s)
  PROVE  SubSeq(s, 1, n) \o SubSeq(s, n + 1, Len(s)) = s
  <1>1. /\ Len(s) \in Nat
        /\ 1 \in 1..Len(s) + 1 /\ n \in 1 - 1 .. Len(s) /\ Len(s) \in n..Len(s)
    OBVIOUS
  <1>2. SubSeq(s, 1, n) \o SubSeq(s, n + 1, Len(s)) = SubSeq(s, 1, Len(s))
    BY <1>1, ConcatAdjacentSubSeq
  <1> QED BY <1>2, SubSeqFull

\* Results of uv_try_write that hand the write over to uv_write.
Partial(d) == {EAGAIN} \cup 1..Len(d)

\* The bytes such a result has put on the wire.
Taken(d, r) == IF r = EAGAIN THEN <<>> ELSE SubSeq(d, 1, r)

\* What is left of one buffer, or of two, continues what uv_try_write took.
LEMMA PendingCompletes ==
  ASSUME NEW d \in Seq(Byte), NEW r \in Partial(d)
  PROVE  /\ Pending(d, r) \in Seq(Byte)
         /\ Taken(d, r) \in Seq(Byte)
         /\ Taken(d, r) \o Pending(d, r) = d
  <1>1. CASE r = EAGAIN
    <2>1. SubSeq(d, 1, Len(d)) = d
      BY SubSeqFull
    <2> QED BY <1>1, <2>1, ConcatEmptySeq DEF Pending, Taken
  <1>2. CASE r # EAGAIN
    <2>1. r \in 0..Len(d)
      BY <1>2 DEF Partial
    <2> QED BY <1>2, <2>1, SplitParts, SplitJoins DEF Pending, Taken
  <1> QED BY <1>1, <1>2

\* The splice: cutting two buffers is cutting their concatenation.
LEMMA SpliceIsPending ==
  ASSUME NEW d1 \in Seq(Byte), NEW d2 \in Seq(Byte), NEW r \in Partial(d1 \o d2)
  PROVE  PendingOfTwo(d1, d2, r) = Pending(d1 \o d2, r)
  <1> DEFINE written == IF r = EAGAIN THEN 0 ELSE r
             d == d1 \o d2
             rest == SubSeq(d, written + 1, Len(d))
  <1>1. /\ d \in Seq(Byte) /\ Len(d) = Len(d1) + Len(d2)
        /\ Len(d1) \in Nat /\ Len(d2) \in Nat
        /\ \A i \in 1..Len(d) : d[i] = IF i <= Len(d1) THEN d1[i] ELSE d2[i - Len(d1)]
    BY ConcatProperties
  <1>2. written \in 0..Len(d)
    BY <1>1 DEF EAGAIN, Partial
  <1>3. /\ rest \in Seq(Byte) /\ Len(rest) = Len(d) - written
        /\ \A i \in 1..Len(d) - written : rest[i] = d[written + i]
    <2> HIDE DEF d, written
    <2> QED BY <1>1, <1>2, SplitParts
  <1>4. CASE written < Len(d1)
    <2> DEFINE head == SubSeq(d1, written + 1, Len(d1))
    <2>1. head \in Seq(Byte) /\ Len(head) = Len(d1) - written
          /\ \A i \in 1..Len(d1) - written : head[i] = d1[written + i]
      <3> HIDE DEF written, d
      <3>1. written \in 0..Len(d1)
        BY <1>1, <1>2, <1>4
      <3> QED BY <3>1, SplitParts
    <2>2. /\ head \o d2 \in Seq(Byte) /\ Len(head \o d2) = Len(head) + Len(d2)
          /\ \A i \in 1..Len(head) + Len(d2) :
               (head \o d2)[i] = IF i <= Len(head) THEN head[i] ELSE d2[i - Len(head)]
      <3> HIDE DEF head
      <3> QED BY <2>1, ConcatProperties
    <2> DEFINE spliced == head \o d2
    <2>3. spliced = rest
      <3> HIDE DEF head, d, rest, written
      <3>1. Len(rest) = Len(head \o d2) /\ Len(rest) \in Nat
        BY <1>1, <1>2, <1>3, <1>4, <2>1, <2>2
      <3>2. \A i \in 1..Len(rest) : rest[i] = (head \o d2)[i]
        BY <1>1, <1>2, <1>3, <1>4, <2>1, <2>2, SMTT(20)
      <3> HIDE DEF spliced
      <3>3. spliced \in Seq(Byte) /\ Len(rest) = Len(spliced)
            /\ \A i \in 1..Len(rest) : rest[i] = spliced[i]
        BY <2>2, <3>1, <3>2 DEF spliced
      <3> QED BY <1>3, <3>3, SeqEqual
    <2> QED BY <1>4, <2>3 DEF PendingOfTwo, Pending
  <1>5. CASE ~(written < Len(d1))
    <2> DEFINE k == written - Len(d1)
               tail == SubSeq(d2, k + 1, Len(d2))
    <2>0. k \in 0..Len(d2)
      <3> HIDE DEF written, d
      <3> QED BY <1>1, <1>2, <1>5
    <2>1. tail \in Seq(Byte) /\ Len(tail) = Len(d2) - k
          /\ \A i \in 1..Len(d2) - k : tail[i] = d2[k + i]
      <3> HIDE DEF k
      <3> QED BY <2>0, SplitParts
    <2>2. tail = rest
      <3> HIDE DEF tail, d, rest, written
      <3>1. written = k + Len(d1) /\ k \in Nat
        BY <1>1, <1>2, <2>0
      <3> HIDE DEF k
      <3>2. Len(rest) = Len(d2) - k /\ Len(tail) = Len(d2) - k
        BY <1>1, <1>3, <2>1, <3>1
      <3>3. ASSUME NEW i \in 1..Len(d2) - k  PROVE  rest[i] = tail[i]
        <4>1. rest[i] = d[written + i] /\ tail[i] = d2[k + i]
          BY <1>1, <1>3, <2>1, <3>1, <3>2
        <4>2. d[written + i] = d2[written + i - Len(d1)]
          BY <1>1, <2>0, <3>1
        <4>3. written + i - Len(d1) = k + i
          BY <1>1, <3>1
        <4> QED BY <4>1, <4>2, <4>3
      <3> QED BY <1>3, <2>1, <3>2, <3>3, SeqEqual
    <2> QED BY <1>5, <2>2 DEF PendingOfTwo, Pending
  <1> QED BY <1>4, <1>5

\* A write of the bytes d: what goes to uv_write is what uv_try_write left.
WriteOf(w, d) ==
  \/ WriteRefused(w, d)
  \/ WriteAll(w, d)
  \/ \E r \in Partial(d) \ {Len(d)} :
       r \in UvTryWrite(Len(d)) /\ WriteQueued(w, d, r, Pending(d, r))
  \/ WriteError(w, d)

\* Unless it fails, uv_try_write answers EAGAIN or how many bytes it took.
LEMMA TryWriteResults ==
  ASSUME NEW n \in Nat, NEW r \in UvTryWrite(n), r # TryError
  PROVE  r \in {EAGAIN} \cup 1..n
  BY DEF UvTryWrite, EAGAIN, TryError

\* All these bytes are bytes of the write w.
BytesOf(w, d) == \A k \in 1..Len(d) : d[k][1] = w

\* Both forms of Write are a write of some bytes, its own.
LEMMA WriteForm ==
  ASSUME NEW w \in Writes
  PROVE  /\ \A n \in 0..MaxLen : WriteOne(w, n) =>
              MayWrite(w) /\ \E d \in Seq(Byte) : BytesOf(w, d) /\ WriteOf(w, d)
         /\ \A n1, n2 \in 0..MaxLen : WriteTwo(w, n1, n2) =>
              MayWrite(w) /\ \E d \in Seq(Byte) : BytesOf(w, d) /\ WriteOf(w, d)
  <1>1. ASSUME NEW n \in 0..MaxLen, WriteOne(w, n)
        PROVE  MayWrite(w) /\ \E d \in Seq(Byte) : BytesOf(w, d) /\ WriteOf(w, d)
    <2> DEFINE d == Data(w, 0, n)
    <2>1. d \in Seq(Byte) /\ Len(d) = n /\ n \in Nat /\ BytesOf(w, d)
      <3>1. 0 \in 0..MaxLen /\ n \in Nat
        BY LengthAssumption
      <3>2. d \in Seq(Byte) /\ Len(d) = n /\ \A k \in 1..n : d[k][1] = w
        BY <3>1, DataType
      <3> QED BY <3>1, <3>2 DEF BytesOf
    <2>2. MayWrite(w) /\ \/ WriteRefused(w, d)
                         \/ WriteAll(w, d)
                         \/ \E r \in UvTryWrite(n) : WriteQueued(w, d, r, Pending(d, r))
                         \/ WriteError(w, d)
      BY <1>1 DEF WriteOne
    <2> HIDE DEF d
    <2>3. ASSUME NEW r \in UvTryWrite(n), WriteQueued(w, d, r, Pending(d, r))
          PROVE  r \in Partial(d) \ {Len(d)}
      BY <2>1, <2>3, TryWriteResults DEF WriteQueued, Partial
    <2> QED BY <2>1, <2>2, <2>3 DEF WriteOf
  <1>2. ASSUME NEW n1 \in 0..MaxLen, NEW n2 \in 0..MaxLen, WriteTwo(w, n1, n2)
        PROVE  MayWrite(w) /\ \E d \in Seq(Byte) : BytesOf(w, d) /\ WriteOf(w, d)
    <2> DEFINE d1 == Data(w, 0, n1)
               d2 == Data(w, n1, n2)
               d == d1 \o d2
    <2>1. /\ d1 \in Seq(Byte) /\ Len(d1) = n1 /\ d2 \in Seq(Byte) /\ Len(d2) = n2
          /\ \A k \in 1..n1 : d1[k][1] = w
          /\ \A k \in 1..n2 : d2[k][1] = w
      <3>1. 0 \in 0..MaxLen
        BY LengthAssumption
      <3>2. /\ Data(w, 0, n1) \in Seq(Byte) /\ Len(Data(w, 0, n1)) = n1
            /\ \A k \in 1..n1 : Data(w, 0, n1)[k][1] = w
        BY <3>1, DataType
      <3>3. /\ Data(w, n1, n2) \in Seq(Byte) /\ Len(Data(w, n1, n2)) = n2
            /\ \A k \in 1..n2 : Data(w, n1, n2)[k][1] = w
        BY DataType
      <3> QED BY <3>2, <3>3
    <2>2. d \in Seq(Byte) /\ Len(d) = n1 + n2 /\ n1 + n2 \in Nat /\ BytesOf(w, d)
      <3> HIDE DEF d1, d2
      <3>1. n1 \in Nat /\ n2 \in Nat
        BY LengthAssumption
      <3>2. /\ d1 \o d2 \in Seq(Byte) /\ Len(d1 \o d2) = Len(d1) + Len(d2)
            /\ \A k \in 1..Len(d1) + Len(d2) :
                 (d1 \o d2)[k] = IF k <= Len(d1) THEN d1[k] ELSE d2[k - Len(d1)]
        BY <2>1, ConcatProperties
      <3>3. \A k \in 1..n1 + n2 : (d1 \o d2)[k][1] = w
        BY <2>1, <3>1, <3>2
      <3> QED BY <2>1, <3>1, <3>2, <3>3 DEF BytesOf
    <2>3. MayWrite(w) /\ \/ WriteRefused(w, d)
                         \/ WriteAll(w, d)
                         \/ \E r \in UvTryWrite(n1 + n2) :
                              WriteQueued(w, d, r, PendingOfTwo(d1, d2, r))
                         \/ WriteError(w, d)
      BY <1>2 DEF WriteTwo
    <2>4. ASSUME NEW r \in UvTryWrite(n1 + n2),
                 WriteQueued(w, d, r, PendingOfTwo(d1, d2, r))
          PROVE  /\ r \in Partial(d) \ {Len(d)}
                 /\ PendingOfTwo(d1, d2, r) = Pending(d, r)
      <3> HIDE DEF d1, d2
      <3>1. r # TryError /\ r # Len(d)
        BY <2>4 DEF WriteQueued
      <3>2. r \in Partial(d)
        BY <2>2, <3>1, TryWriteResults DEF Partial
      <3> QED BY <2>1, <3>1, <3>2, SpliceIsPending
    <2> HIDE DEF d
    <2> QED BY <2>2, <2>3, <2>4 DEF WriteOf
  <1> QED BY <1>1, <1>2

-----------------------------------------------------------------------------
\* The type invariant.

\* Closing changes flags and the state of the handle, within their types.
LEMMA CloseType ==
  ASSUME TypeOK, NEW error \in BOOLEAN, NEW byPeer \in BOOLEAN, Close(error, byPeer)
  PROVE  /\ handle' \in {"raw", "open", "closing", "freed"}
         /\ reading' \in BOOLEAN /\ closed' \in BOOLEAN /\ data' \in BOOLEAN
         /\ shutting' \in {"none", "requested", "done"}
         /\ fault' \in BOOLEAN
  BY DEF TypeOK, Close, UvShutdown, UvClose

\* A write keeps the types.
LEMMA WriteType ==
  ASSUME TypeOK, NEW w \in Writes, NEW d \in Seq(Byte), WriteOf(w, d)
  PROVE  TypeOK'
  <1> USE DEF TypeOK, streamVars, objVars, recvVars, ioVars
  <1>2. cbLog \in [Writes -> Seq(Events)]
    BY DEF Events
  <1>3. CASE WriteRefused(w, d)
    <2>1. cbLog' \in [Writes -> Seq(Events)]
      BY <1>2, <1>3, EventSeqs, LogType DEF WriteRefused
    <2> QED BY <1>3, <2>1 DEF WriteRefused, Events
  <1>4. CASE WriteAll(w, d)
    <2>1. cbLog' \in [Writes -> Seq(Events)]
      BY <1>2, <1>4, EventSeqs, LogType DEF WriteAll
    <2> QED BY <1>4, <2>1 DEF WriteAll, Events
  <1>5. CASE \E r \in Partial(d) \ {Len(d)} :
               r \in UvTryWrite(Len(d)) /\ WriteQueued(w, d, r, Pending(d, r))
    <2>1. PICK r \in Partial(d) : WriteQueued(w, d, r, Pending(d, r))
      BY <1>5
    <2>2. Pending(d, r) \in Seq(Byte) /\ Taken(d, r) \in Seq(Byte)
      BY PendingCompletes
    <2>3. wire' = wire \o Taken(d, r) /\ UvWrite(w, Pending(d, r))
      BY <2>1 DEF WriteQueued, Taken
    <2>4. wire' \in Seq(Byte)
      BY <2>2, <2>3
    <2>5. queue' \in Seq([w : Writes, end : Nat]) /\ backlog' \in Seq(Byte)
          /\ fault' \in BOOLEAN
      BY <2>2, <2>3, <2>4 DEF UvWrite
    <2> QED BY <2>1, <2>2, <2>4, <2>5 DEF WriteQueued
  <1>6. CASE WriteError(w, d)
    <2>1. cbLog' \in [Writes -> Seq(Events)]
      BY <1>2, <1>6, EventSeqs, LogType DEF WriteError
    <2> QED BY <1>6, <2>1 DEF WriteError, Events
  <1> QED BY <1>3, <1>4, <1>5, <1>6 DEF WriteOf

\* The bytes of the oldest request are all in the backlog.
LEMMA HeadFits ==
  ASSUME TypeOK, Backlog, queue # <<>>, NEW n \in 1..(Head(queue).end - Len(wire))
  PROVE  n \in 0..Len(backlog)
  <1>1. Head(queue) = queue[1] /\ 1 \in DOMAIN queue
    BY DEF TypeOK
  <1>2. Head(queue).end \in Len(wire) + 1 .. Len(wire) + Len(backlog)
    BY <1>1 DEF Backlog, StreamLen
  <1> QED BY <1>2 DEF TypeOK

\* Every step keeps the types.
LEMMA TypeStep == TypeOK /\ Backlog /\ [Next]_vars => TypeOK'
  <1> SUFFICES ASSUME TypeOK, Backlog, [Next]_vars PROVE TypeOK'
    OBVIOUS
  <1> USE DEF TypeOK, streamVars, objVars, recvVars, ioVars, sendVars
  <1>0. cbLog \in [Writes -> Seq(Events)]
    BY DEF Events
  <1>1. CASE Setup
    BY <1>1 DEF Setup, UvOpen
  <1>2. CASE Start
    BY <1>2 DEF Start
  <1>3. CASE UserClose
    BY <1>3, CloseType DEF UserClose
  <1>4. CASE ErrorReceiving
    BY <1>4, CloseType DEF ErrorReceiving, NotifyListener
  <1>5. CASE Destroy
    BY <1>5, CloseType DEF Destroy
  <1>6. ASSUME NEW w \in Writes, NEW n \in 0..MaxLen, WriteOne(w, n) PROVE TypeOK'
    BY <1>6, WriteForm, WriteType
  <1>7. ASSUME NEW w \in Writes, NEW n1 \in 0..MaxLen, NEW n2 \in 0..MaxLen,
               WriteTwo(w, n1, n2)
        PROVE  TypeOK'
    BY <1>7, WriteForm, WriteType
  <1>8. CASE CbReturn
    <2> DEFINE w == frames[Len(frames)]
    <2>1. w \in Writes /\ frames' \in Seq(Writes)
      <3>1. Len(frames) \in 1..Len(frames) /\ Len(frames) - 1 \in Int
        BY <1>8 DEF CbReturn
      <3> QED BY <1>8, <3>1, SubSeqProperties DEF CbReturn
    <2>2. cbLog' \in [Writes -> Seq(Events)]
      BY <1>0, <1>8, <2>1, EventSeqs, LogType DEF CbReturn
    <2>3. CASE mem = "live"
      <3>1. Close(hasError, isClosedByPeer)
        BY <1>8, <2>3 DEF CbReturn
      <3>2. /\ handle' \in {"raw", "open", "closing", "freed"}
            /\ reading' \in BOOLEAN /\ closed' \in BOOLEAN /\ data' \in BOOLEAN
            /\ shutting' \in {"none", "requested", "done"}
            /\ fault' \in BOOLEAN
        BY <3>1, CloseType
      <3>3. notified' \in Nat /\ mem' \in {"live", "deleted"}
        BY <1>8, <2>3 DEF CbReturn, NotifyListener
      <3> QED BY <1>8, <2>1, <2>2, <3>2, <3>3 DEF CbReturn, Events
    <2>4. CASE mem # "live"
      BY <1>8, <2>1, <2>2, <2>4 DEF CbReturn, Events
    <2> QED BY <2>3, <2>4
  <1>9. CASE \E n \in 1..BufferSize : Consume(n)
    BY <1>9, LengthAssumption DEF Consume
  <1>10. CASE \E n \in 1..BufferSize : OnReadData(n)
    BY <1>10, LengthAssumption DEF OnReadData, Room
  <1>11. CASE OnReadByPeer \/ OnReadError
    <2>1. ASSUME NEW byPeer \in BOOLEAN, NEW error \in BOOLEAN, OnReadEnd(byPeer, error)
          PROVE  TypeOK'
      <3>1. CASE data /\ mem = "live"
        BY <2>1, <3>1, CloseType DEF OnReadEnd, NotifyListener
      <3>2. CASE ~(data /\ mem = "live")
        BY <2>1, <3>2 DEF OnReadEnd
      <3> QED BY <3>1, <3>2
    <2> QED BY <1>11, <2>1 DEF OnReadByPeer, OnReadError
  <1>12. CASE OnWrite
    <2>1. /\ Head(completed) \in [w : Writes, status : Statuses]
          /\ completed' \in Seq([w : Writes, status : Statuses])
      BY <1>12, HeadTailProperties DEF OnWrite
    <2> DEFINE c == Head(completed)
    <2>2. \/ Log(c.w, <<"freed">>) /\ UNCHANGED <<hasError, frames>>
          \/ Log(c.w, <<"true", "freed">>) /\ UNCHANGED <<hasError, frames>>
          \/ /\ hasError' \in BOOLEAN
             /\ Log(c.w, <<"false">>)
             /\ frames' = Append(frames, c.w)
      BY <1>12 DEF OnWrite
    <2>3. c.w \in Writes
      BY <2>1
    <2>4. cbLog' \in [Writes -> Seq(Events)]
      BY <1>0, <2>2, <2>3, EventSeqs, LogType
    <2>5. frames' \in Seq(Writes) /\ hasError' \in BOOLEAN
      <3> HIDE DEF c
      <3>1. frames \in Seq(Writes) /\ hasError \in BOOLEAN
        OBVIOUS
      <3>2. Append(frames, c.w) \in Seq(Writes)
        BY <2>3, <3>1, AppendProperties
      <3> QED BY <2>2, <3>1, <3>2
    <2> QED BY <1>12, <2>1, <2>4, <2>5, SMTT(20) DEF OnWrite, Events
  <1>13. CASE OnShutdown
    BY <1>13 DEF OnShutdown, ShutdownEnds
  <1>14. CASE OnClose
    BY <1>14 DEF OnClose
  <1>15. CASE Transmit
    <2>1. Head(queue) \in [w : Writes, end : Nat] /\ Tail(queue) \in Seq([w : Writes, end : Nat])
      BY <1>15, HeadTailProperties DEF Transmit, FlushHead, FailHead
    <2>2. ASSUME NEW s \in Statuses
          PROVE  Append(completed, [w |-> Head(queue).w, status |-> s])
                   \in Seq([w : Writes, status : Statuses])
      BY <2>1
    <2>3. CASE FlushHead
      <3>1. PICK n \in 1..(Head(queue).end - Len(wire)) :
              /\ wire' = wire \o SubSeq(backlog, 1, n)
              /\ backlog' = SubSeq(backlog, n + 1, Len(backlog))
        BY <2>3 DEF FlushHead
      <3>2. n \in 0..Len(backlog)
        BY <2>3, HeadFits DEF FlushHead
      <3>3. wire' \in Seq(Byte) /\ backlog' \in Seq(Byte)
        BY <3>1, <3>2, SplitParts, ConcatProperties
      <3> QED BY <1>15, <2>1, <2>2, <2>3, <3>3 DEF Transmit, FlushHead, Statuses
    <2>4. CASE FailHead
      BY <1>15, <2>1, <2>2, <2>4 DEF Transmit, FailHead, Statuses
    <2> QED BY <1>15, <2>3, <2>4 DEF Transmit
  <1>16. CASE Cancel
    <2> DEFINE cancelled ==
          [i \in DOMAIN queue |-> [w |-> queue[i].w, status |-> "ECANCELED"]]
    <2>1. cancelled \in Seq([w : Writes, status : Statuses])
      <3>1. \A i \in 1..Len(queue) : queue[i] \in [w : Writes, end : Nat]
        BY ElementOfSeq
      <3>2. \A i \in 1..Len(queue) :
              [w |-> queue[i].w, status |-> "ECANCELED"] \in [w : Writes, status : Statuses]
        BY <3>1 DEF Statuses
      <3>3. DOMAIN queue = 1..Len(queue) /\ Len(queue) \in Nat
        OBVIOUS
      <3> QED BY <3>2, <3>3
    <2>2. completed' = completed \o cancelled
      BY <1>16 DEF Cancel, CancelQueue
    <2>3. completed' \in Seq([w : Writes, status : Statuses])
      BY <2>1, <2>2, ConcatProperties
    <2> QED BY <1>16, <2>3 DEF Cancel, CancelQueue
  <1>17. CASE Reset
    BY <1>17 DEF Reset, Break
  <1>18. CASE UNCHANGED vars
    BY <1>18 DEF vars
  <1> QED
    BY <1>1, <1>2, <1>3, <1>4, <1>5, <1>6, <1>7, <1>8, <1>9, <1>10, <1>11,
       <1>12, <1>13, <1>14, <1>15, <1>16, <1>17, <1>18 DEF Next, AppNext, LoopNext

-----------------------------------------------------------------------------
\* The life of the object and its handle.

\* The object is closed, and libuv is closing its handle or will.
Closed ==
  /\ closed' /\ ~data' /\ ~reading' /\ ~fault'
  /\ handle' \in {"open", "closing", "freed"}
  /\ handle' = "open" => shutting' = "requested"
  /\ handle' \in {"closing", "freed"} => shutting' # "requested"
  /\ handle' = "freed" => handle = "freed"

\* Close leaves such an object behind, and asks nothing of libuv that libuv would
\* refuse.
LEMMA CloseLife ==
  ASSUME TypeOK, Life, handle # "raw",
         NEW error \in BOOLEAN, NEW byPeer \in BOOLEAN, Close(error, byPeer)
  PROVE  Closed
  BY DEF TypeOK, Life, Close, UvShutdown, UvClose, Writable, Closed

\* Close followed by telling the listener ends the life of the object.
LEMMA EndLife ==
  ASSUME TypeOK, Life, handle # "raw", mem = "live", frames' = <<>>,
         NEW error \in BOOLEAN, NEW byPeer \in BOOLEAN, Close(error, byPeer),
         NotifyListener, UNCHANGED completed
  PROVE  Life'
  <1>1. Closed
    BY CloseLife
  <1>2. notified' = 1 /\ mem' = "deleted"
    BY DEF NotifyListener, Life
  <1> QED BY <1>1, <1>2 DEF Closed, Life

\* A write neither closes nor deletes anything: at worst it leaves one failure
\* callback running.
LEMMA WriteLife ==
  ASSUME CbCalls \subseteq {"Close"}, TypeOK, Life,
         NEW w \in Writes, MayWrite(w), NEW d \in Seq(Byte), WriteOf(w, d)
  PROVE  Life'
  <1> USE DEF TypeOK, Life, streamVars, objVars, recvVars, ioVars
  <1>1. frames = <<>> /\ mem = "live" /\ (reading \/ closed)
    BY DEF MayWrite, MayCall
  <1>2. CASE WriteRefused(w, d)
    BY <1>2 DEF WriteRefused
  <1>3. CASE WriteAll(w, d)
    BY <1>1, <1>3 DEF WriteAll, Writable
  <1>4. ASSUME NEW r \in Partial(d), WriteQueued(w, d, r, Pending(d, r))
        PROVE  Life'
    BY <1>1, <1>4 DEF WriteQueued, UvWrite, Writable
  <1>5. CASE WriteError(w, d)
    <2>1. frames' = <<w>>
      BY <1>1, <1>5 DEF WriteError
    <2> QED BY <1>1, <1>5, <2>1 DEF WriteError, Writable
  <1> QED BY <1>2, <1>3, <1>4, <1>5 DEF WriteOf

\* Every step keeps the life of the object and the handle in order.
LEMMA LifeStep ==
  ASSUME CbCalls \subseteq {"Close"}
  PROVE  TypeOK /\ Life /\ [Next]_vars => Life'
  <1> SUFFICES ASSUME TypeOK, Life, [Next]_vars PROVE Life'
    OBVIOUS
  <1> USE DEF streamVars, objVars, recvVars, ioVars, sendVars
  <1>1. CASE Setup
    BY <1>1 DEF Setup, UvOpen, TypeOK, Life
  <1>2. CASE Start
    BY <1>2 DEF Start, TypeOK, Life
  <1>3. CASE UserClose
    <2>1. /\ Close(hasError, isClosedByPeer) /\ handle # "raw" /\ mem = "live"
          /\ UNCHANGED <<mem, isClosedByPeer, hasError, notified, frames, completed>>
      BY <1>3 DEF UserClose, MayCall
    <2>2. Closed
      BY <2>1, CloseLife DEF TypeOK
    <2> QED BY <2>1, <2>2 DEF Closed, TypeOK, Life
  <1>4. CASE ErrorReceiving
    <2>1. /\ Close(hasError, isClosedByPeer) /\ NotifyListener
          /\ handle # "raw" /\ mem = "live" /\ frames' = <<>> /\ UNCHANGED completed
      BY <1>4 DEF ErrorReceiving, MayCall
    <2> QED BY <2>1, EndLife DEF TypeOK
  <1>5. CASE Destroy
    <2>1. /\ Close(hasError, isClosedByPeer) /\ handle # "raw" /\ mem = "live"
          /\ mem' = "deleted" /\ frames = <<>> /\ UNCHANGED <<notified, frames, completed>>
      BY <1>5 DEF Destroy, MayCall
    <2>2. Closed
      BY <2>1, CloseLife DEF TypeOK
    <2> QED BY <2>1, <2>2 DEF Closed, TypeOK, Life
  <1>6. ASSUME NEW w \in Writes, NEW n \in 0..MaxLen, WriteOne(w, n) PROVE Life'
    BY <1>6, WriteForm, WriteLife
  <1>7. ASSUME NEW w \in Writes, NEW n1 \in 0..MaxLen, NEW n2 \in 0..MaxLen,
               WriteTwo(w, n1, n2)
        PROVE  Life'
    BY <1>7, WriteForm, WriteLife
  <1>8. CASE CbReturn
    <2>1. mem = "live" /\ Len(frames) = 1 /\ handle # "raw"
      BY <1>8 DEF CbReturn, Life
    <2>2. frames' = <<>>
      BY <1>8, <2>1 DEF CbReturn
    <2>3. Close(hasError, isClosedByPeer) /\ NotifyListener
      BY <1>8, <2>1 DEF CbReturn
    <2> QED BY <1>8, <2>1, <2>2, <2>3, EndLife DEF CbReturn, TypeOK
  <1>9. CASE \E n \in 1..BufferSize : Consume(n)
    BY <1>9 DEF Consume, TypeOK, Life
  <1>10. CASE \E n \in 1..BufferSize : OnReadData(n)
    BY <1>10 DEF OnReadData, TypeOK, Life
  <1>11. CASE OnReadByPeer \/ OnReadError
    <2>1. ASSUME NEW byPeer \in BOOLEAN, NEW error \in BOOLEAN, OnReadEnd(byPeer, error)
          PROVE  Life'
      <3>1. data /\ mem = "live" /\ handle # "raw" /\ frames = <<>>
        BY <2>1 DEF OnReadEnd, Idle, TypeOK, Life
      <3>2. /\ hasError' \in BOOLEAN /\ isClosedByPeer' \in BOOLEAN
            /\ Close(hasError', isClosedByPeer') /\ NotifyListener
            /\ UNCHANGED <<ioVars, fin, recvVars, sendVars, frames>>
        BY <2>1, <3>1 DEF OnReadEnd, TypeOK
      <3> QED BY <3>1, <3>2, EndLife
    <2> QED BY <1>11, <2>1 DEF OnReadByPeer, OnReadError
  <1>12. CASE OnWrite
    <2>1. frames = <<>> /\ completed # <<>>
      BY <1>12 DEF OnWrite, Idle
    <2>2. ~fault' /\ completed' = Tail(completed)
          /\ UNCHANGED <<handle, reading, shutting, mem, data, closed,
                         isClosedByPeer, notified>>
      BY <1>12, <2>1 DEF OnWrite, TypeOK, Life
    <2>3. CASE UNCHANGED <<hasError, frames>>
      BY <2>1, <2>2, <2>3 DEF TypeOK, Life
    <2>4. CASE data /\ frames' = Append(frames, Head(completed).w)
      <3>1. frames' = <<Head(completed).w>>
        BY <2>1, <2>4
      <3>2. Len(frames') = 1 /\ frames' # <<>> /\ mem = "live"
        BY <2>4, <3>1 DEF Life, TypeOK
      <3> QED BY <2>1, <2>2, <2>4, <3>2 DEF TypeOK, Life
    <2> QED BY <1>12, <2>3, <2>4 DEF OnWrite
  <1>13. CASE OnShutdown
    BY <1>13 DEF OnShutdown, ShutdownEnds, TypeOK, Life
  <1>14. CASE OnClose
    BY <1>14 DEF OnClose, CloseEnds, TypeOK, Life
  <1>15. CASE Transmit
    <2>1. /\ handle = "open" /\ UNCHANGED <<handle, reading, shutting, fault, objVars, frames>>
      BY <1>15 DEF Transmit, FlushHead, FailHead
    <2> QED BY <2>1 DEF TypeOK, Life
  <1>16. CASE Cancel
    BY <1>16 DEF Cancel, CancelQueue, TypeOK, Life
  <1>17. CASE Reset
    BY <1>17 DEF Reset, Break, TypeOK, Life
  <1>18. CASE UNCHANGED vars
    BY <1>18 DEF vars, TypeOK, Life
  <1> QED
    BY <1>1, <1>2, <1>3, <1>4, <1>5, <1>6, <1>7, <1>8, <1>9, <1>10, <1>11,
       <1>12, <1>13, <1>14, <1>15, <1>16, <1>17, <1>18 DEF Next, AppNext, LoopNext

-----------------------------------------------------------------------------
\* The write queue.

\* Concatenation of bytes is associative.
LEMMA Assoc ==
  \A s, t, u \in Seq(Byte) : (s \o t) \o u = s \o (t \o u)
  <1> TAKE s, t, u \in Seq(Byte)
  <1> QED BY ConcatAssociative

\* A write that is taken goes behind what waits: to the wire only when nothing
\* does, or to the end of the backlog.
LEMMA WriteBacklog ==
  ASSUME TypeOK, Life, Backlog,
         NEW w \in Writes, MayWrite(w), NEW d \in Seq(Byte), WriteOf(w, d)
  PROVE  Backlog'
  <1> USE DEF streamVars, objVars, recvVars, ioVars
  <1>1. ~closed => handle = "open" /\ shutting = "none"
    BY DEF MayWrite, Life
  <1>2. wire \in Seq(Byte) /\ backlog \in Seq(Byte) /\ accepted \in Seq(Byte)
    BY DEF TypeOK
  <1>3. CASE WriteRefused(w, d) \/ WriteError(w, d)
    BY <1>3 DEF WriteRefused, WriteError, Backlog, StreamLen
  <1>4. CASE WriteAll(w, d)
    <2>1. Len(d) \in Nat \ {0}
      BY <1>4 DEF WriteAll
    <2>2. queue = <<>> /\ sock = "ok"
      BY <1>4, <2>1 DEF WriteAll, UvTryWrite, EAGAIN, TryError
    <2>3. backlog = <<>> /\ accepted = wire
      BY <1>1, <1>2, <1>4, <2>2, ConcatEmptySeq DEF WriteAll, Backlog
    <2>4. wire' = wire \o d /\ accepted' = accepted \o d
          /\ UNCHANGED <<queue, backlog, sock, handle>>
      BY <1>4 DEF WriteAll
    <2>5. wire' \o backlog' = accepted'
      BY <1>2, <2>3, <2>4, ConcatEmptySeq
    <2> QED BY <2>2, <2>3, <2>4, <2>5 DEF Backlog
  <1>5. ASSUME NEW r \in Partial(d), r \in UvTryWrite(Len(d)), r # Len(d),
               WriteQueued(w, d, r, Pending(d, r))
        PROVE  Backlog'
    <2> DEFINE rest == Pending(d, r)
               taken == Taken(d, r)
    <2>1. rest \in Seq(Byte) /\ taken \in Seq(Byte) /\ taken \o rest = d
      BY PendingCompletes
    <2>0. rest \in Seq(Byte) /\ taken \in Seq(Byte)
      BY <2>1
    <2>2. /\ wire' = wire \o taken /\ backlog' = backlog \o rest
          /\ accepted' = accepted \o d
          /\ queue' = Append(queue, [w |-> w, end |-> Len(wire') + Len(backlog) + Len(rest)])
          /\ UNCHANGED <<sock, handle>>
      BY <1>5 DEF WriteQueued, UvWrite, Taken
    <2>3. Len(rest) \in Nat \ {0}
      <3>1. CASE r = EAGAIN
        <4>1. rest = d
          BY <3>1, SubSeqFull DEF Pending
        <4> QED BY <1>5, <2>1, <4>1 DEF WriteQueued
      <3>2. CASE r # EAGAIN
        <4>1. r \in 0..Len(d) /\ rest = SubSeq(d, r + 1, Len(d))
          BY <3>2 DEF Partial, Pending
        <4>2. Len(rest) = Len(d) - r
          BY <4>1, SplitParts
        <4> QED BY <1>5, <4>1, <4>2
      <3> QED BY <3>1, <3>2
    <2>4. taken = <<>> \/ (backlog = <<>> /\ queue = <<>>)
      <3>1. CASE r = EAGAIN
        BY <3>1 DEF Taken
      <3>2. CASE r # EAGAIN
        <4>1. r \in 1..Len(d)
          BY <3>2 DEF Partial
        <4>2. queue = <<>> /\ sock = "ok"
          BY <1>5, <4>1 DEF UvTryWrite, EAGAIN, TryError
        <4> QED BY <1>1, <1>5, <4>2 DEF WriteQueued, Backlog
      <3> QED BY <3>1, <3>2
    <2> HIDE DEF rest, taken
    <2>5. wire' \o backlog' = accepted'
      <3>2. CASE taken = <<>>
        <4>1. d = rest /\ wire' = wire
          BY <1>2, <2>1, <2>2, <3>2, ConcatEmptySeq
        <4>2. (wire \o backlog) \o rest = wire \o (backlog \o rest)
          BY <1>2, <2>0, Assoc, ZenonT(60)
        <4> QED BY <2>2, <4>1, <4>2 DEF Backlog
      <3>3. CASE backlog = <<>>
        <4>1. backlog' = rest /\ accepted = wire
          BY <1>2, <2>1, <2>2, <3>3, ConcatEmptySeq DEF Backlog
        <4>2. (wire \o taken) \o rest = wire \o (taken \o rest)
          BY <1>2, <2>0, Assoc, ZenonT(60)
        <4> QED BY <2>1, <2>2, <4>1, <4>2
      <3> QED BY <2>4, <3>2, <3>3
    <2>6. /\ Len(wire) \in Nat /\ Len(backlog) \in Nat /\ Len(taken) \in Nat
          /\ Len(wire') = Len(wire) + Len(taken)
          /\ Len(backlog') = Len(backlog) + Len(rest)
          /\ Len(taken) = 0 \/ queue = <<>>
      BY <1>2, <2>1, <2>2, <2>4, ConcatProperties
    <2> DEFINE new == Len(wire') + Len(backlog) + Len(rest)
    <2>7. new = StreamLen' /\ new \in Len(wire') + 1 .. StreamLen'
          /\ (new > StreamLen \/ queue = <<>>)
      BY <2>3, <2>6 DEF StreamLen
    <2>8. /\ Len(queue) \in Nat /\ queue' # <<>> /\ DOMAIN queue = 1..Len(queue)
          /\ Len(queue') = Len(queue) + 1 /\ DOMAIN queue' = 1..Len(queue) + 1
          /\ \A i \in 1..Len(queue) : queue'[i] = queue[i]
          /\ queue'[Len(queue) + 1].end = new
      <3> DEFINE entry == [w |-> w, end |-> new]
                 T == [w : Writes, end : Nat]
      <3>1. entry \in T /\ entry.end = new
        BY <2>3, <2>6
      <3>2. queue' = Append(queue, entry) /\ queue \in Seq(T)
        BY <2>2 DEF TypeOK
      <3> HIDE DEF entry, new, T
      <3>3. /\ queue' # <<>> /\ Len(queue') = Len(queue) + 1 /\ queue' \in Seq(T)
            /\ \A i \in 1..Len(queue) : queue'[i] = queue[i]
            /\ queue'[Len(queue) + 1] = entry
        BY <3>1, <3>2, AppendProperties
      <3> QED BY <3>1, <3>2, <3>3
    <2>9. /\ \A i \in 1..Len(queue) : queue[i].end \in Len(wire) + 1 .. StreamLen
          /\ \A i, j \in 1..Len(queue) : i < j => queue[i].end < queue[j].end
          /\ StreamLen = Len(wire) + Len(backlog)
          /\ StreamLen' = Len(wire') + Len(backlog')
      BY <2>8 DEF Backlog, StreamLen
    <2> HIDE DEF new
    <2>10. \A i \in 1..Len(queue) :
             queue[i].end \in Len(wire') + 1 .. StreamLen' /\ queue[i].end < new
      BY <2>3, <2>6, <2>7, <2>9
    <2>11. \A i \in DOMAIN queue' : queue'[i].end \in Len(wire') + 1 .. StreamLen'
      BY <2>7, <2>8, <2>10
    <2>12. \A i, j \in DOMAIN queue' : i < j => queue'[i].end < queue'[j].end
      BY <2>8, <2>9, <2>10, SMTT(20)
    <2>13. queue'[Len(queue')].end = StreamLen'
      BY <2>7, <2>8
    <2> QED BY <2>5, <2>8, <2>11, <2>12, <2>13 DEF Backlog
  <1> QED BY <1>3, <1>4, <1>5 DEF WriteOf

\* Taking the oldest request away keeps the rest in order.
LEMMA TailBacklog ==
  ASSUME TypeOK, Backlog, queue # <<>>
  PROVE  /\ DOMAIN Tail(queue) = 1..Len(queue) - 1
         /\ Len(queue) \in Nat \ {0} /\ Len(Tail(queue)) = Len(queue) - 1
         /\ \A i \in 1..Len(queue) - 1 : Tail(queue)[i] = queue[i + 1]
         /\ Head(queue) = queue[1]
         /\ \A i \in 1..Len(queue) - 1 :
              Tail(queue)[i].end \in queue[1].end + 1 .. StreamLen
         /\ \A i, j \in 1..Len(queue) - 1 :
              i < j => Tail(queue)[i].end < Tail(queue)[j].end
  <1>1. /\ queue \in Seq([w : Writes, end : Nat])
        /\ DOMAIN queue = 1..Len(queue) /\ Len(queue) \in Nat \ {0}
    BY DEF TypeOK
  <1>2. /\ Tail(queue) \in Seq([w : Writes, end : Nat])
        /\ Len(Tail(queue)) = Len(queue) - 1
        /\ \A i \in 1..Len(Tail(queue)) : Tail(queue)[i] = queue[i + 1]
    BY <1>1, HeadTailProperties
  <1>3. Head(queue) = queue[1]
    BY <1>1
  <1>4. /\ \A i \in 1..Len(queue) : queue[i].end \in Len(wire) + 1 .. StreamLen
        /\ \A i, j \in 1..Len(queue) : i < j => queue[i].end < queue[j].end
        /\ Len(wire) \in Nat /\ StreamLen \in Nat
    <2>1. Len(wire) \in Nat /\ StreamLen \in Nat
      BY DEF TypeOK, StreamLen
    <2> QED BY <1>1, <2>1 DEF Backlog
  <1>5. ASSUME NEW i \in 1..Len(queue) - 1
        PROVE  Tail(queue)[i].end \in queue[1].end + 1 .. StreamLen
    <2>1. i + 1 \in 1..Len(queue) /\ 1 \in 1..Len(queue) /\ 1 < i + 1
          /\ Tail(queue)[i] = queue[i + 1]
      BY <1>1, <1>2
    <2> QED BY <1>4, <2>1
  <1>6. ASSUME NEW i \in 1..Len(queue) - 1, NEW j \in 1..Len(queue) - 1, i < j
        PROVE  Tail(queue)[i].end < Tail(queue)[j].end
    <2>1. /\ i + 1 \in 1..Len(queue) /\ j + 1 \in 1..Len(queue) /\ i + 1 < j + 1
          /\ Tail(queue)[i] = queue[i + 1] /\ Tail(queue)[j] = queue[j + 1]
      BY <1>1, <1>2, <1>6
    <2> QED BY <1>4, <2>1
  <1> QED BY <1>1, <1>2, <1>3, <1>5, <1>6

\* What leaves is the front of the backlog.
LEMMA FlushBacklog ==
  ASSUME TypeOK, Backlog, FlushHead, UNCHANGED accepted
  PROVE  Backlog'
  <1> DEFINE first == queue[1].end
  <1>1. queue # <<>> /\ handle = "open" /\ sock = "ok" /\ UNCHANGED <<handle, sock>>
    BY DEF FlushHead
  <1>2. Head(queue) = queue[1] /\ first \in Len(wire) + 1 .. StreamLen
        /\ Len(queue) \in Nat \ {0} /\ DOMAIN queue = 1..Len(queue)
    BY <1>1, TailBacklog DEF Backlog, TypeOK
  <1>3. PICK n \in 1..(first - Len(wire)) :
          /\ wire' = wire \o SubSeq(backlog, 1, n)
          /\ backlog' = SubSeq(backlog, n + 1, Len(backlog))
          /\ IF n = first - Len(wire) THEN queue' = Tail(queue) ELSE queue' = queue
    BY <1>2 DEF FlushHead
  <1>4. /\ wire \in Seq(Byte) /\ backlog \in Seq(Byte)
        /\ Len(wire) \in Nat /\ Len(backlog) \in Nat
        /\ StreamLen = Len(wire) + Len(backlog)
        /\ StreamLen' = Len(wire') + Len(backlog')
    BY DEF TypeOK, StreamLen
  <1>5. n \in 0..Len(backlog) /\ n \in Nat
    BY <1>1, <1>2, <1>3, HeadFits
  <1>6. /\ SubSeq(backlog, 1, n) \in Seq(Byte) /\ Len(SubSeq(backlog, 1, n)) = n
        /\ backlog' \in Seq(Byte) /\ Len(backlog') = Len(backlog) - n
        /\ SubSeq(backlog, 1, n) \o backlog' = backlog
    BY <1>3, <1>4, <1>5, SplitParts, SplitJoins
  <1>7. wire' \o backlog' = accepted'
    <2>1. wire' \o backlog' = wire \o (SubSeq(backlog, 1, n) \o backlog')
      BY <1>3, <1>4, <1>6, Assoc, ZenonT(60)
    <2> QED BY <1>6, <2>1 DEF Backlog
  <1>8. Len(wire') = Len(wire) + n /\ StreamLen' = StreamLen
    <2>1. Len(wire') = Len(wire) + Len(SubSeq(backlog, 1, n))
      BY <1>3, <1>4, <1>6, ConcatProperties
    <2>2. Len(SubSeq(backlog, 1, n)) = n /\ Len(backlog') = Len(backlog) - n
      BY <1>6
    <2>3. StreamLen' = Len(wire') + Len(backlog') /\ StreamLen = Len(wire) + Len(backlog)
          /\ Len(wire) \in Nat /\ Len(backlog) \in Nat /\ n \in Nat
      BY <1>4, <1>5
    <2> QED BY <2>1, <2>2, <2>3
  <1>9. /\ \A i \in 1..Len(queue) : queue[i].end \in Len(wire) + 1 .. StreamLen
        /\ \A i, j \in 1..Len(queue) : i < j => queue[i].end < queue[j].end
        /\ queue[Len(queue)].end = StreamLen
    BY <1>1, <1>2 DEF Backlog
  <1>a. first \in Int /\ n \in Int /\ n <= first - Len(wire) /\ first = queue[1].end
        /\ Len(wire) \in Int
    BY <1>2, <1>3, <1>4, <1>5
  <1> HIDE DEF first
  <1>10. CASE n = first - Len(wire)
    <2>1. /\ queue' = Tail(queue) /\ Len(wire') = first
          /\ first = queue[1].end
      <3>1. queue' = Tail(queue)
        BY <1>3, <1>10
      <3>2. Len(wire') = first
        BY <1>8, <1>a, <1>10
      <3> QED BY <3>1, <3>2, <1>a
    <2>2. /\ DOMAIN queue' = 1..Len(queue) - 1 /\ Len(queue') = Len(queue) - 1
          /\ \A i \in 1..Len(queue) - 1 : queue'[i] = queue[i + 1]
          /\ \A i \in 1..Len(queue) - 1 : queue'[i].end \in Len(wire') + 1 .. StreamLen'
          /\ \A i, j \in 1..Len(queue) - 1 : i < j => queue'[i].end < queue'[j].end
      BY <1>1, <1>8, <2>1, TailBacklog
    <2>3. CASE Len(queue) = 1
      <3>1. queue' = <<>>
        <4>1. queue \in Seq([w : Writes, end : Nat])
          BY DEF TypeOK
        <4>2. Tail(queue) \in Seq([w : Writes, end : Nat]) /\ Len(Tail(queue)) = 0
          BY <1>1, <2>3, <4>1, HeadTailProperties
        <4> QED BY <2>1, <4>2
      <3>2. Len(wire') = StreamLen'
        BY <1>2, <1>8, <1>9, <2>1, <2>3
      <3>3. backlog' = <<>>
        BY <1>4, <1>6, <1>8, <3>2
      <3> QED BY <1>7, <3>1, <3>3 DEF Backlog
    <2>4. CASE Len(queue) > 1
      <3>1. queue' # <<>> /\ queue'[Len(queue')].end = StreamLen'
        <4>1. Len(queue) - 1 \in 1..Len(queue) - 1 /\ Len(queue) - 1 + 1 = Len(queue)
          BY <1>2, <2>4
        <4>2. queue'[Len(queue) - 1] = queue[Len(queue)]
          BY <2>2, <4>1
        <4> QED BY <1>8, <1>9, <2>2, <2>4, <4>1, <4>2
      <3> QED BY <1>7, <2>2, <3>1 DEF Backlog
    <2> QED BY <1>2, <2>3, <2>4
  <1>11. CASE n # first - Len(wire)
    <2>1. queue' = queue /\ Len(wire') < first
      BY <1>3, <1>8, <1>a, <1>11
    <2>2. \A i \in 1..Len(queue) : queue[i].end >= first
      BY <1>2, <1>9 DEF first
    <2>3. \A i \in 1..Len(queue) : queue[i].end \in Len(wire') + 1 .. StreamLen'
      BY <1>2, <1>4, <1>8, <1>9, <2>1, <2>2, <1>5
    <2> QED BY <1>1, <1>2, <1>7, <1>8, <1>9, <2>1, <2>3 DEF Backlog
  <1> QED BY <1>10, <1>11

\* Every step keeps the backlog in order.
LEMMA BacklogStep == TypeOK /\ Life /\ Backlog /\ [Next]_vars => Backlog'
  <1> SUFFICES ASSUME TypeOK, Life, Backlog, [Next]_vars PROVE Backlog'
    OBVIOUS
  <1> USE DEF streamVars, objVars, recvVars, ioVars, sendVars
  <1>1. ASSUME UNCHANGED <<wire, backlog, accepted, queue, sock>>,
               handle' \in {"raw", "open"} => handle \in {"raw", "open"}
        PROVE  Backlog'
    BY <1>1 DEF Backlog, StreamLen
  <1>2. ASSUME NEW error, NEW byPeer, Close(error, byPeer)
        PROVE  handle' \in {"raw", "open"} => handle \in {"raw", "open"}
    BY <1>2 DEF Close, UvShutdown, UvClose
  <1>3. CASE Setup \/ Start \/ \E n \in 1..BufferSize : Consume(n)
    BY <1>1, <1>3 DEF Setup, UvOpen, Start, Consume
  <1>4. CASE UserClose \/ ErrorReceiving \/ Destroy
    BY <1>1, <1>2, <1>4 DEF UserClose, ErrorReceiving, Destroy
  <1>5. CASE CbReturn
    BY <1>1, <1>2, <1>5 DEF CbReturn
  <1>6. ASSUME NEW w \in Writes, NEW n \in 0..MaxLen, WriteOne(w, n) PROVE Backlog'
    BY <1>6, WriteForm, WriteBacklog
  <1>7. ASSUME NEW w \in Writes, NEW n1 \in 0..MaxLen, NEW n2 \in 0..MaxLen,
               WriteTwo(w, n1, n2)
        PROVE  Backlog'
    BY <1>7, WriteForm, WriteBacklog
  <1>8. CASE \E n \in 1..BufferSize : OnReadData(n)
    BY <1>1, <1>8 DEF OnReadData
  <1>9. CASE OnReadByPeer \/ OnReadError
    BY <1>1, <1>2, <1>9 DEF OnReadByPeer, OnReadError, OnReadEnd
  <1>10. CASE OnWrite
    BY <1>1, <1>10 DEF OnWrite
  <1>11. CASE OnShutdown \/ OnClose
    BY <1>1, <1>11 DEF OnShutdown, OnClose
  <1>12. CASE Transmit /\ FlushHead
    BY <1>12, FlushBacklog DEF Transmit
  <1>13. CASE Transmit /\ FailHead
    <2>1. /\ queue # <<>> /\ queue' = Tail(queue) /\ sock' = "broken"
          /\ UNCHANGED <<wire, backlog, accepted>>
      BY <1>13 DEF Transmit, FailHead
    <2>2. queue[1].end \in Len(wire) + 1 .. StreamLen
          /\ Len(wire) \in Nat /\ StreamLen' = StreamLen
      BY <2>1, TailBacklog DEF Backlog, StreamLen, TypeOK
    <2>3. /\ DOMAIN queue' = 1..Len(queue) - 1
          /\ \A i \in 1..Len(queue) - 1 : queue'[i].end \in queue[1].end + 1 .. StreamLen
          /\ \A i, j \in 1..Len(queue) - 1 : i < j => queue'[i].end < queue'[j].end
      BY <2>1, TailBacklog
    <2>4. \A i \in DOMAIN queue' : queue'[i].end \in Len(wire') + 1 .. StreamLen'
      BY <2>1, <2>2, <2>3
    <2> QED BY <2>1, <2>3, <2>4 DEF Backlog
  <1>14. CASE Cancel
    <2>1. queue' = <<>> /\ handle' = "closing" /\ UNCHANGED <<wire, backlog, accepted>>
      BY <1>14 DEF Cancel, CancelQueue
    <2> QED BY <2>1 DEF Backlog
  <1>15. CASE Reset
    BY <1>15 DEF Reset, Break, Backlog, StreamLen
  <1>16. CASE UNCHANGED vars
    BY <1>1, <1>16 DEF vars
  <1> QED
    BY <1>3, <1>4, <1>5, <1>6, <1>7, <1>8, <1>9, <1>10, <1>11, <1>12, <1>13,
       <1>14, <1>15, <1>16 DEF Next, AppNext, LoopNext, Transmit

-----------------------------------------------------------------------------
\* A connection starts in order.
LEMMA InitInv == Init => IInv
  <1> SUFFICES ASSUME Init PROVE IInv
    OBVIOUS
  <1>1. TypeOK
    <2>1. \A S : <<>> \in Seq(S)
      OBVIOUS
    <2>2. cbLog \in [Writes -> Seq({"true", "false", "freed"})]
      BY <2>1 DEF Init
    <2>3. /\ queue \in Seq([w : Writes, end : Nat])
          /\ completed \in Seq([w : Writes, status : Statuses])
          /\ backlog \in Seq(Byte) /\ wire \in Seq(Byte) /\ accepted \in Seq(Byte)
          /\ frames \in Seq(Writes)
      BY <2>1 DEF Init
    <2>4. bufferDataLen \in 0..BufferSize /\ recvBytes \in Nat /\ sentBytes \in Nat
          /\ notified \in Nat
      BY LengthAssumption DEF Init
    <2> QED BY <2>2, <2>3, <2>4 DEF Init, TypeOK
  <1>2. Life
    BY DEF Init, Life
  <1>3. wire \o backlog = accepted
    BY ConcatEmptySeq DEF Init
  <1>4. Backlog
    BY <1>3 DEF Init, Backlog
  <1> QED BY <1>1, <1>2, <1>4 DEF IInv

\* The inductive invariant holds of every reachable state, as long as the
\* application does no more than Close the connection in a failure callback.
THEOREM Invariant ==
  ASSUME CbCalls \subseteq {"Close"}
  PROVE  Spec => []IInv
  <1>1. Init => IInv
    BY InitInv
  <1>2. IInv /\ [Next]_vars => IInv'
    BY TypeStep, LifeStep, BacklogStep DEF IInv
  <1> QED BY <1>1, <1>2, PTL DEF Spec

\* The types, for the classes' states and for the stream's.
THEOREM TypeCorrect ==
  ASSUME CbCalls \subseteq {"Close"}
  PROVE  Spec => []TypeOK
  <1>1. IInv => TypeOK
    BY DEF IInv
  <1> QED BY <1>1, Invariant, PTL

\* libuv never aborts and nothing deleted is used, whatever order calls,
\* callbacks, resets and closes come in.
THEOREM NoFaultEver ==
  ASSUME CbCalls \subseteq {"Close"}
  PROVE  Spec => []NoFault
  <1>1. IInv => NoFault
    BY DEF IInv, Life, NoFault
  <1> QED BY <1>1, Invariant, PTL

\* No callback is ever dispatched into a deleted or closed connection.
THEOREM DispatchAlwaysSafe ==
  ASSUME CbCalls \subseteq {"Close"}
  PROVE  Spec => []DispatchSafe
  <1>1. IInv => DispatchSafe
    BY DEF IInv, Life, TypeOK, DispatchSafe
  <1> QED BY <1>1, Invariant, PTL

\* The listener is told at most once, and no dead connection stays behind.
THEOREM ListenerToldOnce ==
  ASSUME CbCalls \subseteq {"Close"}
  PROVE  Spec => []NotifiedOnce
  <1>1. IInv => NotifiedOnce
    BY DEF IInv, Life, TypeOK, NotifiedOnce
  <1> QED BY <1>1, Invariant, PTL

\* Bytes reach the wire in the order they were accepted, none lost or doubled,
\* for buffers of any length split anywhere by uv_try_write.
THEOREM NothingEverLost ==
  ASSUME CbCalls \subseteq {"Close"}
  PROVE  Spec => []NothingLost
  <1>1. IInv => NothingLost
    BY DEF IInv, Backlog, NothingLost
  <1> QED BY <1>1, Invariant, PTL

-----------------------------------------------------------------------------
(***************************************************************************)
(* The callbacks given to Write: each is treated as CallbackDiscipline and *)
(* SilentAfterClose say.                                                   *)
(***************************************************************************)
-----------------------------------------------------------------------------
\* Beside IInv: the inductive invariant of the callbacks.

Queued(w)   == \E i \in DOMAIN queue : queue[i].w = w
Finished(w) == \E i \in DOMAIN completed : completed[i].w = w

\* libuv has at most one request of a write.
Requests ==
  /\ \A i, j \in DOMAIN queue : queue[i].w = queue[j].w => i = j
  /\ \A i, j \in DOMAIN completed : completed[i].w = completed[j].w => i = j
  /\ \A w \in Writes : ~(Queued(w) /\ Finished(w))

\* What has happened to the callback of a write, and where its request is.
LogOf(w) ==
  /\ cbLog[w] \in {<<>>, <<"false">>, <<"freed">>, <<"true", "freed">>, <<"false", "freed">>}
  /\ w \in Silent \/ w \notin issued => cbLog[w] = <<>>
  /\ InFlight(w) => w \in issued /\ cbLog[w] = <<>>
  /\ w \in issued \ Silent /\ cbLog[w] = <<>> => InFlight(w)
  /\ cbLog[w] = <<"false">> => frames # <<>> /\ frames[1] = w
  /\ frames # <<>> /\ frames[1] = w /\ w \notin Silent => cbLog[w] = <<"false">>

Logs == \A w \in Writes : LogOf(w)

\* Where the last byte of a write is.
SentBy(w, n) == \A k \in DOMAIN accepted : accepted[k][1] = w => k <= n

Positions ==
  /\ \A k \in DOMAIN accepted : accepted[k][1] \in issued
  /\ \A i \in DOMAIN queue : SentBy(queue[i].w, queue[i].end)
  /\ \A i \in DOMAIN completed :
       completed[i].status = "ok" => SentBy(completed[i].w, Len(wire))
  /\ \A w \in Writes : cbLog[w] = <<"true", "freed">> => SentBy(w, Len(wire))

CInv == IInv /\ Requests /\ Logs /\ Positions

-----------------------------------------------------------------------------
\* Requests.

\* Requests are requests of writes.
LEMMA RequestTypes ==
  ASSUME TypeOK
  PROVE  /\ DOMAIN queue = 1..Len(queue) /\ DOMAIN completed = 1..Len(completed)
         /\ \A i \in DOMAIN queue : queue[i].w \in Writes /\ queue[i].end \in Nat
         /\ \A i \in DOMAIN completed : completed[i].w \in Writes
  <1> DEFINE Q == [w : Writes, end : Nat]
             C == [w : Writes, status : Statuses]
  <1>1. queue \in Seq(Q) /\ completed \in Seq(C)
    BY DEF TypeOK
  <1>2. /\ \A q \in Q : q.w \in Writes /\ q.end \in Nat
        /\ \A c \in C : c.w \in Writes
    OBVIOUS
  <1> HIDE DEF Q, C
  <1>3. /\ DOMAIN queue = 1..Len(queue) /\ DOMAIN completed = 1..Len(completed)
        /\ \A i \in 1..Len(queue) : queue[i] \in Q
        /\ \A i \in 1..Len(completed) : completed[i] \in C
    BY <1>1, ElementOfSeq
  <1> QED BY <1>2, <1>3

\* A request is waiting or finished.
LEMMA InFlightIs == \A w : InFlight(w) <=> Queued(w) \/ Finished(w)
  BY DEF InFlight, Queued, Finished

\* Nothing changes for the requests.
LEMMA SameRequests ==
  ASSUME Requests, UNCHANGED <<queue, completed>>
  PROVE  Requests' /\ \A w : InFlight(w)' <=> InFlight(w)
  BY DEF Requests, Queued, Finished, InFlight

\* A new request joins the queue.
LEMMA QueueRequests ==
  ASSUME TypeOK, Requests, NEW w \in Writes, ~InFlight(w), NEW end \in Nat,
         queue' = Append(queue, [w |-> w, end |-> end]), UNCHANGED completed
  PROVE  Requests' /\ \A v : InFlight(v)' <=> InFlight(v) \/ v = w
  <1> DEFINE entry == [w |-> w, end |-> end]
             T == [w : Writes, end : Nat]
  <1>1. /\ queue \in Seq(T) /\ entry \in T /\ entry.w = w
        /\ queue' = Append(queue, entry)
    BY DEF TypeOK
  <1> HIDE DEF entry, T
  <1>2. /\ DOMAIN queue = 1..Len(queue) /\ Len(queue) \in Nat
        /\ DOMAIN queue' = 1..Len(queue) + 1
        /\ \A i \in 1..Len(queue) : queue'[i] = queue[i]
        /\ queue'[Len(queue) + 1] = entry
    BY <1>1, AppendProperties
  <1>3. \A v : Queued(v)' <=> Queued(v) \/ v = w
    <2> TAKE v
    <2>1. ASSUME Queued(v)' PROVE Queued(v) \/ v = w
      <3>1. PICK i \in 1..Len(queue) + 1 : queue'[i].w = v
        BY <1>2, <2>1 DEF Queued
      <3>2. CASE i = Len(queue) + 1
        BY <1>1, <1>2, <3>1, <3>2
      <3>3. CASE i # Len(queue) + 1
        <4>1. i \in 1..Len(queue)
          BY <1>2, <3>3
        <4> QED BY <1>2, <3>1, <4>1 DEF Queued
      <3> QED BY <3>2, <3>3
    <2>2. ASSUME Queued(v) PROVE Queued(v)'
      <3>1. PICK i \in 1..Len(queue) : queue[i].w = v
        BY <1>2, <2>2 DEF Queued
      <3>2. i \in 1..Len(queue) + 1 /\ queue'[i].w = v
        BY <1>2, <3>1
      <3> QED BY <1>2, <3>2 DEF Queued
    <2>3. ASSUME v = w PROVE Queued(v)'
      <3>1. Len(queue) + 1 \in DOMAIN queue' /\ queue'[Len(queue) + 1].w = v
        BY <1>1, <1>2, <2>3
      <3> QED BY <3>1 DEF Queued
    <2> QED BY <2>1, <2>2, <2>3
  <1>4. \A v : Finished(v)' <=> Finished(v)
    BY DEF Finished
  <1>5. ASSUME NEW i \in DOMAIN queue', NEW j \in DOMAIN queue', queue'[i].w = queue'[j].w
        PROVE  i = j
    <2>1. \A k \in 1..Len(queue) : queue[k].w # w
      BY <1>2 DEF InFlight
    <2>2. \A k \in 1..Len(queue) + 1 : k \in 1..Len(queue) \/ k = Len(queue) + 1
      BY <1>2
    <2> QED BY <1>1, <1>2, <1>5, <2>1, <2>2 DEF Requests
  <1>6. \A v \in Writes : ~(Queued(v)' /\ Finished(v)')
    BY <1>3, <1>4 DEF Requests, InFlight, Finished
  <1>7. Requests'
    BY <1>5, <1>6 DEF Requests
  <1> QED BY <1>3, <1>4, <1>7, InFlightIs DEF InFlight, Queued, Finished

\* What Tail leaves of a sequence of requests.
LEMMA TailOf ==
  ASSUME NEW T, NEW s \in Seq(T), s # <<>>
  PROVE  /\ Tail(s) \in Seq(T) /\ Len(s) \in Nat \ {0}
         /\ DOMAIN s = 1..Len(s) /\ DOMAIN Tail(s) = 1..Len(s) - 1
         /\ \A i \in 1..Len(s) - 1 : Tail(s)[i] = s[i + 1] /\ i + 1 \in 1..Len(s)
         /\ Head(s) = s[1] /\ 1 \in 1..Len(s)
  <1>1. /\ Tail(s) \in Seq(T) /\ Len(Tail(s)) = Len(s) - 1
        /\ \A i \in 1..Len(Tail(s)) : Tail(s)[i] = s[i + 1]
    BY HeadTailProperties
  <1>2. Len(s) \in Nat \ {0} /\ DOMAIN s = 1..Len(s) /\ Head(s) = s[1]
    OBVIOUS
  <1> QED BY <1>1, <1>2

\* The oldest request is finished, one way or another.
LEMMA FinishRequests ==
  ASSUME TypeOK, Requests, queue # <<>>, NEW status \in Statuses,
         queue' = Tail(queue),
         completed' = Append(completed, [w |-> Head(queue).w, status |-> status])
  PROVE  /\ Requests' /\ \A v : InFlight(v)' <=> InFlight(v)
         /\ Len(completed) \in Nat /\ DOMAIN completed = 1..Len(completed)
         /\ DOMAIN completed' = 1..Len(completed) + 1
         /\ \A i \in 1..Len(completed) : completed'[i] = completed[i]
         /\ completed'[Len(completed) + 1] = [w |-> Head(queue).w, status |-> status]
  <1> DEFINE h == Head(queue).w
             entry == [w |-> h, status |-> status]
             T == [w : Writes, status : Statuses]
             n == Len(queue)
             m == Len(completed)
  <1>1. /\ DOMAIN queue = 1..n /\ n \in Nat \ {0} /\ DOMAIN queue' = 1..n - 1
        /\ \A i \in 1..n - 1 : queue'[i] = queue[i + 1] /\ i + 1 \in 1..n
        /\ h = queue[1].w /\ 1 \in 1..n
    BY TailOf DEF TypeOK
  <1>2. h \in Writes
    <2> HIDE DEF h
    <2> QED BY <1>1, RequestTypes
  <1>3. entry \in T /\ entry.w = h /\ completed \in Seq(T)
        /\ completed' = Append(completed, entry)
    BY <1>2 DEF TypeOK
  <1> HIDE DEF entry, T, h
  <1>4. /\ DOMAIN completed = 1..m /\ m \in Nat /\ DOMAIN completed' = 1..m + 1
        /\ \A i \in 1..m : completed'[i] = completed[i]
        /\ completed'[m + 1] = entry
    BY <1>3, AppendProperties
  <1>5. /\ \A i \in 1..n : queue[i].w = h => i = 1
        /\ \A i \in 1..m : completed[i].w # h
    <2>1. Queued(h)
      BY <1>1 DEF Queued
    <2> QED BY <1>1, <1>2, <1>4, <2>1 DEF Requests, Finished
  <1>6. \A v : Queued(v)' <=> Queued(v) /\ v # h
    <2> TAKE v
    <2>1. ASSUME Queued(v)' PROVE Queued(v) /\ v # h
      <3>1. PICK i \in 1..n - 1 : queue'[i].w = v
        BY <1>1, <2>1 DEF Queued
      <3>2. i + 1 \in 1..n /\ queue[i + 1].w = v /\ i + 1 # 1
        BY <1>1, <3>1
      <3> QED BY <1>1, <1>5, <3>2 DEF Queued
    <2>2. ASSUME Queued(v), v # h PROVE Queued(v)'
      <3>1. PICK i \in 1..n : queue[i].w = v
        BY <1>1, <2>2 DEF Queued
      <3>2. i - 1 \in 1..n - 1 /\ (i - 1) + 1 = i
        BY <1>1, <2>2, <3>1
      <3>3. queue'[i - 1].w = v
        BY <1>1, <3>1, <3>2
      <3> QED BY <1>1, <3>2, <3>3 DEF Queued
    <2> QED BY <2>1, <2>2
  <1>7. \A v : Finished(v)' <=> Finished(v) \/ v = h
    <2> TAKE v
    <2>1. \A i \in 1..m + 1 : i \in 1..m \/ i = m + 1
      BY <1>4
    <2>2. 1..m \subseteq 1..m + 1 /\ m + 1 \in 1..m + 1
      BY <1>4
    <2> QED BY <1>3, <1>4, <2>1, <2>2 DEF Finished
  <1>8. ASSUME NEW i \in DOMAIN queue', NEW j \in DOMAIN queue', queue'[i].w = queue'[j].w
        PROVE  i = j
    <2>1. queue[i + 1].w = queue[j + 1].w /\ i + 1 \in DOMAIN queue /\ j + 1 \in DOMAIN queue
      BY <1>1, <1>8
    <2>2. i + 1 = j + 1
      BY <2>1 DEF Requests
    <2> QED BY <1>1, <2>2
  <1>9. ASSUME NEW i \in DOMAIN completed', NEW j \in DOMAIN completed',
               completed'[i].w = completed'[j].w
        PROVE  i = j
    <2>1. \A k \in 1..m + 1 : k \in 1..m \/ k = m + 1
      BY <1>4
    <2> QED BY <1>3, <1>4, <1>5, <1>9, <2>1 DEF Requests
  <1>10. \A v \in Writes : ~(Queued(v)' /\ Finished(v)')
    BY <1>6, <1>7 DEF Requests
  <1>11. Requests'
    BY <1>8, <1>9, <1>10 DEF Requests
  <1>12. \A v : InFlight(v)' <=> InFlight(v)
    <2>1. \A v : InFlight(v)' <=> Queued(v)' \/ Finished(v)'
      BY DEF InFlight, Queued, Finished
    <2>2. Queued(h)
      BY <1>1 DEF Queued, h
    <2> QED BY <1>6, <1>7, <2>1, <2>2, InFlightIs
  <1> QED BY <1>4, <1>11, <1>12 DEF entry, h

\* The callback of the oldest finished request is dispatched.
LEMMA DispatchRequests ==
  ASSUME TypeOK, Requests, completed # <<>>, completed' = Tail(completed),
         UNCHANGED queue
  PROVE  /\ Requests' /\ Head(completed).w \in Writes
         /\ InFlight(Head(completed).w)
         /\ \A v : InFlight(v)' <=> InFlight(v) /\ v # Head(completed).w
  <1> DEFINE h == Head(completed).w
             n == Len(completed)
  <1>1. /\ DOMAIN completed = 1..n /\ n \in Nat \ {0} /\ DOMAIN completed' = 1..n - 1
        /\ \A i \in 1..n - 1 : completed'[i] = completed[i + 1] /\ i + 1 \in 1..n
        /\ h = completed[1].w /\ 1 \in 1..n
    BY TailOf DEF TypeOK
  <1>2. h \in Writes /\ Finished(h)
    <2> HIDE DEF h
    <2> QED BY <1>1, RequestTypes DEF Finished
  <1> HIDE DEF h
  <1>3. \A i \in 1..n : completed[i].w = h => i = 1
    BY <1>1 DEF Requests
  <1>4. \A v : Finished(v)' <=> Finished(v) /\ v # h
    <2> TAKE v
    <2>1. ASSUME Finished(v)' PROVE Finished(v) /\ v # h
      <3>1. PICK i \in 1..n - 1 : completed'[i].w = v
        BY <1>1, <2>1 DEF Finished
      <3>2. i + 1 \in 1..n /\ completed[i + 1].w = v /\ i + 1 # 1
        BY <1>1, <3>1
      <3> QED BY <1>1, <1>3, <3>2 DEF Finished
    <2>2. ASSUME Finished(v), v # h PROVE Finished(v)'
      <3>1. PICK i \in 1..n : completed[i].w = v
        BY <1>1, <2>2 DEF Finished
      <3>2. i - 1 \in 1..n - 1 /\ (i - 1) + 1 = i
        BY <1>1, <2>2, <3>1
      <3>3. completed'[i - 1].w = v
        BY <1>1, <3>1, <3>2
      <3> QED BY <1>1, <3>2, <3>3 DEF Finished
    <2> QED BY <2>1, <2>2
  <1>5. \A v : Queued(v)' <=> Queued(v)
    BY DEF Queued
  <1>6. ASSUME NEW i \in DOMAIN completed', NEW j \in DOMAIN completed',
               completed'[i].w = completed'[j].w
        PROVE  i = j
    <2>1. /\ completed[i + 1].w = completed[j + 1].w
          /\ i + 1 \in DOMAIN completed /\ j + 1 \in DOMAIN completed
      BY <1>1, <1>6
    <2>2. i + 1 = j + 1
      BY <2>1 DEF Requests
    <2> QED BY <1>1, <2>2
  <1>7. Requests'
    BY <1>4, <1>5, <1>6 DEF Requests
  <1>8. \A v : InFlight(v)' <=> InFlight(v) /\ v # h
    <2>1. \A v : InFlight(v)' <=> Queued(v)' \/ Finished(v)'
      BY DEF InFlight, Queued, Finished
    <2>2. ~Queued(h)
      BY <1>2 DEF Requests
    <2> QED BY <1>4, <1>5, <2>1, <2>2, InFlightIs
  <1> QED BY <1>2, <1>7, <1>8, InFlightIs DEF h

\* The requests still waiting are cancelled.
LEMMA CancelRequests ==
  ASSUME TypeOK, Requests, CancelQueue
  PROVE  /\ Requests' /\ \A v : InFlight(v)' <=> InFlight(v)
         /\ \A i \in DOMAIN completed' :
              \/ i \in DOMAIN completed /\ completed'[i] = completed[i]
              \/ completed'[i].status = "ECANCELED"
  <1> DEFINE cancelled ==
        [i \in DOMAIN queue |-> [w |-> queue[i].w, status |-> "ECANCELED"]]
             T == [w : Writes, status : Statuses]
             n == Len(queue)
             m == Len(completed)
  <1>1. /\ completed \in Seq(T) /\ DOMAIN completed = 1..m /\ m \in Nat
        /\ DOMAIN queue = 1..n /\ n \in Nat
    BY DEF TypeOK
  <1>2. cancelled \in Seq(T) /\ Len(cancelled) = n
    <2>1. \A i \in 1..n : queue[i] \in [w : Writes, end : Nat]
      BY ElementOfSeq DEF TypeOK
    <2>2. \A i \in 1..n : [w |-> queue[i].w, status |-> "ECANCELED"] \in T
      BY <2>1 DEF Statuses
    <2> QED BY <1>1, <2>2
  <1>3. \A i \in 1..n : cancelled[i].w = queue[i].w /\ cancelled[i].status = "ECANCELED"
    BY <1>1
  <1>4. completed' = completed \o cancelled /\ queue' = <<>>
    BY DEF CancelQueue
  <1> HIDE DEF cancelled, T
  <1>5. /\ DOMAIN completed' = 1..m + n
        /\ \A i \in 1..m : completed'[i] = completed[i] /\ i \in 1..m + n
        /\ \A i \in 1..n : completed'[m + i] = cancelled[i] /\ m + i \in 1..m + n
        /\ \A i \in 1..m + n : i \in 1..m \/ (i - m \in 1..n /\ m + (i - m) = i)
    <2>1. /\ completed \o cancelled \in Seq(T)
          /\ Len(completed \o cancelled) = m + Len(cancelled)
          /\ \A i \in 1..m + Len(cancelled) :
               (completed \o cancelled)[i] = IF i <= m THEN completed[i] ELSE cancelled[i - m]
      BY <1>1, <1>2, ConcatProperties
    <2>2. /\ DOMAIN completed' = 1..m + n
          /\ \A i \in 1..m + n :
               completed'[i] = IF i <= m THEN completed[i] ELSE cancelled[i - m]
      BY <1>1, <1>2, <1>4, <2>1
    <2> HIDE DEF n, m
    <2> QED BY <1>1, <2>2
  <1>6. \A v : Finished(v)' <=> Finished(v) \/ Queued(v)
    <2> TAKE v
    <2>1. ASSUME Finished(v)' PROVE Finished(v) \/ Queued(v)
      <3>1. PICK i \in 1..m + n : completed'[i].w = v
        BY <1>5, <2>1 DEF Finished
      <3>2. CASE i \in 1..m
        BY <1>1, <1>5, <3>1, <3>2 DEF Finished
      <3>3. CASE i \notin 1..m
        <4>1. i - m \in 1..n /\ completed'[i] = cancelled[i - m]
          BY <1>5, <3>3
        <4> QED BY <1>1, <1>3, <3>1, <4>1 DEF Queued
      <3> QED BY <3>2, <3>3
    <2>2. ASSUME Finished(v) PROVE Finished(v)'
      BY <1>1, <1>5, <2>2 DEF Finished
    <2>3. ASSUME Queued(v) PROVE Finished(v)'
      <3>1. PICK i \in 1..n : queue[i].w = v
        BY <1>1, <2>3 DEF Queued
      <3>2. m + i \in DOMAIN completed' /\ completed'[m + i].w = v
        BY <1>3, <1>5, <3>1
      <3> QED BY <3>2 DEF Finished
    <2> QED BY <2>1, <2>2, <2>3
  <1>7. \A v : ~Queued(v)'
    BY <1>4 DEF Queued
  <1>8. ASSUME NEW i \in DOMAIN completed', NEW j \in DOMAIN completed',
               completed'[i].w = completed'[j].w
        PROVE  i = j
    <2>1. CASE i \in 1..m /\ j \in 1..m
      BY <1>1, <1>5, <1>8, <2>1 DEF Requests
    <2>2. CASE i \notin 1..m /\ j \notin 1..m
      <3>1. /\ i - m \in DOMAIN queue /\ j - m \in DOMAIN queue
            /\ queue[i - m].w = queue[j - m].w
        BY <1>1, <1>3, <1>5, <1>8, <2>2
      <3>2. i - m = j - m
        BY <3>1 DEF Requests
      <3> QED BY <1>1, <1>5, <3>2
    <2>3. ASSUME NEW k \in 1..m, NEW l \in 1..n
          PROVE  completed'[k].w # completed'[m + l].w
      <3>1. completed[k].w \in Writes
        BY <1>1, RequestTypes
      <3>2. completed'[k].w = completed[k].w /\ completed'[m + l].w = queue[l].w
        BY <1>3, <1>5
      <3>3. Finished(completed[k].w)
        BY <1>1 DEF Finished
      <3> QED BY <1>1, <3>1, <3>2, <3>3 DEF Requests, Queued
    <2>4. CASE i \in 1..m /\ j \notin 1..m
      <3>1. j - m \in 1..n /\ m + (j - m) = j
        BY <1>5, <2>4
      <3>2. completed'[i].w # completed'[m + (j - m)].w
        BY <2>3, <2>4, <3>1
      <3> QED BY <1>8, <3>1, <3>2
    <2>5. CASE i \notin 1..m /\ j \in 1..m
      <3>1. i - m \in 1..n /\ m + (i - m) = i
        BY <1>5, <2>5
      <3>2. completed'[j].w # completed'[m + (i - m)].w
        BY <2>3, <2>5, <3>1
      <3> QED BY <1>8, <3>1, <3>2
    <2> QED BY <2>1, <2>2, <2>4, <2>5
  <1>9. Requests'
    <2>1. \A i, j \in DOMAIN queue' : queue'[i].w = queue'[j].w => i = j
      BY <1>4
    <2> QED BY <1>7, <1>8, <2>1 DEF Requests
  <1>10. \A v : InFlight(v)' <=> InFlight(v)
    <2>1. \A v : InFlight(v)' <=> Queued(v)' \/ Finished(v)'
      BY DEF InFlight, Queued, Finished
    <2> QED BY <1>6, <1>7, <2>1, InFlightIs
  <1>11. ASSUME NEW i \in DOMAIN completed'
         PROVE  \/ i \in DOMAIN completed /\ completed'[i] = completed[i]
                \/ completed'[i].status = "ECANCELED"
    <2>1. CASE i \in 1..m
      BY <1>1, <1>5, <2>1
    <2>2. CASE i \notin 1..m
      <3>1. i - m \in 1..n /\ m + (i - m) = i
        BY <1>5, <2>2
      <3>2. completed'[m + (i - m)] = cancelled[i - m] /\ cancelled[i - m].status = "ECANCELED"
        BY <1>3, <1>5, <3>1
      <3> QED BY <3>1, <3>2
    <2> QED BY <2>1, <2>2
  <1> QED BY <1>9, <1>10, <1>11

-----------------------------------------------------------------------------
\* The log of a callback.

\* Recording events extends the log of one callback, unless it is null.
LEMMA LogIs ==
  ASSUME TypeOK, NEW w \in Writes, NEW events, Log(w, events)
  PROVE  /\ \A v \in Writes : v # w => cbLog'[v] = cbLog[v]
         /\ w \in Silent => cbLog'[w] = cbLog[w]
         /\ w \notin Silent => cbLog'[w] = cbLog[w] \o events
  BY DEF TypeOK, Log

\* The logs a callback can have.
LEMMA LogSums ==
  /\ <<>> \o <<"false">> = <<"false">> /\ <<>> \o <<"freed">> = <<"freed">>
  /\ <<>> \o <<"true", "freed">> = <<"true", "freed">>
  /\ <<>> \o <<"false", "freed">> = <<"false", "freed">>
  /\ <<"false">> \o <<"freed">> = <<"false", "freed">>
  <1>1. \A s \in Seq(Events) : <<>> \o s = s
    BY ConcatEmptySeq
  <1>2. <<"false">> \o <<"freed">> = <<"false", "freed">>
    <2> DEFINE f == <<"false">>
               g == <<"freed">>
               fg == <<"false", "freed">>
    <2>1. /\ f \in Seq(Events) /\ g \in Seq(Events) /\ fg \in Seq(Events)
          /\ Len(f) = 1 /\ Len(g) = 1 /\ Len(fg) = 2
          /\ f[1] = "false" /\ g[1] = "freed" /\ fg[1] = "false" /\ fg[2] = "freed"
      BY EventSeqs
    <2> HIDE DEF f, g, fg
    <2>2. /\ f \o g \in Seq(Events) /\ Len(f \o g) = 2
          /\ \A i \in 1..2 : (f \o g)[i] = IF i <= 1 THEN f[i] ELSE g[i - 1]
      BY <2>1, ConcatProperties
    <2>3. \A i \in 1..2 : (f \o g)[i] = fg[i]
      BY <2>1, <2>2
    <2>4. f \o g = fg
      BY <2>1, <2>2, <2>3, SeqEqual
    <2> QED BY <2>4 DEF f, g, fg
  <1> QED BY <1>1, <1>2, EventSeqs

\* The logs differ.
LEMMA LogsDiffer ==
  /\ <<"false">> # <<>> /\ <<"freed">> # <<>> /\ <<"true", "freed">> # <<>>
  /\ <<"false", "freed">> # <<>>
  /\ <<"false">> # <<"freed">> /\ <<"false">> # <<"true", "freed">>
  /\ <<"false">> # <<"false", "freed">>
  /\ <<"true", "freed">> # <<"freed">> /\ <<"true", "freed">> # <<"false", "freed">>
  OBVIOUS

\* Nothing happens to callbacks or calls.
LEMMA SameLogs ==
  ASSUME Logs, UNCHANGED <<cbLog, issued, frames>>, \A w : InFlight(w)' <=> InFlight(w)
  PROVE  Logs'
  BY DEF Logs, LogOf

\* A new write that is answered at once, or with a failure first.
LEMMA AnsweredLogs ==
  ASSUME TypeOK, Logs, Requests, UNCHANGED <<queue, completed>>, frames = <<>>,
         NEW w \in Writes \ issued, issued' = issued \cup {w},
         NEW events \in {<<"false">>, <<"true", "freed">>, <<"false", "freed">>},
         Log(w, events), frames' = IF events = <<"false">> THEN <<w>> ELSE <<>>
  PROVE  Logs'
  <1>1. /\ \A v \in Writes : v # w => cbLog'[v] = cbLog[v]
        /\ w \in Silent => cbLog'[w] = <<>>
        /\ w \notin Silent => cbLog'[w] = events
        /\ cbLog[w] = <<>> /\ ~InFlight(w)
    <2>1. cbLog[w] = <<>> /\ ~InFlight(w)
      BY DEF Logs, LogOf
    <2> QED BY <2>1, LogIs, LogSums
  <1>2. \A v : InFlight(v)' <=> InFlight(v)
    BY SameRequests
  <1>3. ASSUME NEW v \in Writes, v # w PROVE LogOf(v)'
    <2>1. LogOf(v) /\ cbLog'[v] = cbLog[v] /\ (v \in issued' <=> v \in issued)
      BY <1>1, <1>3 DEF Logs
    <2>2. cbLog[v] # <<"false">>
      BY <2>1 DEF LogOf
    <2>3. frames' # <<>> => frames'[1] = w
      OBVIOUS
    <2> QED BY <1>2, <1>3, <2>1, <2>2, <2>3 DEF LogOf
  <1>4. LogOf(w)'
    <2>1. ~InFlight(w)' /\ w \in issued'
      BY <1>1, <1>2
    <2>2. frames' # <<>> <=> events = <<"false">>
      OBVIOUS
    <2>3. frames' # <<>> => frames'[1] = w
      OBVIOUS
    <2> QED BY <1>1, <2>1, <2>2, <2>3, LogsDiffer DEF LogOf
  <1> QED BY <1>3, <1>4 DEF Logs

\* A new write whose request joins the queue.
LEMMA QueuedLogs ==
  ASSUME TypeOK, Logs, NEW w \in Writes \ issued, issued' = issued \cup {w},
         UNCHANGED <<cbLog, frames>>, \A v : InFlight(v)' <=> InFlight(v) \/ v = w
  PROVE  Logs'
  BY DEF Logs, LogOf

\* The answer to a write that is finished: only deleted, true, or false with its
\* caller waiting.
LEMMA DispatchLogs ==
  ASSUME TypeOK, Logs, frames = <<>>, NEW w \in Writes, InFlight(w), UNCHANGED issued,
         NEW events \in {<<"freed">>, <<"true", "freed">>, <<"false">>},
         Log(w, events), frames' = IF events = <<"false">> THEN <<w>> ELSE <<>>,
         \A v : InFlight(v)' <=> InFlight(v) /\ v # w
  PROVE  Logs'
  <1>1. /\ \A v \in Writes : v # w => cbLog'[v] = cbLog[v]
        /\ w \in Silent => cbLog'[w] = <<>>
        /\ w \notin Silent => cbLog'[w] = events
        /\ w \in issued
    <2>1. cbLog[w] = <<>> /\ w \in issued
      BY DEF Logs, LogOf
    <2> QED BY <2>1, LogIs, LogSums
  <1>2. ASSUME NEW v \in Writes, v # w PROVE LogOf(v)'
    <2>1. LogOf(v) /\ cbLog'[v] = cbLog[v]
      BY <1>1, <1>2 DEF Logs
    <2>2. cbLog[v] # <<"false">>
      BY <2>1 DEF LogOf
    <2>3. frames' # <<>> => frames'[1] = w
      OBVIOUS
    <2> QED BY <1>2, <2>1, <2>2, <2>3 DEF LogOf
  <1>3. LogOf(w)'
    <2>1. frames' # <<>> <=> events = <<"false">>
      OBVIOUS
    <2>2. frames' # <<>> => frames'[1] = w
      OBVIOUS
    <2> QED BY <1>1, <2>1, <2>2, LogsDiffer DEF LogOf
  <1> QED BY <1>2, <1>3 DEF Logs

\* A failure callback has returned and is deleted.
LEMMA ReturnLogs ==
  ASSUME TypeOK, Logs, NEW w \in Writes, frames # <<>>, frames[1] = w, frames' = <<>>,
         Log(w, <<"freed">>), UNCHANGED issued, \A v : InFlight(v)' <=> InFlight(v)
  PROVE  Logs'
  <1>1. /\ \A v \in Writes : v # w => cbLog'[v] = cbLog[v]
        /\ w \in Silent => cbLog'[w] = cbLog[w]
        /\ w \notin Silent => cbLog[w] = <<"false">> /\ cbLog'[w] = <<"false", "freed">>
    <2>1. w \notin Silent => cbLog[w] = <<"false">>
      BY DEF Logs, LogOf
    <2> QED BY <2>1, LogIs, LogSums
  <1>2. ASSUME NEW v \in Writes, v # w PROVE LogOf(v)'
    <2>1. LogOf(v) /\ cbLog'[v] = cbLog[v]
      BY <1>1, <1>2 DEF Logs
    <2> QED BY <1>2, <2>1 DEF LogOf
  <1>3. LogOf(w)'
    <2>1. LogOf(w)
      BY DEF Logs
    <2>2. CASE w \in Silent
      BY <1>1, <2>1, <2>2, LogsDiffer DEF LogOf
    <2>3. CASE w \notin Silent
      <3>1. w \in issued /\ ~InFlight(w)
        BY <1>1, <2>1, <2>3, LogsDiffer DEF LogOf
      <3> QED BY <1>1, <2>3, <3>1, LogsDiffer DEF LogOf
    <2> QED BY <2>2, <2>3
  <1> QED BY <1>2, <1>3 DEF Logs

-----------------------------------------------------------------------------
\* The bytes of a write.

\* Nothing is written, and whatever is newly reported as sent has left.
LEMMA KeepPositions ==
  ASSUME TypeOK, TypeOK', Positions, UNCHANGED accepted, issued \subseteq issued',
         Len(wire) <= Len(wire'),
         \A i \in DOMAIN queue' : \E j \in DOMAIN queue : queue'[i] = queue[j],
         \A i \in DOMAIN completed' :
           \/ \E j \in DOMAIN completed : completed'[i] = completed[j]
           \/ completed'[i].status = "ok" => SentBy(completed'[i].w, Len(wire')),
         \A w \in Writes : cbLog'[w] = <<"true", "freed">> =>
           cbLog[w] = <<"true", "freed">> \/ SentBy(w, Len(wire))
  PROVE  Positions'
  <1>1. Len(wire) \in Nat /\ Len(wire') \in Nat
    BY DEF TypeOK
  <1>2. DOMAIN accepted \subseteq Nat
    BY DEF TypeOK
  <1>3. \A w : SentBy(w, Len(wire)) => SentBy(w, Len(wire'))
    BY <1>1, <1>2 DEF SentBy
  <1>5. \A k \in DOMAIN accepted' : accepted'[k][1] \in issued'
    BY DEF Positions
  <1>6. \A i \in DOMAIN queue' : SentBy(queue'[i].w, queue'[i].end)
    BY DEF Positions
  <1>7. \A i \in DOMAIN completed' :
          completed'[i].status = "ok" => SentBy(completed'[i].w, Len(wire'))
    BY <1>3 DEF Positions
  <1>8. \A w \in Writes : cbLog'[w] = <<"true", "freed">> => SentBy(w, Len(wire'))
    BY <1>3 DEF Positions
  <1> QED BY <1>5, <1>6, <1>7, <1>8 DEF Positions, SentBy

\* A write that uv_try_write takes whole: everything accepted has left.
LEMMA AllPositions ==
  ASSUME TypeOK, Life, Backlog, Positions, NEW w \in Writes, MayWrite(w),
         NEW d \in Seq(Byte), BytesOf(w, d), WriteAll(w, d)
  PROVE  Positions'
  <1>1. queue = <<>> /\ sock = "ok" /\ handle = "open"
    BY DEF WriteAll, UvTryWrite, EAGAIN, TryError, MayWrite, Life
  <1>2. wire \in Seq(Byte) /\ accepted \in Seq(Byte) /\ accepted = wire
    BY <1>1, ConcatEmptySeq DEF TypeOK, Backlog
  <1>3. /\ wire' = wire \o d /\ accepted' = wire \o d /\ issued' = issued \cup {w}
        /\ UNCHANGED <<queue, completed>>
    BY <1>2 DEF WriteAll
  <1>4. /\ Len(wire) \in Nat /\ Len(d) \in Nat /\ DOMAIN accepted = 1..Len(wire)
        /\ DOMAIN accepted' = 1..Len(wire) + Len(d) /\ Len(wire') = Len(wire) + Len(d)
        /\ \A k \in 1..Len(wire) + Len(d) :
             accepted'[k] = IF k <= Len(wire) THEN accepted[k] ELSE d[k - Len(wire)]
    <2>1. /\ wire \o d \in Seq(Byte) /\ Len(wire \o d) = Len(wire) + Len(d)
          /\ \A k \in 1..Len(wire) + Len(d) :
               (wire \o d)[k] = IF k <= Len(wire) THEN wire[k] ELSE d[k - Len(wire)]
      BY <1>2, ConcatProperties
    <2> QED BY <1>2, <1>3, <2>1
  <1>5. \A k \in DOMAIN accepted' : accepted'[k][1] \in issued'
    BY <1>3, <1>4 DEF Positions, BytesOf
  <1>6. \A v : \A k \in DOMAIN accepted' : accepted'[k][1] = v => k <= Len(wire')
    BY <1>4
  <1> QED BY <1>1, <1>3, <1>5, <1>6 DEF Positions, SentBy

\* A write whose request joins the queue: its bytes end where the stream ends.
LEMMA QueuedPositions ==
  ASSUME TypeOK, Life, Backlog, Backlog', Positions, Logs,
         NEW w \in Writes \ issued, NEW d \in Seq(Byte), BytesOf(w, d),
         NEW r \in Partial(d), WriteQueued(w, d, r, Pending(d, r))
  PROVE  Positions'
  <1> DEFINE rest == Pending(d, r)
             taken == Taken(d, r)
             a == Len(accepted)
  <1>1. /\ wire \in Seq(Byte) /\ backlog \in Seq(Byte) /\ accepted \in Seq(Byte)
        /\ rest \in Seq(Byte) /\ taken \in Seq(Byte)
    BY PendingCompletes DEF TypeOK
  <1>2. /\ wire' = wire \o taken /\ backlog' = backlog \o rest
        /\ accepted' = accepted \o d /\ issued' = issued \cup {w}
        /\ queue' = Append(queue, [w |-> w, end |-> Len(wire') + Len(backlog) + Len(rest)])
        /\ UNCHANGED <<completed, cbLog>>
    BY DEF WriteQueued, UvWrite, Taken
  <1>3. /\ a \in Nat /\ Len(d) \in Nat /\ DOMAIN accepted = 1..a
        /\ DOMAIN accepted' = 1..a + Len(d) /\ Len(accepted') = a + Len(d)
        /\ \A k \in 1..a + Len(d) :
             accepted'[k] = IF k <= a THEN accepted[k] ELSE d[k - a]
    <2>1. /\ accepted \o d \in Seq(Byte) /\ Len(accepted \o d) = Len(accepted) + Len(d)
          /\ \A k \in 1..Len(accepted) + Len(d) :
               (accepted \o d)[k] = IF k <= Len(accepted) THEN accepted[k]
                                    ELSE d[k - Len(accepted)]
      BY <1>1, ConcatProperties
    <2> QED BY <1>1, <1>2, <2>1
  <1> HIDE DEF rest, taken
  <1>4. /\ Len(wire) \in Nat /\ Len(wire') \in Nat /\ Len(wire) <= Len(wire')
        /\ Len(wire') + Len(backlog) + Len(rest) = Len(accepted')
    <2>1. /\ wire' \in Seq(Byte) /\ backlog' \in Seq(Byte)
          /\ Len(wire') = Len(wire) + Len(taken)
          /\ Len(backlog') = Len(backlog) + Len(rest)
          /\ Len(wire) \in Nat /\ Len(taken) \in Nat
          /\ Len(backlog) \in Nat /\ Len(rest) \in Nat
      BY <1>1, <1>2, ConcatProperties
    <2>2. Len(wire' \o backlog') = Len(wire') + Len(backlog')
      BY <2>1, ConcatProperties
    <2>3. wire' \o backlog' = accepted'
      BY DEF Backlog
    <2> QED BY <2>1, <2>2, <2>3
  <1>5. \A k \in DOMAIN accepted' :
          \/ k \in DOMAIN accepted /\ accepted'[k] = accepted[k]
          \/ accepted'[k][1] = w
    BY <1>3 DEF BytesOf
  <1> HIDE DEF a
  <1>6. \A k \in DOMAIN accepted' : accepted'[k][1] \in issued'
    BY <1>2, <1>5 DEF Positions
  <1>7. ASSUME NEW v, v # w, NEW n, SentBy(v, n)
        PROVE  \A k \in DOMAIN accepted' : accepted'[k][1] = v => k <= n
    BY <1>5, <1>7 DEF SentBy
  <1>8. ASSUME NEW i \in DOMAIN queue'
        PROVE  \A k \in DOMAIN accepted' : accepted'[k][1] = queue'[i].w => k <= queue'[i].end
    <2> DEFINE entry == [w |-> w, end |-> Len(wire') + Len(backlog) + Len(rest)]
               T == [w : Writes, end : Nat]
    <2>1. /\ queue \in Seq(T) /\ queue' = Append(queue, entry)
          /\ entry.w = w /\ entry.end = Len(accepted')
      BY <1>2, <1>4 DEF TypeOK
    <2>2. entry \in T
      BY <1>3, <1>4 DEF a
    <2> HIDE DEF entry, T
    <2>3. /\ DOMAIN queue = 1..Len(queue) /\ Len(queue) \in Nat
          /\ DOMAIN queue' = 1..Len(queue) + 1
          /\ \A j \in 1..Len(queue) : queue'[j] = queue[j]
          /\ queue'[Len(queue) + 1] = entry
      BY <2>1, <2>2, AppendProperties
    <2>4. CASE i = Len(queue) + 1
      BY <1>3, <2>1, <2>3, <2>4
    <2>5. CASE i # Len(queue) + 1
      <3>1. i \in DOMAIN queue /\ queue'[i] = queue[i]
        BY <2>3, <2>5
      <3>2. queue[i].w \in Writes
        BY <3>1, RequestTypes
      <3>3. queue[i].w # w
        BY <3>1, <3>2 DEF Logs, LogOf, InFlight
      <3> QED BY <1>7, <3>1, <3>3 DEF Positions
    <2> QED BY <2>4, <2>5
  <1>9. ASSUME NEW i \in DOMAIN completed', completed'[i].status = "ok"
        PROVE  \A k \in DOMAIN accepted' : accepted'[k][1] = completed'[i].w => k <= Len(wire')
    <2>1. i \in DOMAIN completed /\ completed'[i] = completed[i]
      BY <1>2
    <2>2. completed[i].w \in Writes
      BY <2>1, RequestTypes
    <2>3. completed[i].w # w
      BY <2>1, <2>2 DEF Logs, LogOf, InFlight
    <2>4. SentBy(completed[i].w, Len(wire))
      BY <1>9, <2>1 DEF Positions
    <2>5. \A k \in DOMAIN accepted' : accepted'[k][1] = completed'[i].w => k <= Len(wire)
      BY <1>7, <2>1, <2>3, <2>4
    <2> QED BY <1>3, <1>4, <2>5
  <1>10. ASSUME NEW v \in Writes, cbLog'[v] = <<"true", "freed">>
         PROVE  \A k \in DOMAIN accepted' : accepted'[k][1] = v => k <= Len(wire')
    <2>1. cbLog[v] = <<"true", "freed">> /\ v # w
      BY <1>2, <1>10, LogsDiffer DEF Logs, LogOf
    <2>2. \A k \in DOMAIN accepted' : accepted'[k][1] = v => k <= Len(wire)
      BY <1>7, <2>1 DEF Positions
    <2> QED BY <1>3, <1>4, <2>2
  <1> QED BY <1>6, <1>8, <1>9, <1>10 DEF Positions, SentBy

\* Bytes of the oldest request leave; when it is done all bytes of its write have.
LEMMA FlushPositions ==
  ASSUME TypeOK, TypeOK', Requests, Backlog, Positions, FlushHead,
         UNCHANGED <<accepted, issued, cbLog>>
  PROVE  Positions'
  <1> DEFINE first == queue[1].end
  <1>1. /\ Head(queue) = queue[1] /\ 1 \in DOMAIN queue /\ queue # <<>>
        /\ first \in Len(wire) + 1 .. StreamLen /\ Len(wire) \in Nat
    <2>1. queue # <<>> /\ queue \in Seq([w : Writes, end : Nat]) /\ Len(wire) \in Nat
      BY DEF TypeOK, FlushHead
    <2>2. Head(queue) = queue[1] /\ 1 \in DOMAIN queue
      BY <2>1, TailOf
    <2> QED BY <2>1, <2>2 DEF Backlog
  <1>2. PICK n \in 1..(first - Len(wire)) :
          /\ wire' = wire \o SubSeq(backlog, 1, n)
          /\ IF n = first - Len(wire)
             THEN /\ queue' = Tail(queue)
                  /\ completed' = Append(completed, [w |-> Head(queue).w, status |-> "ok"])
             ELSE UNCHANGED <<queue, completed>>
    BY <1>1 DEF FlushHead
  <1>3. Len(wire') = Len(wire) + n
    <2>1. n \in 0..Len(backlog)
      BY <1>1, HeadFits
    <2>2. SubSeq(backlog, 1, n) \in Seq(Byte) /\ Len(SubSeq(backlog, 1, n)) = n
      BY <2>1, SplitParts DEF TypeOK
    <2> QED BY <1>2, <2>2, ConcatProperties DEF TypeOK
  <1>4. CASE n = first - Len(wire)
    <2>1. /\ queue' = Tail(queue)
          /\ completed' = Append(completed, [w |-> Head(queue).w, status |-> "ok"])
          /\ Len(wire') = first
      BY <1>1, <1>2, <1>3, <1>4
    <2>2. /\ DOMAIN queue' = 1..Len(queue) - 1 /\ DOMAIN queue = 1..Len(queue)
          /\ \A i \in 1..Len(queue) - 1 : queue'[i] = queue[i + 1] /\ i + 1 \in 1..Len(queue)
      BY <1>1, <2>1, TailOf DEF TypeOK
    <2>3. /\ Len(completed) \in Nat /\ DOMAIN completed = 1..Len(completed)
          /\ DOMAIN completed' = 1..Len(completed) + 1
          /\ \A i \in 1..Len(completed) : completed'[i] = completed[i]
          /\ completed'[Len(completed) + 1] = [w |-> Head(queue).w, status |-> "ok"]
      BY <1>1, <2>1, FinishRequests DEF Statuses
    <2>4. SentBy(queue[1].w, Len(wire'))
      BY <1>1, <2>1 DEF Positions
    <2>5. \A i \in DOMAIN queue' : \E j \in DOMAIN queue : queue'[i] = queue[j]
      BY <2>2
    <2>6. ASSUME NEW i \in DOMAIN completed'
          PROVE  \/ \E j \in DOMAIN completed : completed'[i] = completed[j]
                 \/ completed'[i].status = "ok" => SentBy(completed'[i].w, Len(wire'))
      <3>1. i \in 1..Len(completed) \/ i = Len(completed) + 1
        BY <2>3
      <3> QED BY <1>1, <2>3, <2>4, <3>1
    <2>7. Len(wire) <= Len(wire')
      BY <1>1, <1>2, <1>3
    <2> QED BY <2>5, <2>6, <2>7, KeepPositions
  <1>5. CASE n # first - Len(wire)
    <2>1. UNCHANGED <<queue, completed>> /\ Len(wire) <= Len(wire')
      BY <1>1, <1>2, <1>3, <1>5
    <2> QED BY <2>1, KeepPositions
  <1> QED BY <1>4, <1>5

-----------------------------------------------------------------------------
\* The steps.

\* A call to Write.
LEMMA WriteCallbacks ==
  ASSUME CInv, TypeOK', Backlog', CbCalls \subseteq {"Close"},
         NEW w \in Writes, MayWrite(w), NEW d \in Seq(Byte), BytesOf(w, d), WriteOf(w, d)
  PROVE  Requests' /\ Logs' /\ Positions'
  <1> USE DEF CInv, IInv
  <1>1. w \in Writes \ issued /\ frames = <<>> /\ ~InFlight(w)
    BY DEF MayWrite, MayCall, Logs, LogOf
  <1>2. ASSUME UNCHANGED <<queue, completed, wire, accepted>>,
               issued' = issued \cup {w},
               NEW events \in {<<"false">>, <<"false", "freed">>}, Log(w, events),
               frames' = IF events = <<"false">> THEN <<w>> ELSE <<>>
        PROVE  Requests' /\ Logs' /\ Positions'
    <2>1. Requests'
      BY <1>2, SameRequests
    <2>2. Logs'
      BY <1>1, <1>2, AnsweredLogs
    <2>3. \A v \in Writes : cbLog'[v] = <<"true", "freed">> => cbLog[v] = <<"true", "freed">>
      <3>1. cbLog[w] = <<>>
        BY <1>1 DEF Logs, LogOf
      <3>2. events # <<"true", "freed">>
        BY <1>2, LogsDiffer
      <3> QED BY <1>2, <3>1, <3>2, LogIs, LogSums
    <2>4. Len(wire) <= Len(wire') /\ issued \subseteq issued'
      BY <1>2 DEF TypeOK
    <2>5. Positions'
      BY <1>2, <2>3, <2>4, KeepPositions
    <2> QED BY <2>1, <2>2, <2>5
  <1>3. CASE WriteRefused(w, d)
    <2>1. /\ UNCHANGED <<queue, completed, wire, accepted, frames>>
          /\ issued' = issued \cup {w} /\ Log(w, <<"false", "freed">>)
      BY <1>3 DEF WriteRefused, streamVars
    <2> QED BY <1>1, <1>2, <2>1, LogsDiffer
  <1>4. CASE WriteError(w, d)
    <2>1. /\ UNCHANGED <<queue, completed, wire, accepted>> /\ frames' = <<w>>
          /\ issued' = issued \cup {w} /\ Log(w, <<"false">>)
      BY <1>1, <1>4 DEF WriteError, ioVars
    <2> QED BY <1>1, <1>2, <2>1
  <1>5. CASE WriteAll(w, d)
    <2>1. /\ UNCHANGED <<queue, completed, frames>>
          /\ issued' = issued \cup {w} /\ Log(w, <<"true", "freed">>)
      BY <1>5 DEF WriteAll
    <2>2. Requests'
      BY <2>1, SameRequests
    <2>3. Logs'
      <3>1. frames' = IF <<"true", "freed">> = <<"false">> THEN <<w>> ELSE <<>>
        BY <1>1, <2>1, LogsDiffer
      <3> QED BY <1>1, <2>1, <3>1, AnsweredLogs
    <2>4. Positions'
      BY <1>5, AllPositions
    <2> QED BY <2>2, <2>3, <2>4
  <1>6. ASSUME NEW r \in Partial(d), WriteQueued(w, d, r, Pending(d, r))
        PROVE  Requests' /\ Logs' /\ Positions'
    <2> DEFINE end == Len(wire') + Len(backlog) + Len(Pending(d, r))
    <2>1. /\ queue' = Append(queue, [w |-> w, end |-> end])
          /\ UNCHANGED <<completed, cbLog, frames>> /\ issued' = issued \cup {w}
      BY <1>6 DEF WriteQueued, UvWrite
    <2>2. end \in Nat
      BY PendingCompletes DEF TypeOK
    <2> HIDE DEF end
    <2>3. Requests' /\ \A v : InFlight(v)' <=> InFlight(v) \/ v = w
      BY <1>1, <2>1, <2>2, QueueRequests
    <2>4. Logs'
      BY <1>1, <2>1, <2>3, QueuedLogs
    <2>5. Positions'
      BY <1>1, <1>6, QueuedPositions
    <2> QED BY <2>3, <2>4, <2>5
  <1> QED BY <1>3, <1>4, <1>5, <1>6 DEF WriteOf

\* A callback dispatched by onWrite.
LEMMA DispatchCallbacks ==
  ASSUME CInv, TypeOK', OnWrite
  PROVE  Requests' /\ Logs' /\ Positions'
  <1> USE DEF CInv, IInv
  <1> DEFINE c == Head(completed)
  <1>1. /\ frames = <<>> /\ completed # <<>> /\ completed' = Tail(completed)
        /\ UNCHANGED <<queue, wire, issued, accepted>>
    BY DEF OnWrite, Idle
  <1>2. PICK events \in {<<"freed">>, <<"true", "freed">>, <<"false">>} :
          /\ Log(c.w, events)
          /\ frames' = IF events = <<"false">> THEN <<c.w>> ELSE <<>>
          /\ events = <<"true", "freed">> => c.status = "ok"
    <2>1. \/ Log(c.w, <<"freed">>) /\ frames' = frames
          \/ Log(c.w, <<"true", "freed">>) /\ frames' = frames /\ c.status = "ok"
          \/ Log(c.w, <<"false">>) /\ frames' = Append(frames, c.w)
      BY DEF OnWrite
    <2>2. Append(<<>>, c.w) = <<c.w>>
      OBVIOUS
    <2> QED BY <1>1, <2>1, <2>2, LogsDiffer
  <1>3. /\ c = completed[1] /\ 1 \in DOMAIN completed
        /\ DOMAIN completed' = 1..Len(completed) - 1
        /\ \A i \in 1..Len(completed) - 1 :
             completed'[i] = completed[i + 1] /\ i + 1 \in DOMAIN completed
    BY <1>1, TailOf DEF TypeOK
  <1>4. /\ Requests' /\ c.w \in Writes /\ InFlight(c.w)
        /\ \A v : InFlight(v)' <=> InFlight(v) /\ v # c.w
    BY <1>1, DispatchRequests
  <1> HIDE DEF c
  <1>5. Logs'
    BY <1>1, <1>2, <1>4, DispatchLogs
  <1>6. ASSUME NEW v \in Writes, cbLog'[v] = <<"true", "freed">>
        PROVE  cbLog[v] = <<"true", "freed">> \/ SentBy(v, Len(wire))
    <2>1. CASE v # c.w
      BY <1>2, <1>4, <1>6, <2>1, LogIs
    <2>2. CASE v = c.w
      <3>1. cbLog[v] = <<>>
        BY <1>4, <2>2 DEF Logs, LogOf
      <3>2. events = <<"true", "freed">>
        BY <1>2, <1>4, <1>6, <2>2, <3>1, LogIs, LogSums, LogsDiffer
      <3> QED BY <1>2, <1>3, <2>2, <3>2 DEF Positions
    <2> QED BY <2>1, <2>2
  <1>7. Positions'
    <2>1. Len(wire) <= Len(wire') /\ issued \subseteq issued'
      BY <1>1 DEF TypeOK
    <2>2. \A i \in DOMAIN completed' : \E j \in DOMAIN completed : completed'[i] = completed[j]
      BY <1>3
    <2> QED BY <1>1, <1>6, <2>1, <2>2, KeepPositions
  <1> QED BY <1>4, <1>5, <1>7

\* A failure callback returns.
LEMMA ReturnCallbacks ==
  ASSUME CInv, TypeOK', CbReturn
  PROVE  Requests' /\ Logs' /\ Positions'
  <1> USE DEF CInv, IInv
  <1>1. frames # <<>> /\ Len(frames) = 1
    BY DEF CbReturn, Life
  <1> DEFINE w == frames[1]
  <1>2. /\ w \in Writes /\ frames' = <<>> /\ Log(w, <<"freed">>)
        /\ UNCHANGED <<queue, completed, wire, issued, accepted>>
    BY <1>1 DEF CbReturn, ioVars, TypeOK
  <1> HIDE DEF w
  <1>3. Requests' /\ \A v : InFlight(v)' <=> InFlight(v)
    BY <1>2, SameRequests
  <1>4. Logs'
    BY <1>1, <1>2, <1>3, ReturnLogs DEF w
  <1>5. \A v \in Writes : cbLog'[v] = <<"true", "freed">> => cbLog[v] = <<"true", "freed">>
    <2>1. w \notin Silent => cbLog[w] = <<"false">>
      BY <1>1, <1>2 DEF Logs, LogOf, w
    <2> QED BY <1>2, <2>1, LogIs, LogSums, LogsDiffer
  <1>6. Positions'
    <2>1. Len(wire) <= Len(wire') /\ issued \subseteq issued'
      BY <1>2 DEF TypeOK
    <2> QED BY <1>2, <1>5, <2>1, KeepPositions
  <1> QED BY <1>3, <1>4, <1>6

\* libuv's own steps on the requests.
LEMMA LoopCallbacks ==
  ASSUME CInv, TypeOK', Transmit \/ Cancel
  PROVE  Requests' /\ Logs' /\ Positions'
  <1> USE DEF CInv, IInv
  <1>1. UNCHANGED <<cbLog, issued, accepted, frames>>
    BY DEF Transmit, Cancel, sendVars
  <1>2. CASE Transmit /\ FlushHead
    <2>1. Requests' /\ \A v : InFlight(v)' <=> InFlight(v)
      <3>1. CASE UNCHANGED <<queue, completed>>
        BY <3>1, SameRequests
      <3>2. CASE /\ queue # <<>> /\ queue' = Tail(queue)
                 /\ completed' = Append(completed, [w |-> Head(queue).w, status |-> "ok"])
        BY <3>2, FinishRequests DEF Statuses
      <3> QED BY <1>2, <3>1, <3>2 DEF FlushHead
    <2> QED BY <1>1, <1>2, <2>1, SameLogs, FlushPositions
  <1>3. CASE Transmit /\ FailHead
    <2>1. PICK s \in WriteErrors :
            /\ queue # <<>> /\ queue' = Tail(queue)
            /\ completed' = Append(completed, [w |-> Head(queue).w, status |-> s])
      BY <1>3 DEF FailHead
    <2>2. s \in Statuses /\ s # "ok"
      BY DEF Statuses, WriteErrors
    <2>3. /\ Requests' /\ \A v : InFlight(v)' <=> InFlight(v)
          /\ Len(completed) \in Nat /\ DOMAIN completed = 1..Len(completed)
          /\ DOMAIN completed' = 1..Len(completed) + 1
          /\ \A i \in 1..Len(completed) : completed'[i] = completed[i]
          /\ completed'[Len(completed) + 1] = [w |-> Head(queue).w, status |-> s]
      BY <2>1, <2>2, FinishRequests
    <2>4. \A i \in DOMAIN completed' :
            \/ \E j \in DOMAIN completed : completed'[i] = completed[j]
            \/ completed'[i].status # "ok"
      <3>1. \A i \in DOMAIN completed' : i \in DOMAIN completed \/ i = Len(completed) + 1
        BY <2>3
      <3> QED BY <2>2, <2>3, <3>1
    <2>5. \A i \in DOMAIN queue' : \E j \in DOMAIN queue : queue'[i] = queue[j]
      <3>1. \A i \in 1..Len(queue) - 1 : queue'[i] = queue[i + 1] /\ i + 1 \in DOMAIN queue
        BY <2>1, TailOf DEF TypeOK
      <3>2. DOMAIN queue' = 1..Len(queue) - 1
        BY <2>1, TailOf DEF TypeOK
      <3> QED BY <3>1, <3>2
    <2>6. Len(wire) <= Len(wire') /\ issued \subseteq issued'
      BY <1>1, <1>3 DEF FailHead, TypeOK
    <2> QED BY <1>1, <2>3, <2>4, <2>5, <2>6, SameLogs, KeepPositions
  <1>4. CASE Cancel
    <2>1. /\ Requests' /\ \A v : InFlight(v)' <=> InFlight(v)
          /\ \A i \in DOMAIN completed' :
               \/ i \in DOMAIN completed /\ completed'[i] = completed[i]
               \/ completed'[i].status = "ECANCELED"
      BY <1>4, CancelRequests DEF Cancel
    <2>2. DOMAIN queue' = {} /\ Len(wire) <= Len(wire') /\ issued \subseteq issued'
      BY <1>1, <1>4 DEF Cancel, CancelQueue, TypeOK
    <2> QED BY <1>1, <2>1, <2>2, SameLogs, KeepPositions
  <1> QED BY <1>2, <1>3, <1>4 DEF Transmit

\* Every step keeps requests, logs and positions in order.
LEMMA CallbackStep ==
  ASSUME CbCalls \subseteq {"Close"}
  PROVE  CInv /\ [Next]_vars => CInv'
  <1> SUFFICES ASSUME CInv, [Next]_vars PROVE CInv'
    OBVIOUS
  <1>1. IInv'
    BY TypeStep, LifeStep, BacklogStep DEF CInv, IInv
  <1> SUFFICES Requests' /\ Logs' /\ Positions'
    BY <1>1 DEF CInv
  <1>2. TypeOK' /\ Backlog'
    BY <1>1 DEF IInv
  <1>3. ASSUME UNCHANGED <<queue, completed, wire, accepted, issued, cbLog, frames>>
        PROVE  Requests' /\ Logs' /\ Positions'
    <2>1. Requests' /\ Logs'
      BY <1>3, SameRequests, SameLogs DEF CInv
    <2>2. Positions'
      BY <1>3 DEF CInv, Positions, SentBy
    <2> QED BY <2>1, <2>2
  <1> USE DEF streamVars, objVars, recvVars, ioVars, sendVars
  <1>4. CASE Setup \/ Start \/ UserClose \/ ErrorReceiving \/ Destroy
    BY <1>3, <1>4 DEF Setup, Start, UserClose, ErrorReceiving, Destroy
  <1>5. ASSUME NEW w \in Writes, NEW n \in 0..MaxLen, WriteOne(w, n)
        PROVE  Requests' /\ Logs' /\ Positions'
    BY <1>2, <1>5, WriteForm, WriteCallbacks
  <1>6. ASSUME NEW w \in Writes, NEW n1 \in 0..MaxLen, NEW n2 \in 0..MaxLen,
               WriteTwo(w, n1, n2)
        PROVE  Requests' /\ Logs' /\ Positions'
    BY <1>2, <1>6, WriteForm, WriteCallbacks
  <1>7. CASE CbReturn
    BY <1>2, <1>7, ReturnCallbacks
  <1>8. CASE \E n \in 1..BufferSize : Consume(n) \/ OnReadData(n)
    BY <1>3, <1>8 DEF Consume, OnReadData
  <1>9. CASE OnReadByPeer \/ OnReadError
    BY <1>3, <1>9 DEF OnReadByPeer, OnReadError, OnReadEnd
  <1>10. CASE OnWrite
    BY <1>2, <1>10, DispatchCallbacks
  <1>11. CASE OnShutdown \/ OnClose \/ Reset
    BY <1>3, <1>11 DEF OnShutdown, OnClose, Reset, Break
  <1>12. CASE Transmit \/ Cancel
    BY <1>2, <1>12, LoopCallbacks
  <1>13. CASE UNCHANGED vars
    BY <1>3, <1>13 DEF vars
  <1> QED
    BY <1>4, <1>5, <1>6, <1>7, <1>8, <1>9, <1>10, <1>11, <1>12, <1>13
    DEF Next, AppNext, LoopNext

-----------------------------------------------------------------------------
\* The inductive invariant with the callbacks holds of every reachable state,
\* as long as the application does no more than Close the connection in a
\* failure callback.
THEOREM CallbackInvariant ==
  ASSUME CbCalls \subseteq {"Close"}
  PROVE  Spec => []CInv
  <1>1. Init => Requests /\ Logs /\ Positions
    <2> SUFFICES ASSUME Init PROVE Requests /\ Logs /\ Positions
      OBVIOUS
    <2>1. /\ DOMAIN queue = {} /\ DOMAIN completed = {} /\ DOMAIN accepted = {}
          /\ frames = <<>> /\ issued = {} /\ \A w \in Writes : cbLog[w] = <<>>
      BY DEF Init
    <2>2. Requests /\ \A w : ~InFlight(w)
      BY <2>1 DEF Requests, Queued, InFlight
    <2>3. Logs
      BY <2>1, <2>2, LogsDiffer DEF Logs, LogOf
    <2>4. Positions
      BY <2>1, LogsDiffer DEF Positions
    <2> QED BY <2>2, <2>3, <2>4
  <1>2. Init /\ IInv => CInv
    BY <1>1 DEF CInv
  <1>3. CInv /\ [Next]_vars => CInv'
    BY CallbackStep
  <1>4. Spec => []IInv
    BY Invariant
  <1> QED BY <1>2, <1>3, <1>4, PTL DEF Spec

\* However calls, partial writes, failures and closes interleave, a callback
\* given to Write runs at most once, is deleted once and afterwards, is left
\* alone while libuv has its request, and hears true only of bytes that left.
THEOREM CallbacksOnce ==
  ASSUME CbCalls \subseteq {"Close"}
  PROVE  Spec => []CallbackDiscipline
  <1>1. ASSUME CInv PROVE CallbackDiscipline
    <2> SUFFICES ASSUME NEW w \in Writes
                 PROVE  /\ cbLog[w] \in {<<>>, <<"false">>, <<"freed">>,
                                         <<"true", "freed">>, <<"false", "freed">>}
                        /\ InFlight(w) => cbLog[w] = <<>>
                        /\ cbLog[w] = <<"false">> => \E i \in DOMAIN frames : frames[i] = w
                        /\ w \in issued \ Silent /\ cbLog[w] = <<>> => InFlight(w)
                        /\ "true" \in {cbLog[w][i] : i \in DOMAIN cbLog[w]} =>
                             \A i \in DOMAIN accepted : accepted[i][1] = w => i <= Len(wire)
      BY DEF CallbackDiscipline
    <2>1. LogOf(w)
      BY <1>1 DEF CInv, Logs
    <2>2. cbLog[w] = <<"false">> => \E i \in DOMAIN frames : frames[i] = w
      <3>1. frames # <<>> => 1 \in DOMAIN frames
        BY <1>1 DEF CInv, IInv, TypeOK
      <3> QED BY <2>1, <3>1 DEF LogOf
    <2>3. "true" \in {cbLog[w][i] : i \in DOMAIN cbLog[w]} => cbLog[w] = <<"true", "freed">>
      <3>1. \A l \in {<<>>, <<"false">>, <<"freed">>, <<"false", "freed">>} :
              \A i \in DOMAIN l : l[i] # "true"
        OBVIOUS
      <3> QED BY <2>1, <3>1 DEF LogOf
    <2>4. cbLog[w] = <<"true", "freed">> => SentBy(w, Len(wire))
      BY <1>1 DEF CInv, Positions
    <2> QED BY <2>1, <2>2, <2>3, <2>4 DEF LogOf, SentBy
  <1>2. CInv => CallbackDiscipline
    BY <1>1
  <1> QED BY <1>2, CallbackInvariant, PTL

\* A write that waits when the connection closes is never answered: the one thing
\* that can still happen to its callback is that it is deleted.
THEOREM NeverAnsweredAfterClose ==
  ASSUME CbCalls \subseteq {"Close"}
  PROVE  Spec => SilentAfterClose
  <1>1. ASSUME CInv, [Next]_vars,
               NEW w \in Writes, closed, InFlight(w), frames = <<>>
        PROVE  cbLog'[w] \in {<<>>, <<"freed">>}
    <2>1. cbLog[w] = <<>> /\ w \in issued /\ ~data
      BY <1>1 DEF CInv, IInv, Life, Logs, LogOf
    <2>2. CASE UNCHANGED cbLog
      BY <2>1, <2>2
    <2>3. ASSUME NEW v \in Writes \ issued, NEW d \in Seq(Byte), WriteOf(v, d)
          PROVE  cbLog'[w] = <<>>
      <3>1. CASE UNCHANGED cbLog
        BY <2>1, <3>1
      <3>2. ASSUME NEW events, Log(v, events) PROVE cbLog'[w] = cbLog[w]
        BY <1>1, <2>1, <3>2, LogIs DEF CInv, IInv
      <3> QED BY <2>1, <2>3, <3>1, <3>2
          DEF WriteOf, WriteRefused, WriteAll, WriteQueued, WriteError
    <2>4. CASE OnWrite
      <3>1. Log(Head(completed).w, <<"freed">>)
        BY <2>1, <2>4 DEF OnWrite
      <3>2. Head(completed).w \in Writes
        BY <1>1, <2>4, TailOf, RequestTypes DEF OnWrite, CInv, IInv, TypeOK
      <3> QED BY <1>1, <2>1, <3>1, <3>2, LogIs, LogSums DEF CInv, IInv
    <2>5. ~CbReturn
      BY <1>1 DEF CbReturn
    <2>6. ASSUME NEW v \in Writes, NEW n \in 0..MaxLen, WriteOne(v, n)
          PROVE  cbLog'[w] = <<>>
      BY <2>3, <2>6, WriteForm DEF MayWrite
    <2>7. ASSUME NEW v \in Writes, NEW n1 \in 0..MaxLen, NEW n2 \in 0..MaxLen,
                 WriteTwo(v, n1, n2)
          PROVE  cbLog'[w] = <<>>
      BY <2>3, <2>7, WriteForm DEF MayWrite
    <2>8. CASE \/ Setup \/ Start \/ UserClose \/ ErrorReceiving \/ Destroy
               \/ \E n \in 1..BufferSize : Consume(n) \/ OnReadData(n)
               \/ OnReadByPeer \/ OnReadError \/ OnShutdown \/ OnClose
               \/ Transmit \/ Cancel \/ Reset \/ UNCHANGED vars
      BY <2>2, <2>8 DEF Setup, Start, UserClose, ErrorReceiving, Destroy, Consume,
         OnReadData, OnReadByPeer, OnReadError, OnReadEnd, OnShutdown, OnClose,
         Transmit, Cancel, Reset, sendVars, vars
    <2> QED BY <1>1, <2>4, <2>5, <2>6, <2>7, <2>8 DEF Next, AppNext, LoopNext
  <1> DEFINE Silence == \A w \in Writes :
               closed /\ InFlight(w) /\ frames = <<>> => cbLog'[w] \in {<<>>, <<"freed">>}
  <1>2. CInv /\ [Next]_vars => [Silence]_vars
    BY <1>1
  <1>3. Spec => []CInv
    BY CallbackInvariant
  <1> HIDE DEF Silence
  <1>4. Spec => [][Silence]_vars
    BY <1>2, <1>3, PTL DEF Spec
  <1> QED BY <1>4 DEF Silence, SilentAfterClose

-----------------------------------------------------------------------------
(***************************************************************************)
(* The bytes, as they are accepted, leave and end, are those of a          *)
(* ByteChannel.                                                            *)
(***************************************************************************)
\* A stream that was shut down in order is closing or gone, and stays so.
Sealed ==
  fin => closed /\ shutting = "done" /\ handle \in {"closing", "freed"}

RInv == IInv /\ Sealed

-----------------------------------------------------------------------------
\* Prefixes.

\* A sequence begins a longer one, and itself.
LEMMA PrefixOf ==
  ASSUME NEW s \in Seq(Byte), NEW t \in Seq(Byte)
  PROVE  s \in Channel!Prefixes(s \o t) /\ s \in Channel!Prefixes(s)
  <1>1. SubSeq(s, 1, Len(s)) = s /\ Len(s) \in Nat
    BY SubSeqFull
  <1>2. SubSeq(s \o t, 1, Len(s)) = s /\ Len(s) \in 0..Len(s \o t)
    <2>1. /\ s \o t \in Seq(Byte) /\ Len(s \o t) = Len(s) + Len(t)
          /\ Len(s) \in Nat /\ Len(t) \in Nat
          /\ \A i \in 1..Len(s) + Len(t) :
               (s \o t)[i] = IF i <= Len(s) THEN s[i] ELSE t[i - Len(s)]
      BY ConcatProperties
    <2> DEFINE st == s \o t
    <2>2. st \in Seq(Byte) /\ Len(s) \in 0..Len(st)
      BY <2>1
    <2>3. \A i \in 1..Len(s) : st[i] = s[i] /\ st[i] \in Byte
      BY <2>1
    <2> HIDE DEF st
    <2>4. /\ SubSeq(st, 1, Len(s)) \in Seq(Byte) /\ Len(SubSeq(st, 1, Len(s))) = Len(s)
          /\ \A i \in 1..Len(s) : SubSeq(st, 1, Len(s))[i] = st[i]
      <3>1. /\ SubSeq(st, 1, Len(s)) \in Seq(Byte)
            /\ Len(SubSeq(st, 1, Len(s))) = IF 1 <= Len(s) THEN Len(s) - 1 + 1 ELSE 0
            /\ \A i \in 1..Len(s) - 1 + 1 : SubSeq(st, 1, Len(s))[i] = st[1 + i - 1]
        <4>1. 1 \in Int /\ Len(s) \in Int /\ \A i \in 1..Len(s) : st[i] \in Byte
          BY <2>1, <2>3
        <4> QED BY <4>1, SubSeqProperties
      <3> QED BY <2>1, <3>1
    <2>5. SubSeq(st, 1, Len(s)) = s
      BY <2>3, <2>4, SeqEqual
    <2> QED BY <2>2, <2>5 DEF st
  <1>3. s \in Channel!Prefixes(s)
    <2>1. Len(s) \in 0..Len(s) /\ s = SubSeq(s, 1, Len(s))
      BY <1>1
    <2> QED BY <2>1 DEF Channel!Prefixes
  <1>4. s \in Channel!Prefixes(s \o t)
    BY <1>2 DEF Channel!Prefixes
  <1> QED BY <1>3, <1>4

-----------------------------------------------------------------------------
\* The end of the stream is written down only where it happens.
LEMMA SealedStep == RInv /\ [Next]_vars => Sealed'
  <1> SUFFICES ASSUME RInv, [Next]_vars PROVE Sealed'
    OBVIOUS
  <1> USE DEF RInv, IInv
  <1> USE DEF streamVars, objVars, ioVars, recvVars, sendVars
  <1>1. CASE UNCHANGED fin
    <2>1. fin => closed' /\ shutting' = "done" /\ handle' \in {"closing", "freed"}
      <3> SUFFICES ASSUME fin
                   PROVE  closed' /\ shutting' = "done" /\ handle' \in {"closing", "freed"}
        OBVIOUS
      <3>1. closed /\ shutting = "done" /\ handle \in {"closing", "freed"}
        BY DEF Sealed
      <3>2. ASSUME NEW error, NEW byPeer, Close(error, byPeer)
            PROVE  UNCHANGED <<closed, shutting, handle>>
        BY <3>1, <3>2 DEF Close
      <3>3. CASE Setup \/ Start
        BY <3>1, <3>3 DEF Setup, Start
      <3>4. CASE UserClose \/ ErrorReceiving \/ Destroy
        BY <3>1, <3>2, <3>4 DEF UserClose, ErrorReceiving, Destroy
      <3>5. ASSUME NEW w \in Writes, NEW d \in Seq(Byte), WriteOf(w, d)
            PROVE  UNCHANGED <<closed, shutting, handle>>
        BY <3>5 DEF WriteOf, WriteRefused, WriteAll, WriteQueued, WriteError
      <3>6. ASSUME NEW w \in Writes, NEW n \in 0..MaxLen, WriteOne(w, n)
            PROVE  UNCHANGED <<closed, shutting, handle>>
        BY <3>5, <3>6, WriteForm
      <3>7. ASSUME NEW w \in Writes, NEW n1 \in 0..MaxLen, NEW n2 \in 0..MaxLen,
                   WriteTwo(w, n1, n2)
            PROVE  UNCHANGED <<closed, shutting, handle>>
        BY <3>5, <3>7, WriteForm
      <3>8. CASE CbReturn
        BY <3>1, <3>2, <3>8 DEF CbReturn
      <3>9. CASE \E n \in 1..BufferSize : Consume(n) \/ OnReadData(n)
        BY <3>1, <3>9 DEF Consume, OnReadData
      <3>10. CASE OnReadByPeer \/ OnReadError
        BY <3>1, <3>10 DEF OnReadByPeer, OnReadError, OnReadEnd, Life
      <3>11. CASE OnWrite \/ OnClose
        BY <3>1, <3>11 DEF OnWrite, OnClose
      <3>12. CASE OnShutdown
        BY <3>1, <3>12 DEF OnShutdown, ShutdownEnds
      <3>13. CASE Transmit \/ Cancel \/ Reset \/ UNCHANGED vars
        BY <3>1, <3>13 DEF Transmit, FlushHead, FailHead, Cancel, CancelQueue, Reset,
           Break, vars
      <3> QED BY <3>1, <3>3, <3>4, <3>6, <3>7, <3>8, <3>9, <3>10, <3>11, <3>12, <3>13
          DEF Next, AppNext, LoopNext
    <2> QED BY <1>1, <2>1 DEF Sealed
  <1>2. CASE OnShutdown
    BY <1>2 DEF OnShutdown, ShutdownEnds, Life, Sealed
  <1>3. OnShutdown \/ UNCHANGED fin
    <2>1. ASSUME NEW w \in Writes, NEW d \in Seq(Byte), WriteOf(w, d) PROVE UNCHANGED fin
      BY <2>1 DEF WriteOf, WriteRefused, WriteAll, WriteQueued, WriteError
    <2>2. (\E w \in Writes, n \in 0..MaxLen : WriteOne(w, n)) => UNCHANGED fin
      BY <2>1, WriteForm
    <2>3. (\E w \in Writes, n1, n2 \in 0..MaxLen : WriteTwo(w, n1, n2)) => UNCHANGED fin
      BY <2>1, WriteForm
    <2>4. CASE \/ Setup \/ Start \/ UserClose \/ ErrorReceiving \/ Destroy \/ CbReturn
               \/ \E n \in 1..BufferSize : Consume(n) \/ OnReadData(n)
               \/ OnReadByPeer \/ OnReadError \/ OnWrite \/ OnClose
               \/ Transmit \/ Cancel \/ Reset \/ UNCHANGED vars
      BY <2>4 DEF Setup, Start, UserClose, ErrorReceiving, Destroy, CbReturn, Consume,
         OnReadData, OnReadByPeer, OnReadError, OnReadEnd, OnWrite, OnClose, Transmit,
         FlushHead, FailHead, Cancel, CancelQueue, Reset, Break, vars
    <2> QED BY <2>2, <2>3, <2>4 DEF Next, AppNext, LoopNext
  <1> QED BY <1>1, <1>2, <1>3

-----------------------------------------------------------------------------
\* Steps of the connection as steps of the channel.

\* A step that writes nothing and leaves the stream as it was.
LEMMA Stutter ==
  ASSUME UNCHANGED <<accepted, wire, fin, closed>>,
         handle' \in {"closing", "freed"} <=> handle \in {"closing", "freed"}
  PROVE  UNCHANGED Channel!vars
  BY DEF Channel!vars, channelStatus

\* Close: the stream is closing or lost, and was open or stays as it is.
LEMMA CloseChannel ==
  ASSUME RInv, handle # "raw", NEW error, NEW byPeer, Close(error, byPeer),
         UNCHANGED <<accepted, wire, fin>>
  PROVE  [Channel!Next]_Channel!vars
  <1>1. CASE closed
    BY <1>1, Stutter DEF Close
  <1>2. CASE ~closed
    <2>1. handle = "open" /\ shutting = "none" /\ closed' /\ ~fin /\ channelStatus = "open"
      BY <1>2 DEF Close, RInv, IInv, TypeOK, Life, Sealed, channelStatus
    <2>2. channelStatus' \in {"closing", "lost"}
      BY <2>1 DEF channelStatus
    <2> QED BY <2>1, <2>2 DEF Channel!Next, Channel!Close, Channel!Lose
  <1> QED BY <1>1, <1>2

\* A Write is the channel's Accept when it is taken, else nothing.
LEMMA WriteChannel ==
  ASSUME RInv, IInv', NEW w \in Writes, NEW d \in Seq(Byte), WriteOf(w, d), MayWrite(w)
  PROVE  [Channel!Next]_Channel!vars
  <1>1. CASE WriteRefused(w, d) \/ WriteError(w, d)
    BY <1>1, Stutter DEF WriteRefused, WriteError, streamVars, objVars, ioVars
  <1>2. ASSUME NEW taken \in Seq(Byte), wire' = wire \o taken, accepted' = accepted \o d,
               ~closed, UNCHANGED <<fin, closed, handle>>
        PROVE  Channel!Accept
    <2>1. /\ wire \in Seq(Byte) /\ accepted \in Seq(Byte)
          /\ wire' \in Seq(Byte) /\ backlog' \in Seq(Byte) /\ accepted' \in Seq(Byte)
          /\ wire' \o backlog' = accepted'
      BY DEF RInv, IInv, TypeOK, Backlog
    <2>2. wire' \in Channel!Prefixes(accepted') /\ wire \in Channel!Prefixes(wire')
          /\ accepted \in Channel!Prefixes(accepted')
      BY <1>2, <2>1, PrefixOf
    <2>3. channelStatus = "open" /\ channelStatus' = channelStatus
      BY <1>2 DEF RInv, IInv, Life, Sealed, channelStatus
    <2> QED BY <2>1, <2>2, <2>3 DEF Channel!Accept, Channel!Extends
  <1>3. CASE WriteAll(w, d)
    BY <1>2, <1>3 DEF WriteAll, objVars, Channel!Next
  <1>4. ASSUME NEW r \in Partial(d), WriteQueued(w, d, r, Pending(d, r))
        PROVE  Channel!Accept
    <2>1. Taken(d, r) \in Seq(Byte)
      BY PendingCompletes
    <2> QED BY <1>2, <1>4, <2>1 DEF WriteQueued, Taken, objVars
  <1> QED BY <1>1, <1>3, <1>4 DEF WriteOf, Channel!Next

\* uv__write is the channel's Deliver.
LEMMA FlushChannel ==
  ASSUME RInv, IInv', FlushHead, UNCHANGED <<accepted, closed>>
  PROVE  Channel!Deliver
  <1>1. /\ wire \in Seq(Byte) /\ backlog \in Seq(Byte)
        /\ wire' \in Seq(Byte) /\ backlog' \in Seq(Byte) /\ wire' \o backlog' = accepted
    BY DEF RInv, IInv, TypeOK, Backlog
  <1>2. PICK n \in 1..(Head(queue).end - Len(wire)) : wire' = wire \o SubSeq(backlog, 1, n)
    BY DEF FlushHead
  <1>3. SubSeq(backlog, 1, n) \in Seq(Byte)
    <2>1. n \in 0..Len(backlog)
      BY HeadFits DEF RInv, IInv, FlushHead
    <2> QED BY <1>1, <2>1, SplitParts
  <1>4. wire' \in Channel!Prefixes(accepted) /\ wire \in Channel!Prefixes(wire')
    BY <1>1, <1>2, <1>3, PrefixOf
  <1>5. /\ handle = "open" /\ UNCHANGED <<handle, fin>> /\ ~fin
    BY DEF FlushHead, RInv, Sealed
  <1>6. channelStatus \in {"open", "closing"} /\ channelStatus' = channelStatus
    BY <1>5 DEF channelStatus
  <1> QED BY <1>4, <1>6 DEF Channel!Deliver, Channel!Extends

\* onShutdown is the channel's Seal when the socket is sound: nothing is queued,
\* so everything accepted has left.  On a broken one the channel is lost.
LEMMA ShutdownChannel ==
  ASSUME RInv, OnShutdown
  PROVE  [Channel!Next]_Channel!vars
  <1>1. /\ shutting = "requested" /\ queue = <<>> /\ handle' = "closing"
        /\ UNCHANGED <<wire, accepted, closed>>
        /\ fin' = (sock = "ok" /\ handle = "open") /\ closed /\ ~fin
        /\ handle \in {"open", "closing"}
    BY DEF OnShutdown, ShutdownEnds, ioVars, objVars, sendVars, RInv, IInv, TypeOK,
       Life, Sealed
  <1>2. handle = "open"
    BY <1>1 DEF RInv, IInv, Life
  <1>3. channelStatus = "closing"
    BY <1>1, <1>2 DEF channelStatus
  <1>4. CASE sock = "ok"
    <2>1. backlog = <<>> /\ wire = accepted
      BY <1>1, <1>2, <1>4, ConcatEmptySeq DEF RInv, IInv, TypeOK, Backlog
    <2>2. channelStatus' = "sealed"
      BY <1>1, <1>2, <1>4 DEF channelStatus
    <2> QED BY <1>1, <1>3, <2>1, <2>2 DEF Channel!Next, Channel!Seal
  <1>5. CASE sock # "ok"
    <2>1. channelStatus' = "lost"
      BY <1>1, <1>5 DEF channelStatus
    <2> QED BY <1>1, <1>3, <2>1 DEF Channel!Next, Channel!Lose
  <1> QED BY <1>4, <1>5

\* Every step of the connection is a step of the channel or a stutter.
LEMMA ChannelStep ==
  ASSUME RInv, IInv', [Next]_vars
  PROVE  [Channel!Next]_Channel!vars
  <1> USE DEF streamVars, objVars, ioVars, recvVars, sendVars
  <1>1. CASE Setup \/ Start
    BY <1>1, Stutter DEF Setup, UvOpen, Start
  <1>2. CASE UserClose \/ ErrorReceiving \/ Destroy
    BY <1>2, CloseChannel DEF UserClose, ErrorReceiving, Destroy
  <1>3. ASSUME NEW w \in Writes, NEW n \in 0..MaxLen, WriteOne(w, n)
        PROVE  [Channel!Next]_Channel!vars
    BY <1>3, WriteForm, WriteChannel
  <1>4. ASSUME NEW w \in Writes, NEW n1 \in 0..MaxLen, NEW n2 \in 0..MaxLen,
               WriteTwo(w, n1, n2)
        PROVE  [Channel!Next]_Channel!vars
    BY <1>4, WriteForm, WriteChannel
  <1>5. CASE CbReturn
    <2>1. mem = "live" /\ handle # "raw"
      BY <1>5 DEF CbReturn, RInv, IInv, Life
    <2> QED BY <1>5, <2>1, CloseChannel DEF CbReturn
  <1>6. CASE \E n \in 1..BufferSize : Consume(n) \/ OnReadData(n)
    BY <1>6, Stutter DEF Consume, OnReadData
  <1>7. ASSUME NEW byPeer, NEW error, OnReadEnd(byPeer, error)
        PROVE  [Channel!Next]_Channel!vars
    <2>1. CASE data /\ mem = "live"
      BY <1>7, <2>1, CloseChannel DEF OnReadEnd
    <2>2. CASE ~(data /\ mem = "live")
      BY <1>7, <2>2, Stutter DEF OnReadEnd
    <2> QED BY <2>1, <2>2
  <1>8. CASE OnReadByPeer \/ OnReadError
    BY <1>7, <1>8 DEF OnReadByPeer, OnReadError
  <1>9. CASE OnWrite \/ OnClose
    BY <1>9, Stutter DEF OnWrite, OnClose, CloseEnds
  <1>10. CASE OnShutdown
    BY <1>10, ShutdownChannel
  <1>11. CASE Transmit /\ FlushHead
    BY <1>11, FlushChannel DEF Transmit, Channel!Next
  <1>12. CASE (Transmit /\ FailHead) \/ Cancel \/ Reset \/ UNCHANGED vars
    BY <1>12, Stutter DEF Transmit, FailHead, Cancel, CancelQueue, Reset, Break, vars
  <1> QED
    BY <1>1, <1>2, <1>3, <1>4, <1>5, <1>6, <1>8, <1>9, <1>10, <1>11, <1>12
    DEF Next, AppNext, LoopNext, Transmit

-----------------------------------------------------------------------------
\* A connection implements the byte channel: bytes leave in the order they were
\* accepted in, and the stream ends in order only after the last of them.  The
\* application does no more than Close the connection in a failure callback.
THEOREM ImplementsChannel ==
  ASSUME CbCalls \subseteq {"Close"}
  PROVE  Spec => ChannelSpec
  <1>1. Init => Channel!Init /\ Sealed
    BY DEF Init, Channel!Init, channelStatus, Sealed
  <1>2. RInv /\ [Next]_vars => Sealed'
    BY SealedStep
  <1>3. RInv /\ IInv' /\ [Next]_vars => [Channel!Next]_Channel!vars
    BY ChannelStep
  <1>4. Spec => []IInv
    BY Invariant
  <1>5. RInv <=> IInv /\ Sealed
    BY DEF RInv
  <1>6. Spec => []RInv
    BY <1>1, <1>2, <1>4, <1>5, PTL DEF Spec
  <1>7. Spec => Channel!Spec
    BY <1>1, <1>3, <1>4, <1>6, PTL DEF Spec, Channel!Spec
  <1> QED BY <1>7 DEF ChannelSpec
=============================================================================
