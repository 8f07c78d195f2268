--------------------------- MODULE TcpConnection ----------------------------
(***************************************************************************)
(* One TcpConnection: the wrapper object, the libuv handle it drives, the  *)
(* callbacks libuv runs on it, the application that calls it and the owner *)
(* (TcpServer or TcpClient) that deletes it when told it has closed.       *)
(*                                                                         *)
(* Everything runs on one thread, so an action is one call or callback up  *)
(* to the point where the code calls out into the application with work of *)
(* its own left to do.  Only the failure callbacks cb(false) are such      *)
(* points: the code after them closes the connection and tells the         *)
(* listener.  frames is the stack of those unfinished calls, and while it  *)
(* is not empty the application may only do what CbCalls lists.            *)
(***************************************************************************)
EXTENDS UvStream

CONSTANTS
  Writes,      \* identities of the calls to Write the application makes
  Silent,      \* the ones made with a null callback
  MaxLen,      \* a bound on the length of one buffer given to Write
  BufferSize,  \* size of the receiving buffer (constructor argument)
  MaxRecv,     \* a bound on the bytes received in one behaviour
  CbCalls      \* what the application does inside a failure callback

ASSUME WritesAssumption == Silent \subseteq Writes
ASSUME LengthAssumption == MaxLen \in Nat /\ BufferSize \in Nat /\ MaxRecv \in Nat
ASSUME CbAssumption     == CbCalls \subseteq {"Close", "Write"}

VARIABLES
  mem,            \* the object is "live" or "deleted"
  data,           \* uvHandle->data still points to the object
  closed, isClosedByPeer, hasError, bufferDataLen, recvBytes, sentBytes,
  frames,         \* unfinished calls waiting for a failure callback, innermost last
  issued,         \* the writes the application has made
  cbLog,          \* per write: the calls of its callback and its deletion
  notified,       \* calls of listener->OnTcpConnectionClosed
  accepted        \* history: every byte given to a Write that was not refused

objVars  == <<mem, data, closed, isClosedByPeer, hasError, notified>>
recvVars == <<bufferDataLen, recvBytes>>
sendVars == <<issued, cbLog, accepted, sentBytes>>
ioVars   == <<queue, completed, backlog, sock, wire>>

vars == <<streamVars, objVars, recvVars, sendVars, frames>>

Byte == Writes \X (1..2 * MaxLen)

-----------------------------------------------------------------------------
\* Helpers.

\* n bytes of write w, after the first from.
Data(w, from, n) == [k \in 1..n |-> <<w, from + k>>]

\* cb is called with these values and deleted where "freed" stands; a null cb
\* does nothing.
Log(w, events) ==
  cbLog' = [cbLog EXCEPT ![w] = IF w \in Silent THEN @ ELSE @ \o events]

\* The application may make this call: the stack is empty, or it is inside a
\* failure callback (not a null one) and does such things there.
MayCall(op) ==
  /\ mem = "live"
  /\ frames # <<>> => op \in CbCalls /\ frames[Len(frames)] \notin Silent

\* The loop runs callbacks only when no call is unfinished.
Idle == frames = <<>>

\* (Operators under a comment that starts with "Mistake" are not part of the
\* specification: each is the next one with a plausible error in it, kept to see
\* that some property notices.)

\* Mistake: no early return when closed already.
CloseAgain(error, byPeer) ==
  /\ closed' = TRUE /\ data' = FALSE /\ reading' = FALSE
  /\ IF ~error /\ ~byPeer THEN UvShutdown ELSE UvClose

\* Mistake: uvHandle->data keeps pointing to the object.
CloseKeepsData(error, byPeer) ==
  IF closed THEN UNCHANGED <<closed, data, reading, handle, shutting, fault>>
  ELSE /\ closed' = TRUE
       /\ reading' = FALSE
       /\ IF ~error /\ ~byPeer THEN UvShutdown ELSE UvClose
       /\ UNCHANGED data

\* TcpConnection::Close, with the reason flags the caller has just set.
Close(error, byPeer) ==
  IF closed THEN UNCHANGED <<closed, data, reading, handle, shutting, fault>>
  ELSE /\ closed' = TRUE
       /\ data' = FALSE
       /\ reading' = FALSE
       /\ IF ~error /\ ~byPeer THEN UvShutdown ELSE UvClose

\* listener->OnTcpConnectionClosed(this): the owner deletes the object, whose
\* destructor finds it closed already.
NotifyListener == notified' = notified + 1 /\ mem' = "deleted"

-----------------------------------------------------------------------------
Init ==
  /\ handle = "raw" /\ reading = FALSE /\ shutting = "none"
  /\ queue = <<>> /\ completed = <<>> /\ backlog = <<>>
  /\ sock = "ok" /\ wire = <<>> /\ fin = FALSE /\ fault = FALSE
  /\ mem = "live" /\ data = TRUE /\ closed = FALSE
  /\ isClosedByPeer = FALSE /\ hasError = FALSE /\ notified = 0
  /\ bufferDataLen = 0 /\ recvBytes = 0 /\ sentBytes = 0
  /\ issued = {} /\ cbLog = [w \in Writes |-> <<>>] /\ accepted = <<>>
  /\ frames = <<>>

\* The owner sets the new object up and accepts or connects its socket.
Setup ==
  /\ MayCall("Setup") /\ handle = "raw"
  /\ UvOpen
  /\ UNCHANGED <<reading, shutting, ioVars, fin, fault, objVars, recvVars,
                 sendVars, frames>>

\* Start succeeds.  When it throws instead the owner deletes the object, which
\* is Destroy in a state where reading has not begun.
Start ==
  /\ MayCall("Start") /\ ~closed /\ handle = "open" /\ ~reading
  /\ reading' = TRUE
  /\ UNCHANGED <<handle, shutting, ioVars, fin, fault, objVars, recvVars,
                 sendVars, frames>>

\* The application calls Close.
UserClose ==
  /\ MayCall("Close") /\ handle # "raw" /\ ~closed
  /\ Close(hasError, isClosedByPeer)
  /\ UNCHANGED <<mem, isClosedByPeer, hasError, notified, ioVars, fin,
                 recvVars, sendVars, frames>>

\* The subclass met data it cannot parse.
ErrorReceiving ==
  /\ MayCall("ErrorReceiving") /\ handle # "raw"
  /\ Close(hasError, isClosedByPeer)
  /\ NotifyListener
  /\ UNCHANGED <<isClosedByPeer, hasError, ioVars, fin, recvVars, sendVars,
                 frames>>

\* The owner deletes the object of its own accord (the server closes, or Start
\* threw): the destructor closes first if need be.
Destroy ==
  /\ MayCall("Destroy") /\ handle # "raw"
  /\ Close(hasError, isClosedByPeer)
  /\ mem' = "deleted"
  /\ UNCHANGED <<isClosedByPeer, hasError, notified, ioVars, fin, recvVars,
                 sendVars, frames>>

-----------------------------------------------------------------------------
\* Write, one disjunct per way through it; d is all the bytes given to it.

\* Closed already, or nothing to write.
WriteRefused(w, d) ==
  /\ closed \/ d = <<>>
  /\ Log(w, <<"false", "freed">>)
  /\ issued' = issued \cup {w}
  /\ UNCHANGED <<streamVars, objVars, recvVars, frames, accepted, sentBytes>>

\* Mistake: anything uv_try_write took counts as all of it.
WriteAllShort(w, d) ==
  /\ ~closed /\ d # <<>>
  /\ \E n \in UvTryWrite(Len(d)) \cap 1..Len(d) : wire' = wire \o SubSeq(d, 1, n)
  /\ fault' = (fault \/ ~Writable)
  /\ sentBytes' = sentBytes + Len(d)
  /\ accepted' = accepted \o d
  /\ Log(w, <<"true", "freed">>)
  /\ issued' = issued \cup {w}
  /\ UNCHANGED <<handle, reading, shutting, queue, completed, backlog, sock,
                 fin, objVars, recvVars, frames>>

\* uv_try_write takes everything.
WriteAll(w, d) ==
  /\ ~closed /\ d # <<>> /\ Len(d) \in UvTryWrite(Len(d))
  /\ wire' = wire \o d
  /\ fault' = (fault \/ ~Writable)
  /\ sentBytes' = sentBytes + Len(d)
  /\ accepted' = accepted \o d
  /\ Log(w, <<"true", "freed">>)
  /\ issued' = issued \cup {w}
  /\ UNCHANGED <<handle, reading, shutting, queue, completed, backlog, sock,
                 fin, objVars, recvVars, frames>>

\* Mistake: a closed connection still queues.
WriteQueuedClosed(w, d, result, rest) ==
  /\ d # <<>> /\ result \in UvTryWrite(Len(d)) \ {TryError, Len(d)}
  /\ wire' = wire \o (IF result = EAGAIN THEN <<>> ELSE SubSeq(d, 1, result))
  /\ UvWrite(w, rest)
  /\ sentBytes' = sentBytes + Len(rest)
  /\ accepted' = accepted \o d
  /\ issued' = issued \cup {w}
  /\ UNCHANGED <<handle, reading, shutting, completed, sock, fin, objVars,
                 recvVars, cbLog, frames>>

\* uv_try_write takes fewer, result, and uv_write gets the rest.
WriteQueued(w, d, result, rest) ==
  /\ ~closed /\ d # <<>> /\ result \in UvTryWrite(Len(d)) \ {TryError, Len(d)}
  /\ wire' = wire \o (IF result = EAGAIN THEN <<>> ELSE SubSeq(d, 1, result))
  /\ UvWrite(w, rest)
  /\ sentBytes' = sentBytes + Len(rest)
  /\ accepted' = accepted \o d
  /\ issued' = issued \cup {w}
  /\ UNCHANGED <<handle, reading, shutting, completed, sock, fin, objVars,
                 recvVars, cbLog, frames>>

\* uv_try_write fails: the callback is told first, the rest is WriteFailed.
WriteError(w, d) ==
  /\ ~closed /\ d # <<>> /\ TryError \in UvTryWrite(Len(d))
  /\ fault' = (fault \/ ~Writable)
  /\ Log(w, <<"false">>)
  /\ frames' = Append(frames, w)
  /\ issued' = issued \cup {w}
  /\ UNCHANGED <<handle, reading, shutting, ioVars, fin, objVars, recvVars,
                 accepted, sentBytes>>

MayWrite(w) == MayCall("Write") /\ w \in Writes \ issued /\ (reading \/ closed)

\* What uv_try_write's result leaves to be sent of one buffer.
Pending(d, result) ==
  LET written == IF result = EAGAIN THEN 0 ELSE result
  IN  SubSeq(d, written + 1, Len(d))

\* Mistake: the offset into the second buffer forgets the length of the first.
SpliceOffsetWrong(d1, d2, result) ==
  LET written == IF result = EAGAIN THEN 0 ELSE result
  IN  IF written < Len(d1)
      THEN SubSeq(d1, written + 1, Len(d1)) \o d2
      ELSE SubSeq(d2, written + 1, Len(d2))

\* And of two: the first is spliced when it was not entirely written.
PendingOfTwo(d1, d2, result) ==
  LET written == IF result = EAGAIN THEN 0 ELSE result
  IN  IF written < Len(d1)
      THEN SubSeq(d1, written + 1, Len(d1)) \o d2
      ELSE SubSeq(d2, written - Len(d1) + 1, Len(d2))

WriteOne(w, n) ==
  LET d == Data(w, 0, n)
  IN  /\ MayWrite(w)
      /\ \/ WriteRefused(w, d)
         \/ WriteAll(w, d)
         \/ \E r \in UvTryWrite(n) : WriteQueued(w, d, r, Pending(d, r))
         \/ WriteError(w, d)

WriteTwo(w, n1, n2) ==
  LET d1 == Data(w, 0, n1)
      d2 == Data(w, n1, n2)
      d  == d1 \o d2
  IN  /\ MayWrite(w)
      /\ \/ WriteRefused(w, d)
         \/ WriteAll(w, d)
         \/ \E r \in UvTryWrite(n1 + n2) :
              WriteQueued(w, d, r, PendingOfTwo(d1, d2, r))
         \/ WriteError(w, d)

\* A failure callback returns to its caller, which closes the connection, tells
\* the listener and deletes the callback.  If the object is gone by now, the
\* caller goes on with freed memory.
CbReturn ==
  LET w == frames[Len(frames)]
  IN  /\ frames # <<>>
      /\ frames' = SubSeq(frames, 1, Len(frames) - 1)
      /\ Log(w, <<"freed">>)
      /\ IF mem = "live"
         THEN /\ Close(hasError, isClosedByPeer)
              /\ NotifyListener
         ELSE /\ fault' = TRUE
              /\ UNCHANGED <<handle, reading, shutting, closed, data, mem, notified>>
      /\ UNCHANGED <<isClosedByPeer, hasError, ioVars, fin, recvVars, issued,
                     accepted, sentBytes>>

-----------------------------------------------------------------------------
\* Callbacks of the event loop.

\* Mistake: the whole buffer is offered, filled or not.
RoomIgnoresData == BufferSize

\* The free room OnUvReadAlloc offers to libuv.
Room == BufferSize - bufferDataLen

\* Data arrives: OnUvRead counts it and hands it to the subclass, whose own
\* calls come after it.
OnReadData(n) ==
  /\ Idle /\ reading /\ handle = "open" /\ sock = "ok"
  /\ n \in 1..Room /\ recvBytes + n <= MaxRecv
  /\ IF data
     THEN /\ recvBytes' = recvBytes + n
          /\ bufferDataLen' = bufferDataLen + n
          /\ fault' = (fault \/ mem = "deleted")
     ELSE UNCHANGED <<recvVars, fault>>
  /\ UNCHANGED <<handle, reading, shutting, ioVars, fin, objVars, sendVars, frames>>

\* The subclass takes bytes out of the buffer it inherits.
Consume(n) ==
  /\ MayCall("Consume") /\ n \in 1..bufferDataLen
  /\ bufferDataLen' = bufferDataLen - n
  /\ UNCHANGED <<streamVars, objVars, recvBytes, sendVars, frames>>

\* Mistake: the listener is not told.
OnReadEndUntold(byPeer, error) ==
  /\ Idle /\ reading /\ handle = "open" /\ data
  /\ isClosedByPeer' = (isClosedByPeer \/ byPeer)
  /\ hasError' = (hasError \/ error)
  /\ Close(hasError', isClosedByPeer')
  /\ UNCHANGED <<mem, notified, ioVars, fin, recvVars, sendVars, frames>>

\* A read ends the connection; byPeer and error say which branch is taken.
OnReadEnd(byPeer, error) ==
  /\ Idle /\ reading /\ handle = "open"
  /\ IF data /\ mem = "live"
     THEN /\ isClosedByPeer' = (isClosedByPeer \/ byPeer)
          /\ hasError' = (hasError \/ error)
          /\ Close(hasError', isClosedByPeer')
          /\ NotifyListener
     ELSE /\ fault' = (fault \/ data)
          /\ UNCHANGED <<objVars, reading, handle, shutting>>
  /\ UNCHANGED <<ioVars, fin, recvVars, sendVars, frames>>

\* The peer ended its side, or reset the connection.
OnReadByPeer == OnReadEnd(TRUE, FALSE)

\* Any other error: a broken socket, or no room left in the buffer.
OnReadError == (sock = "broken" \/ Room = 0) /\ OnReadEnd(FALSE, TRUE)

\* Mistake: the request of a closed connection is dropped with its callback.
OnWriteLeaks ==
  /\ Idle /\ completed # <<>>
  /\ completed' = Tail(completed)
  /\ IF data /\ Head(completed).status = "ok"
     THEN Log(Head(completed).w, <<"true", "freed">>)
     ELSE UNCHANGED cbLog
  /\ UNCHANGED <<handle, reading, shutting, queue, backlog, sock, wire, fin, fault,
                 objVars, recvVars, issued, accepted, sentBytes, frames>>

\* Mistake: the callback of a closed connection is told of the failure.
OnWriteReports ==
  /\ Idle /\ completed # <<>>
  /\ completed' = Tail(completed)
  /\ Log(Head(completed).w,
         IF Head(completed).status = "ok" THEN <<"true", "freed">> ELSE <<"false", "freed">>)
  /\ UNCHANGED <<handle, reading, shutting, queue, backlog, sock, wire, fin, fault,
                 objVars, recvVars, issued, accepted, sentBytes, frames>>

\* onWrite for the oldest finished request.  A request whose connection has
\* closed only has its callback deleted.
OnWrite ==
  /\ Idle /\ completed # <<>>
  /\ LET c == Head(completed)
     IN  /\ completed' = Tail(completed)
         /\ fault' = (fault \/ (data /\ mem = "deleted") \/ handle = "freed")
         /\ IF ~data
            THEN /\ Log(c.w, <<"freed">>)
                 /\ UNCHANGED <<hasError, frames>>
            ELSE IF c.status = "ok"
            THEN /\ Log(c.w, <<"true", "freed">>)
                 /\ UNCHANGED <<hasError, frames>>
            ELSE /\ hasError' = (hasError \/ c.status \notin {"EPIPE", "ENOTCONN"})
                 /\ Log(c.w, <<"false">>)
                 /\ frames' = Append(frames, c.w)
  /\ UNCHANGED <<handle, reading, shutting, queue, backlog, sock, wire, fin,
                 mem, data, closed, isClosedByPeer, notified, recvVars, issued,
                 accepted, sentBytes>>

\* Mistake: the handle is left open once it was shut down.
OnShutdownNoClose ==
  /\ Idle /\ ShutdownEnds
  /\ UNCHANGED <<handle, fault, reading, ioVars, objVars, recvVars, sendVars, frames>>

\* onShutdown closes the handle.
OnShutdown ==
  /\ Idle /\ ShutdownEnds
  /\ handle' = "closing"
  /\ fault' = (fault \/ handle # "open")
  /\ UNCHANGED <<reading, ioVars, objVars, recvVars, sendVars, frames>>

\* onClose deletes the handle.
OnClose ==
  /\ Idle /\ CloseEnds
  /\ handle' = "freed"
  /\ UNCHANGED <<reading, shutting, ioVars, fin, fault, objVars, recvVars,
                 sendVars, frames>>

\* Steps of the loop and of the peer that run no callback.
Transmit ==
  Idle /\ (FlushHead \/ FailHead) /\ UNCHANGED <<objVars, recvVars, sendVars, frames>>

Cancel == Idle /\ CancelQueue /\ UNCHANGED <<objVars, recvVars, sendVars, frames>>

Reset == Idle /\ Break /\ UNCHANGED <<objVars, recvVars, sendVars, frames>>

-----------------------------------------------------------------------------
AppNext ==
  \/ Setup \/ Start \/ UserClose \/ ErrorReceiving \/ Destroy
  \/ \E w \in Writes, n \in 0..MaxLen : WriteOne(w, n)
  \/ \E w \in Writes, n1, n2 \in 0..MaxLen : WriteTwo(w, n1, n2)
  \/ CbReturn
  \/ \E n \in 1..BufferSize : Consume(n)

LoopNext ==
  \/ \E n \in 1..BufferSize : OnReadData(n)
  \/ OnReadByPeer \/ OnReadError
  \/ OnWrite \/ OnShutdown \/ OnClose \/ Transmit \/ Cancel \/ Reset

Next == AppNext \/ LoopNext

Spec == Init /\ [][Next]_vars

\* The loop keeps running until no handle is left (DepLibUV::RunLoop), and the
\* peer keeps reading or the socket breaks.  The application owes nothing but
\* the return of its callbacks.
Fairness ==
  /\ WF_vars(Transmit) /\ WF_vars(Cancel)
  /\ WF_vars(OnWrite) /\ WF_vars(OnShutdown) /\ WF_vars(OnClose)
  /\ WF_vars(CbReturn)

FairSpec == Spec /\ Fairness

-----------------------------------------------------------------------------
\* Properties.

\* The type invariant: in particular the bytes kept in the receiving buffer
\* never outgrow it, whatever libuv reads and whenever the subclass consumes.
TypeOK ==
  /\ handle \in {"raw", "open", "closing", "freed"}
  /\ reading \in BOOLEAN
  /\ shutting \in {"none", "requested", "done"}
  /\ queue \in Seq([w : Writes, end : Nat])
  /\ completed \in Seq([w : Writes, status : Statuses])
  /\ backlog \in Seq(Byte) /\ wire \in Seq(Byte) /\ accepted \in Seq(Byte)
  /\ sock \in {"ok", "broken"}
  /\ fin \in BOOLEAN /\ fault \in BOOLEAN
  /\ mem \in {"live", "deleted"}
  /\ data \in BOOLEAN /\ closed \in BOOLEAN
  /\ isClosedByPeer \in BOOLEAN /\ hasError \in BOOLEAN
  /\ bufferDataLen \in 0..BufferSize /\ recvBytes \in Nat /\ sentBytes \in Nat
  /\ frames \in Seq(Writes) /\ issued \in SUBSET Writes
  /\ cbLog \in [Writes -> Seq({"true", "false", "freed"})]
  /\ notified \in Nat

\* No sequence of calls, callbacks and socket events makes libuv abort on a
\* double uv_close, a refused uv_shutdown or a write after it, and none runs
\* the code of an object or a handle that was deleted.
NoFault == ~fault

\* A handle that can still run callbacks points to a live object or to none:
\* Close() clears uvHandle->data before the owner deletes the object.
DispatchSafe == data /\ handle # "freed" => mem = "live" /\ ~closed

\* The listener learns of the end of a connection at most once, although a
\* read, a queued write, a new Write and ErrorReceiving may all find the socket
\* dead; and once the object has recorded that its peer is gone or that the
\* socket failed, it has been handed back (no connection lingers half dead).
NotifiedOnce ==
  /\ notified <= 1
  /\ notified = 1 => mem = "deleted"
  /\ (isClosedByPeer \/ hasError) /\ frames = <<>> => mem = "deleted"

\* A callback runs at most once, is deleted exactly once and after it ran, and
\* while its request is still with libuv it has not been touched; and cb(true) is
\* only told of a write whose every byte the kernel has taken.
InFlight(w) ==
  \/ \E i \in DOMAIN queue : queue[i].w = w
  \/ \E i \in DOMAIN completed : completed[i].w = w

CallbackDiscipline ==
  \A w \in Writes :
    /\ cbLog[w] \in {<<>>, <<"false">>, <<"freed">>, <<"true", "freed">>, <<"false", "freed">>}
    /\ InFlight(w) => cbLog[w] = <<>>
    /\ cbLog[w] = <<"false">> => \E i \in DOMAIN frames : frames[i] = w
    /\ w \in issued \ Silent /\ cbLog[w] = <<>> => InFlight(w)
    /\ "true" \in {cbLog[w][i] : i \in DOMAIN cbLog[w]} =>
         \A i \in DOMAIN accepted : accepted[i][1] = w => i <= Len(wire)

\* What has left followed by what was given to uv_write is what the Writes
\* accepted, and while the stream is sound no byte waits without a request that
\* will send it: nothing is lost, doubled or reordered between uv_try_write,
\* the copied remainder (spliced over two buffers) and the write queue.
NothingLost ==
  /\ wire \o backlog = accepted
  /\ sock = "ok" /\ handle = "open" /\ queue = <<>> => backlog = <<>>

\* A write still waiting when the connection closes is never reported to the
\* application, neither as sent nor as failed: its callback is just deleted.
SilentAfterClose ==
  [][\A w \in Writes :
       closed /\ InFlight(w) /\ frames = <<>> => cbLog'[w] \in {<<>>, <<"freed">>}]_vars

\* The bytes a connection sends refine the byte channel, a graceful close
\* included: FIN only after the last accepted byte.
channelStatus ==
  IF fin THEN "sealed"
  ELSE IF handle \in {"closing", "freed"} THEN "lost"
  ELSE IF closed THEN "closing" ELSE "open"

Channel == INSTANCE ByteChannel WITH delivered <- wire, status <- channelStatus

ChannelSpec == Channel!Spec

\* The statement of "Update sent bytes." (TcpConnection.cpp:200 and 261):
\* sentBytes counts the bytes of the writes that were taken.
SentBytesExact == sentBytes = Len(accepted)

\* A closed connection's handle is eventually deleted, so that the loop can end,
\* and so is every callback given to Write, whether or not the connection closes
\* and however its socket ends.
AllFreed ==
  /\ closed ~> handle = "freed"
  /\ \A w \in Writes \ Silent :
       w \in issued ~> cbLog[w] # <<>> /\ cbLog[w][Len(cbLog[w])] = "freed"
=============================================================================
