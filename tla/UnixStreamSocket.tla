-------------------------- MODULE UnixStreamSocket --------------------------
(***************************************************************************)
(* A UnixStreamSocket: one end of a pipe that a CONSUMER reads from and    *)
(* either role may write to.  Unlike a TcpConnection it has no callbacks   *)
(* and no owner that deletes it: its subclass is told once that it has     *)
(* closed, and every hook is the last thing a function does, so that what  *)
(* the subclass does in a hook (delete the object, write more) are calls   *)
(* that follow.  Who may call when is in module EventLoop.  Left out is    *)
(* the failure of uv_pipe_init, which on Unix always returns 0.            *)
(***************************************************************************)
EXTENDS UvStream

CONSTANTS
  Writes,      \* identities of the calls to Write
  MaxLen,      \* a bound on the length of one
  BufferSize,  \* size of the receiving buffer (constructor argument)
  MaxRecv,     \* a bound on the bytes received
  BadFds       \* TRUE: the descriptor given to the constructor may not be that of
               \* a pipe open in both directions

ASSUME PipeAssumption ==
  /\ MaxLen \in Nat /\ BufferSize \in Nat /\ MaxRecv \in Nat /\ BadFds \in BOOLEAN

VARIABLES
  pipe,      \* the object: [mem, role, data, writable, closed, isClosedByPeer,
             \* hasError, bufferDataLen], where data says that uvHandle->data
             \* points to it, and writable that libuv lets the handle be written
  issued,    \* the calls to Write made
  received,  \* bytes received, to bound them
  told,      \* calls of UserOnUnixStreamSocketClosed
  accepted   \* history: every byte Write did not refuse

pipeVars == <<streamVars, pipe, issued, received, told, accepted>>

Byte == Writes \X (1..MaxLen)
Data(w, n) == [k \in 1..n |-> <<w, k>>]

Roles == {"PRODUCER", "CONSUMER"}

\* What a descriptor can be: that of a pipe open in both directions or in one, or
\* one that uv_pipe_open refuses.
Fds == {"duplex", "read only", "write only", "refused"}

-----------------------------------------------------------------------------
PipeInit ==
  /\ handle = "raw" /\ reading = FALSE /\ shutting = "none"
  /\ queue = <<>> /\ completed = <<>> /\ backlog = <<>>
  /\ sock = "ok" /\ wire = <<>> /\ fin = FALSE /\ fault = FALSE
  /\ pipe = [mem |-> "none", role |-> "PRODUCER", data |-> FALSE,
             writable |-> TRUE, closed |-> FALSE, isClosedByPeer |-> FALSE,
             hasError |-> FALSE, bufferDataLen |-> 0]
  /\ issued = {} /\ received = 0 /\ told = 0 /\ accepted = <<>>

\* The constructor.  When uv_pipe_open refuses the descriptor, or uv_read_start one
\* that is not read from, it closes the handle and goes on: after uv_pipe_open,
\* uv_read_start is then refused too and the handle closed once more.
ConstructPipe(role, fd) ==
  LET reads   == role = "CONSUMER" /\ fd \in {"duplex", "read only"}
      closing == fd = "refused" \/ (role = "CONSUMER" /\ ~reads)
  IN  /\ pipe.mem = "none"
      /\ fd = "duplex" \/ BadFds
      /\ pipe' = [pipe EXCEPT !.mem = "live", !.role = role, !.data = TRUE,
                             !.writable = fd # "read only" /\ ~closing]
      /\ handle' = IF closing THEN "closing" ELSE "open"
      /\ reading' = reads
      /\ fault' = (fd = "refused" /\ role = "CONSUMER")
      /\ UNCHANGED <<shutting, queue, completed, backlog, sock, wire, fin, issued,
                     received, told, accepted>>

\* Close, on the object as the caller has just set its flags.  uv_shutdown is
\* refused, and Close aborts, when the handle may not be written.
Close(p) ==
  IF p.closed
  THEN pipe' = p /\ UNCHANGED <<reading, handle, shutting, fault>>
  ELSE /\ pipe' = [p EXCEPT !.closed = TRUE, !.data = FALSE]
       /\ reading' = FALSE
       /\ IF p.hasError \/ p.isClosedByPeer THEN UvClose
          ELSE IF p.writable THEN UvShutdown
          ELSE fault' = TRUE /\ UNCHANGED <<handle, shutting>>

\* UserOnUnixStreamSocketClosed.
TellSubclass == told' = told + 1

ClosePipe ==
  /\ pipe.mem = "live"
  /\ Close(pipe)
  /\ UNCHANGED <<queue, completed, backlog, sock, wire, fin, issued, received, told,
                 accepted>>

\* delete: the destructor closes if need be.
DeletePipe ==
  /\ pipe.mem = "live"
  /\ Close([pipe EXCEPT !.mem = "deleted"])
  /\ UNCHANGED <<queue, completed, backlog, sock, wire, fin, issued, received, told,
                 accepted>>

\* The subclass takes what it can parse out of the buffer it inherits.
ConsumePipe ==
  /\ pipe.mem = "live" /\ pipe.bufferDataLen > 0
  /\ pipe' = [pipe EXCEPT !.bufferDataLen = 0]
  /\ UNCHANGED <<streamVars, issued, received, told, accepted>>

-----------------------------------------------------------------------------
\* Write, one action per way through it.

\* uv_try_write, an error as well when the handle may not be written.
TryWrite(len) == IF pipe.writable THEN UvTryWrite(len) ELSE {TryError}

MayWrite(w) == pipe.mem = "live" /\ w \notin issued

\* Closed, or nothing to write.
WriteRefused(w, d) ==
  /\ MayWrite(w) /\ (pipe.closed \/ d = <<>>)
  /\ issued' = issued \cup {w}
  /\ UNCHANGED <<streamVars, pipe, received, told, accepted>>

\* uv_try_write takes everything.
WriteAll(w, d) ==
  /\ MayWrite(w) /\ ~pipe.closed /\ d # <<>> /\ Len(d) \in TryWrite(Len(d))
  /\ issued' = issued \cup {w}
  /\ wire' = wire \o d
  /\ fault' = (fault \/ ~Writable)
  /\ accepted' = accepted \o d
  /\ UNCHANGED <<handle, reading, shutting, queue, completed, backlog, sock, fin,
                 pipe, received, told>>

\* Mistake: what uv_try_write took is queued again.
WriteQueuedWhole(w, d, result) ==
  /\ MayWrite(w) /\ ~pipe.closed /\ d # <<>>
  /\ result \in TryWrite(Len(d)) \ {TryError, Len(d)}
  /\ issued' = issued \cup {w}
  /\ LET written == IF result = EAGAIN THEN 0 ELSE result
     IN  wire' = wire \o SubSeq(d, 1, written) /\ UvWrite(w, d)
  /\ accepted' = accepted \o d
  /\ UNCHANGED <<handle, reading, shutting, completed, sock, fin, pipe, received, told>>

\* uv_try_write takes fewer, and a copy of the rest goes to uv_write.
WriteQueued(w, d, result) ==
  /\ MayWrite(w) /\ ~pipe.closed /\ d # <<>>
  /\ result \in TryWrite(Len(d)) \ {TryError, Len(d)}
  /\ issued' = issued \cup {w}
  /\ LET written == IF result = EAGAIN THEN 0 ELSE result
     IN  /\ wire' = wire \o SubSeq(d, 1, written)
         /\ UvWrite(w, SubSeq(d, written + 1, Len(d)))
  /\ accepted' = accepted \o d
  /\ UNCHANGED <<handle, reading, shutting, completed, sock, fin, pipe, received, told>>

\* uv_try_write fails: the pipe closes and the subclass is told.
WriteError(w, d) ==
  /\ MayWrite(w) /\ ~pipe.closed /\ d # <<>> /\ TryError \in TryWrite(Len(d))
  /\ issued' = issued \cup {w}
  /\ Close(pipe)
  /\ TellSubclass
  /\ UNCHANGED <<queue, completed, backlog, sock, wire, fin, received, accepted>>

PipeCalls ==
  \/ \E role \in Roles, fd \in Fds : ConstructPipe(role, fd)
  \/ ClosePipe \/ DeletePipe \/ ConsumePipe
  \/ \E w \in Writes, n \in 0..MaxLen :
       LET d == Data(w, n)
       IN  \/ WriteRefused(w, d) \/ WriteAll(w, d) \/ WriteError(w, d)
           \/ \E r \in TryWrite(n) : WriteQueued(w, d, r)

-----------------------------------------------------------------------------
\* Callbacks, those that call a hook of the subclass first.

\* Mistake: the whole buffer is offered, filled or not.
RoomIgnoresData == BufferSize

\* The room OnUvReadAlloc offers: behind the last data byte.
Room == BufferSize - pipe.bufferDataLen

\* Bytes arrive.
OnUvReadData(n) ==
  /\ reading /\ handle = "open" /\ sock = "ok"
  /\ n \in 1..Room /\ received + n <= MaxRecv
  /\ received' = received + n
  /\ pipe' = [pipe EXCEPT !.bufferDataLen = @ + n]
  /\ fault' = (fault \/ pipe.mem # "live")
  /\ UNCHANGED <<handle, reading, shutting, queue, completed, backlog, sock, wire,
                 fin, issued, told, accepted>>

\* The peer has ended or reset its side (byPeer), or there is another error: a
\* broken pipe, or no room left in the buffer.
OnUvReadEnd(byPeer) ==
  /\ reading /\ handle = "open" /\ pipe.data
  /\ byPeer \/ sock = "broken" \/ Room = 0
  /\ Close(IF byPeer THEN [pipe EXCEPT !.isClosedByPeer = TRUE]
           ELSE [pipe EXCEPT !.hasError = TRUE])
  /\ TellSubclass
  /\ UNCHANGED <<queue, completed, backlog, sock, wire, fin, issued, received,
                 accepted>>

\* Mistake: the object is told of the errors of requests cancelled by its Close.
OnWriteErrorLate ==
  LET c == Head(completed)
  IN  /\ completed # <<>> /\ c.status # "ok"
      /\ completed' = Tail(completed)
      /\ Close([pipe EXCEPT !.hasError = @ \/ c.status \notin {"EPIPE", "ENOTCONN"}])
      /\ TellSubclass
      /\ UNCHANGED <<queue, backlog, sock, wire, fin, issued, received, accepted>>

\* onWrite for a request that failed on a pipe still open: OnUvWriteError.
OnWriteError ==
  LET c == Head(completed)
  IN  /\ completed # <<>> /\ c.status # "ok" /\ pipe.data
      /\ completed' = Tail(completed)
      /\ Close([pipe EXCEPT !.hasError = @ \/ c.status \notin {"EPIPE", "ENOTCONN"}])
      /\ TellSubclass
      /\ UNCHANGED <<queue, backlog, sock, wire, fin, issued, received, accepted>>

PipeHooks ==
  \/ \E n \in 1..BufferSize : OnUvReadData(n)
  \/ \E byPeer \in BOOLEAN : OnUvReadEnd(byPeer)
  \/ OnWriteError

\* onWrite for a request that is written, or whose object has closed: nobody is
\* told, the copied data are deleted.
OnWrite ==
  /\ completed # <<>> /\ (Head(completed).status = "ok" \/ ~pipe.data)
  /\ completed' = Tail(completed)
  /\ fault' = (fault \/ handle = "freed")
  /\ UNCHANGED <<handle, reading, shutting, queue, backlog, sock, wire, fin, pipe,
                 issued, received, told, accepted>>

\* onShutdown closes the handle.
OnShutdown ==
  /\ ShutdownEnds
  /\ handle' = "closing"
  /\ fault' = (fault \/ handle # "open")
  /\ UNCHANGED <<reading, queue, completed, backlog, sock, wire, pipe, issued, received,
                 told, accepted>>

\* onClose deletes it.
OnClosePipe ==
  /\ CloseEnds
  /\ handle' = "freed"
  /\ UNCHANGED <<reading, shutting, queue, completed, backlog, sock, wire, fin, fault,
                 pipe, issued, received, told, accepted>>

\* Steps of the loop and of the peer that run no callback.
PipeMoves ==
  /\ FlushHead \/ FailHead \/ CancelQueue
  /\ UNCHANGED <<pipe, issued, received, told, accepted>>

PipeBreaks == Break /\ UNCHANGED <<pipe, issued, received, told, accepted>>

-----------------------------------------------------------------------------
PipeTypeOK ==
  /\ handle \in {"raw", "open", "closing", "freed"}
  /\ reading \in BOOLEAN /\ fin \in BOOLEAN /\ fault \in BOOLEAN
  /\ shutting \in {"none", "requested", "done"} /\ sock \in {"ok", "broken"}
  /\ queue \in Seq([w : Writes, end : Nat])
  /\ completed \in Seq([w : Writes, status : Statuses])
  /\ backlog \in Seq(Byte) /\ wire \in Seq(Byte) /\ accepted \in Seq(Byte)
  /\ pipe \in [mem : {"none", "live", "deleted"}, role : Roles, data : BOOLEAN,
               writable : BOOLEAN, closed : BOOLEAN, isClosedByPeer : BOOLEAN,
               hasError : BOOLEAN, bufferDataLen : 0..BufferSize]
  /\ issued \subseteq Writes /\ received \in 0..MaxRecv /\ told \in Nat

\* The subclass is told of the end of its pipe at most once, and only when the
\* pipe did not end by its own doing: a read, a queued write and a new Write may
\* all find the pipe dead, before and after it closes.
PipeToldOnce ==
  /\ told <= 1
  /\ told = 1 => pipe.closed
  /\ (pipe.isClosedByPeer \/ pipe.hasError) => told = 1

\* The bytes written refine the byte channel, as those of a TcpConnection do.
pipeStatus ==
  IF fin THEN "sealed"
  ELSE IF handle \in {"closing", "freed"} THEN "lost"
  ELSE IF pipe.closed THEN "closing" ELSE "open"

PipeChannel == INSTANCE ByteChannel WITH delivered <- wire, status <- pipeStatus
=============================================================================
