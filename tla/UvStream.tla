------------------------------ MODULE UvStream ------------------------------
(***************************************************************************)
(* A libuv stream handle, TCP or pipe (uv_tcp_t, uv_pipe_t), as the        *)
(* wrapper classes use it: the part of libuv that keeps the write queue,   *)
(* runs the write, shutdown and close callbacks and refuses calls made in  *)
(* the wrong state.  libuv is a bundled library, not code of this          *)
(* repository: everything here is modelled from how the classes call it,   *)
(* and each operator carries the name of the libuv function it stands for. *)
(*                                                                         *)
(* The bytes given to uv_write are kept in one sequence, backlog, and a    *)
(* request in queue only says where in the stream its last byte is.        *)
(***************************************************************************)
EXTENDS Integers, Sequences

VARIABLES
  handle,     \* "raw" (allocated only), "open", "closing" (uv_close called), "freed"
  reading,    \* uv_read_start is in force
  shutting,   \* "none", "requested" (uv_shutdown called), "done" (its callback ran)
  queue,      \* write requests not finished, oldest first: [w, end], where end
              \* is the length of the stream once the request is written
  completed,  \* finished requests whose callback has not run yet: [w, status]
  backlog,    \* the bytes given to uv_write that have not left (on a broken or
              \* closing stream they never will)
  sock,       \* "ok", or "broken" once the peer reset it or it timed out
  wire,       \* every byte the kernel has taken, in order
  fin,        \* the write side was shut down in order (the peer sees EOF)
  fault       \* libuv would abort here, or freed memory would be used

streamVars == <<handle, reading, shutting, queue, completed, backlog, sock,
                wire, fin, fault>>

\* What a write on a broken socket may report, and the status libuv gives to
\* the requests it cancels when the handle closes.
WriteErrors == {"EPIPE", "ECONNRESET"}
Statuses    == {"ok", "ECANCELED"} \cup WriteErrors

\* Results of uv_try_write other than a number of bytes.
EAGAIN   == -1
TryError == -2

\* The stream takes writes and may be shut down.
Writable == handle = "open" /\ shutting = "none"

-----------------------------------------------------------------------------
\* Calls.

\* uv_tcp_init and, on the server, the uv_accept that follows it.
UvOpen == handle' = "open"

\* uv_shutdown: refused unless the stream is writable, and the callers abort
\* on a refusal.
UvShutdown ==
  /\ shutting' = IF Writable THEN "requested" ELSE shutting
  /\ fault' = (fault \/ ~Writable)
  /\ UNCHANGED handle

\* uv_close: asserts that the handle is not already closing.
UvClose ==
  /\ handle' = IF handle = "open" THEN "closing" ELSE handle
  /\ fault' = (fault \/ handle # "open")
  /\ UNCHANGED shutting

\* uv_try_write of len bytes: nothing is tried behind queued requests; a sound
\* socket takes any prefix; a broken one reports it, unless a finished request
\* still waits for its callback.
UvTryWrite(len) ==
  IF queue # <<>> THEN {EAGAIN}
  ELSE IF sock = "ok" THEN {EAGAIN} \cup 1..len
  ELSE {TryError} \cup IF completed = <<>> THEN {} ELSE {EAGAIN}

\* uv_write: the request joins the queue with its bytes.
UvWrite(w, bytes) ==
  /\ queue' = Append(queue, [w |-> w, end |-> Len(wire') + Len(backlog) + Len(bytes)])
  /\ backlog' = backlog \o bytes
  /\ fault' = (fault \/ ~Writable)

-----------------------------------------------------------------------------
\* Steps of the event loop and of the peer that run no callback.

\* uv__write on a sound socket: some bytes of the oldest request leave.
FlushHead ==
  /\ handle = "open" /\ sock = "ok" /\ queue # <<>>
  /\ \E n \in 1..(Head(queue).end - Len(wire)) :
       /\ wire' = wire \o SubSeq(backlog, 1, n)
       /\ backlog' = SubSeq(backlog, n + 1, Len(backlog))
       /\ IF n = Head(queue).end - Len(wire)
          THEN /\ queue' = Tail(queue)
               /\ completed' = Append(completed, [w |-> Head(queue).w, status |-> "ok"])
          ELSE UNCHANGED <<queue, completed>>
  /\ UNCHANGED <<handle, reading, shutting, sock, fin, fault>>

\* uv__write on a broken socket: the oldest request, and only that one, ends
\* with the error.
FailHead ==
  /\ handle = "open" /\ sock = "broken" /\ queue # <<>>
  /\ \E s \in WriteErrors :
       completed' = Append(completed, [w |-> Head(queue).w, status |-> s])
  /\ queue' = Tail(queue)
  /\ UNCHANGED <<handle, reading, shutting, backlog, sock, wire, fin, fault>>

\* uv__stream_flush_write_queue, when the loop finishes closing the handle.
CancelQueue ==
  /\ handle = "closing" /\ queue # <<>>
  /\ completed' = completed \o
       [i \in DOMAIN queue |-> [w |-> queue[i].w, status |-> "ECANCELED"]]
  /\ queue' = <<>>
  /\ UNCHANGED <<handle, reading, shutting, backlog, sock, wire, fin, fault>>

\* The peer resets the connection, or it times out.
Break ==
  /\ handle = "open" /\ sock = "ok"
  /\ sock' = "broken"
  /\ UNCHANGED <<handle, reading, shutting, queue, completed, backlog, wire,
                 fin, fault>>

\* uv__drain is due: a requested shutdown has nothing left to wait for.  A
\* handle that was closed meanwhile has its shutdown cancelled instead.
ShutdownEnds ==
  /\ shutting = "requested"
  /\ handle \in {"open", "closing"} /\ queue = <<>> /\ completed = <<>>
  /\ shutting' = "done"
  /\ fin' = (sock = "ok" /\ handle = "open")

\* The close callback is due: nothing is left to cancel or report.
CloseEnds ==
  /\ handle = "closing" /\ shutting # "requested"
  /\ queue = <<>> /\ completed = <<>>
=============================================================================
