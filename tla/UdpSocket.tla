----------------------------- MODULE UdpSocket ------------------------------
(***************************************************************************)
(* One UdpSocket (UdpServer and UdpClient add only a listener): datagrams  *)
(* that are tried at once and otherwise queued, the callbacks given to     *)
(* Send, and an application that may call Send, Close or delete at any     *)
(* time, from within those callbacks too.                                  *)
(*                                                                         *)
(* frames is the stack of running callbacks.  The code that called one     *)
(* has only the callback itself left to delete when it returns.            *)
(***************************************************************************)
EXTENDS Integers, Sequences, FiniteSetsExt

CONSTANTS
  Sends,    \* identities of the calls to Send the application makes
  Silent,   \* the ones made with a null callback
  MaxLen,   \* a bound on the length of a datagram
  MaxRecv   \* a bound on the datagrams received in one behaviour

ASSUME SendsAssumption == Silent \subseteq Sends
ASSUME BoundAssumption == MaxLen \in Nat /\ MaxRecv \in Nat

VARIABLES
  \* the libuv handle
  handle,     \* "open" (bound), "closing" (uv_close called), "freed"
  receiving,  \* uv_udp_recv_start is in force
  queue,      \* requests whose datagram has not left, oldest first
  completed,  \* finished requests whose callback has not run: [w, status]
  data,       \* uvHandle->data points to the object
  fault,      \* libuv would abort here, or freed memory would be used
  \* the object
  mem,        \* "none" yet, "live", "deleted"
  closed, sentBytes, received,
  frames,
  \* history
  issued,     \* the Sends made so far, in order
  length,     \* the lengths of their datagrams
  refused,    \* those that found the socket closed or the datagram empty
  cbLog,      \* per Send: the calls of its callback and its deletion
  left        \* the datagrams that have left, in order

uvVars  == <<handle, receiving, data, fault>>
reqVars == <<queue, completed, left>>
vars == <<uvVars, reqVars, mem, closed, sentBytes, received, frames, issued, length,
          refused, cbLog>>

-----------------------------------------------------------------------------
\* libuv.

\* uv_udp_try_send: nothing is tried while a request is unfinished.
UvTrySend ==
  IF queue # <<>> \/ completed # <<>> THEN {"EAGAIN"}
  ELSE {"EAGAIN", "sent", "truncated", "error"}

\* The oldest queued datagram leaves, or its sending fails.  libuv tries within
\* uv_udp_send and whenever the socket becomes writable.
Transmit ==
  /\ handle = "open" /\ queue # <<>>
  /\ queue' = Tail(queue)
  /\ \/ /\ left' = Append(left, Head(queue))
        /\ completed' = Append(completed, [w |-> Head(queue), status |-> "ok"])
     \/ /\ completed' = Append(completed, [w |-> Head(queue), status |-> "error"])
        /\ UNCHANGED left
  /\ UNCHANGED <<uvVars, mem, closed, sentBytes, received, frames, issued, length,
                 refused, cbLog>>

\* The loop runs callbacks only when none is running.
Idle == frames = <<>>

\* What is queued is cancelled when the loop finishes closing the handle.
Cancel ==
  /\ Idle /\ handle = "closing" /\ queue # <<>>
  /\ completed' = completed \o
       [i \in DOMAIN queue |-> [w |-> queue[i], status |-> "error"]]
  /\ queue' = <<>>
  /\ UNCHANGED <<uvVars, left, mem, closed, sentBytes, received, frames, issued,
                 length, refused, cbLog>>

-----------------------------------------------------------------------------
Init ==
  /\ handle = "open" /\ receiving = FALSE /\ queue = <<>> /\ completed = <<>>
  /\ data = FALSE /\ fault = FALSE /\ mem = "none" /\ closed = FALSE
  /\ sentBytes = 0 /\ received = 0 /\ frames = <<>> /\ issued = <<>>
  /\ length = [w \in Sends |-> 0] /\ refused = {} /\ left = <<>>
  /\ cbLog = [w \in Sends |-> <<>>]

\* The constructor takes a bound handle.
Construct ==
  /\ mem = "none"
  /\ mem' = "live" /\ data' = TRUE /\ receiving' = TRUE
  /\ UNCHANGED <<handle, fault, reqVars, closed, sentBytes, received, frames, issued,
                 length, refused, cbLog>>

\* It throws: receiving cannot start, or the local address cannot be read.  The
\* destructor does not run, and data keeps pointing to where the object was.
ConstructFails ==
  /\ mem = "none"
  /\ mem' = "deleted" /\ data' = TRUE /\ handle' = "closing"
  /\ UNCHANGED <<receiving, fault, reqVars, closed, sentBytes, received, frames,
                 issued, length, refused, cbLog>>

\* (Operators under a comment that starts with "Mistake" are not part of the
\* specification: each is the next one with a plausible error in it.)

\* Mistake: the handle is only stopped.
CloseStops ==
  IF closed THEN UNCHANGED <<closed, uvVars>>
  ELSE closed' = TRUE /\ data' = FALSE /\ receiving' = FALSE /\ UNCHANGED <<handle, fault>>

\* UdpSocket::Close.
Close ==
  IF closed THEN UNCHANGED <<closed, uvVars>>
  ELSE /\ closed' = TRUE /\ data' = FALSE /\ receiving' = FALSE
       /\ handle' = "closing" /\ fault' = (fault \/ handle # "open")

\* The application calls Close.
UserClose ==
  /\ mem = "live" /\ ~closed /\ Close
  /\ UNCHANGED <<reqVars, mem, sentBytes, received, frames, issued, length, refused,
                 cbLog>>

\* The application deletes the object.
Destroy ==
  /\ mem = "live" /\ Close /\ mem' = "deleted"
  /\ UNCHANGED <<reqVars, sentBytes, received, frames, issued, length, refused, cbLog>>

-----------------------------------------------------------------------------
\* Send, one disjunct per way through it.

\* The callback of w runs.
Tell(w, answer) ==
  IF w \in Silent THEN UNCHANGED <<cbLog, frames>>
  ELSE /\ cbLog' = [cbLog EXCEPT ![w] = Append(@, answer)]
       /\ frames' = Append(frames, w)

Delete(w) ==
  cbLog' = [cbLog EXCEPT ![w] = IF w \in Silent THEN @ ELSE Append(@, "freed")]

\* The call itself: w is new, and its datagram has n bytes.
Called(w, n) ==
  /\ mem = "live" /\ w \notin {issued[i] : i \in DOMAIN issued}
  /\ issued' = Append(issued, w)
  /\ length' = [length EXCEPT ![w] = n]
  /\ UNCHANGED <<uvVars, mem, closed, received>>

\* Closed, or an empty datagram.  The callback is told and not deleted.
SendRefused(w, n) ==
  /\ Called(w, n) /\ (closed \/ n = 0)
  /\ refused' = refused \cup {w}
  /\ Tell(w, "false")
  /\ UNCHANGED <<reqVars, sentBytes>>

Tried(w, n, result) ==
  Called(w, n) /\ ~closed /\ n > 0 /\ result \in UvTrySend /\ UNCHANGED refused

\* Mistake: no return after the datagram was sent.
SendDirectQueues(w, n) ==
  /\ Tried(w, n, "sent")
  /\ left' = Append(left, w) /\ sentBytes' = sentBytes + 2 * n
  /\ queue' = Append(queue, w)
  /\ Tell(w, "true")
  /\ UNCHANGED completed

\* Sent at once.
SendDirect(w, n) ==
  /\ Tried(w, n, "sent")
  /\ left' = Append(left, w) /\ sentBytes' = sentBytes + n
  /\ Tell(w, "true")
  /\ UNCHANGED <<queue, completed>>

\* Cut off after some of its bytes, which are counted.
SendTruncated(w, n) ==
  /\ Tried(w, n, "truncated")
  /\ \E sent \in 0..n-1 : sentBytes' = sentBytes + sent
  /\ Tell(w, "false")
  /\ UNCHANGED reqVars

\* An error other than EAGAIN, or EAGAIN and then an error of uv_udp_send.
SendFails(w, n) ==
  /\ \E result \in {"error", "EAGAIN"} : Tried(w, n, result)
  /\ Tell(w, "false")
  /\ UNCHANGED <<reqVars, sentBytes>>

\* EAGAIN, and uv_udp_send takes a copy.
SendQueued(w, n) ==
  /\ Tried(w, n, "EAGAIN")
  /\ queue' = Append(queue, w) /\ sentBytes' = sentBytes + n
  /\ UNCHANGED <<completed, left, cbLog, frames>>

\* Mistake: the object is used after the callback has run.
CbReturnCounts ==
  /\ frames # <<>>
  /\ frames' = SubSeq(frames, 1, Len(frames) - 1)
  /\ fault' = (fault \/ mem = "deleted")
  /\ IF frames[Len(frames)] \in refused THEN UNCHANGED cbLog ELSE Delete(frames[Len(frames)])
  /\ UNCHANGED <<handle, receiving, data, reqVars, mem, closed, sentBytes, received,
                 issued, length, refused>>

\* The innermost callback returns, and its caller deletes it (with its request,
\* if it has one).  The object is not looked at any more.
CbReturn ==
  /\ frames # <<>>
  /\ frames' = SubSeq(frames, 1, Len(frames) - 1)
  /\ IF frames[Len(frames)] \in refused THEN UNCHANGED cbLog ELSE Delete(frames[Len(frames)])
  /\ UNCHANGED <<uvVars, reqVars, mem, closed, sentBytes, received, issued, length,
                 refused>>

-----------------------------------------------------------------------------
\* Callbacks of the event loop.

\* onRecv: a whole datagram is counted and handed to the subclass, whose calls
\* come after it.  (An empty one, a cut off one and an error change nothing.)
OnRecv ==
  /\ Idle /\ receiving /\ handle = "open" /\ data /\ received < MaxRecv
  /\ fault' = (fault \/ mem # "live")
  /\ received' = received + 1
  /\ UNCHANGED <<handle, receiving, data, reqVars, mem, closed, sentBytes, frames,
                 issued, length, refused, cbLog>>

\* Mistake: the callback is told whether or not the socket has closed.
OnSendReports ==
  /\ Idle /\ completed # <<>>
  /\ completed' = Tail(completed)
  /\ Tell(Head(completed).w, IF Head(completed).status = "ok" THEN "true" ELSE "false")
  /\ UNCHANGED <<uvVars, queue, left, mem, closed, sentBytes, received, issued, length,
                 refused>>

\* Mistake: queueing counts as sending.
OnSendTrue ==
  /\ Idle /\ completed # <<>>
  /\ completed' = Tail(completed)
  /\ IF data THEN Tell(Head(completed).w, "true")
     ELSE Delete(Head(completed).w) /\ UNCHANGED frames
  /\ UNCHANGED <<uvVars, queue, left, mem, closed, sentBytes, received, issued, length,
                 refused>>

\* onSend for the oldest finished request: the callback of a closed socket is
\* only deleted.
OnSend ==
  /\ Idle /\ completed # <<>>
  /\ LET c == Head(completed)
     IN  /\ completed' = Tail(completed)
         /\ fault' = (fault \/ (data /\ mem # "live") \/ handle = "freed")
         /\ IF data THEN Tell(c.w, IF c.status = "ok" THEN "true" ELSE "false")
            ELSE Delete(c.w) /\ UNCHANGED frames
  /\ UNCHANGED <<handle, receiving, data, queue, left, mem, closed, sentBytes, received,
                 issued, length, refused>>

\* onClose, when nothing is left to cancel or report.
OnClose ==
  /\ Idle /\ handle = "closing" /\ queue = <<>> /\ completed = <<>>
  /\ handle' = "freed"
  /\ UNCHANGED <<receiving, data, fault, reqVars, mem, closed, sentBytes, received,
                 frames, issued, length, refused, cbLog>>

-----------------------------------------------------------------------------
Send(w, n) ==
  \/ SendRefused(w, n) \/ SendDirect(w, n) \/ SendTruncated(w, n)
  \/ SendFails(w, n) \/ SendQueued(w, n)

Next ==
  \/ Construct \/ ConstructFails \/ UserClose \/ Destroy
  \/ \E w \in Sends, n \in 0..MaxLen : Send(w, n)
  \/ CbReturn \/ OnRecv \/ OnSend \/ OnClose \/ Transmit \/ Cancel

\* The kernel takes or refuses datagrams in the end, the loop runs until no
\* handle is left, and callbacks return.
Fairness ==
  WF_vars(Transmit) /\ WF_vars(Cancel) /\ WF_vars(OnSend) /\ WF_vars(OnClose)
  /\ WF_vars(CbReturn)

Spec == Init /\ [][Next]_vars /\ Fairness

-----------------------------------------------------------------------------
\* Properties.

Elements(seq) == {seq[i] : i \in DOMAIN seq}

Sum(S) == MapThenSumSet(LAMBDA w : length[w], S)

\* Types.  In particular sentBytes never counts more than was given to Send.
TypeOK ==
  /\ handle \in {"open", "closing", "freed"} /\ mem \in {"none", "live", "deleted"}
  /\ receiving \in BOOLEAN /\ data \in BOOLEAN /\ fault \in BOOLEAN /\ closed \in BOOLEAN
  /\ queue \in Seq(Sends) /\ left \in Seq(Sends) /\ issued \in Seq(Sends)
  /\ completed \in Seq([w : Sends, status : {"ok", "error"}])
  /\ received \in 0..MaxRecv /\ frames \in Seq(Sends \ Silent)
  /\ length \in [Sends -> 0..MaxLen] /\ refused \in SUBSET Sends
  /\ cbLog \in [Sends -> Seq({"true", "false", "freed"})]
  /\ sentBytes \in 0..Sum(Elements(issued))

\* The application may close or delete the socket anywhere, in the callbacks of
\* a running Send and of onSend too: no code of a deleted object runs, no handle
\* is closed twice.
NoFault == ~fault

InFlight(w) == w \in Elements(queue) \/ \E i \in DOMAIN completed : completed[i].w = w

\* Every callback is told at most once, and rightly: true only of a datagram
\* that has left, false only of one that never will.  It is deleted after that,
\* or without it when the socket has closed; unanswered, it is still with libuv.
CallbackDiscipline ==
  \A w \in Sends \ Silent :
    /\ cbLog[w] \in {<<>>, <<"true">>, <<"false">>, <<"freed">>,
                     <<"true", "freed">>, <<"false", "freed">>}
    /\ w \in Elements(issued) /\ cbLog[w] = <<>> <=> InFlight(w)
    /\ "true" \in Elements(cbLog[w]) => w \in Elements(left)
    /\ "false" \in Elements(cbLog[w]) => w \notin Elements(left)
    /\ cbLog[w] = <<"freed">> => closed
    /\ cbLog[w] \in {<<"true">>, <<"false">>} => w \in Elements(frames) \cup refused

\* The callbacks are answered rightly, and no datagram leaves twice or overtakes an
\* earlier one, whether it was sent at once or queued, and every one that left or
\* will leave is counted.
SendsRight ==
  LET out == left \o queue
      place(w) == CHOOSE i \in DOMAIN issued : issued[i] = w
  IN  /\ CallbackDiscipline
      /\ \A i, j \in DOMAIN out : i < j => place(out[i]) < place(out[j])
      /\ Sum(Elements(out)) <= sentBytes

\* Once the socket is closed nothing is received, and a datagram that was still
\* waiting is reported neither as sent nor as failed.
SilentAfterClose ==
  [][closed => /\ received' = received
               /\ \A w \in Sends : InFlight(w) => cbLog'[w] \in {<<>>, <<"freed">>}]_vars

\* The handle of a socket that was closed, deleted or never constructed is
\* eventually deleted, and so is every callback Send did not refuse at once.
AllFreed ==
  /\ closed \/ mem = "deleted" ~> handle = "freed"
  /\ \A w \in Sends \ Silent :
       w \in Elements(issued) \ refused ~> "freed" \in Elements(cbLog[w])
=============================================================================
