-------------------------- MODULE TcpClient_proofs --------------------------
(***************************************************************************)
(* Proofs about TcpClient: the two objects that share one handle, for an   *)
(* application that keeps all of the rules and does no more than Close in  *)
(* a failure callback.                                                     *)
(***************************************************************************)
EXTENDS TcpClient, TcpConnection_proofs

-----------------------------------------------------------------------------
\* The inductive invariant: types and write queue as for any connection, and
\* ClientLife, Stage.

\* The handle was closed behind the connection's back: by Close of the client, or by
\* Connect when there was no socket to connect.  The object stays, counts as open and
\* is told nothing.
Abandoned ==
  /\ ~fault /\ mem = "live" /\ ~closed /\ notified = 0 /\ ~reading /\ frames = <<>>
  /\ shutting = "none" /\ handle \in {"closing", "freed"}
  /\ handle = "freed" => completed = <<>>
  /\ IF clientClosed THEN ~data
     ELSE req = "idle" /\ queue = <<>> /\ completed = <<>>

\* As long as nobody did that, the connection lives as any other.
ClientLife == (~clientClosed /\ Life) \/ Abandoned

\* Before the connect request is answered well nothing can happen on the
\* connection, and it is not closed; the request never outlives the client.
Stage ==
  /\ client \in {"live", "deleted"} /\ clientClosed \in BOOLEAN
  /\ req \in {"idle", "pending", "connected", "failed"}
  /\ client = "deleted" => clientClosed /\ req # "pending"
  /\ handle = "raw" => req = "idle"
  /\ req \in {"idle", "pending"} => ~closed
  /\ req # "connected" =>
       ~reading /\ frames = <<>> /\ queue = <<>> /\ completed = <<>> /\ notified = 0

ClientInv == TypeOK /\ Backlog /\ ClientLife /\ Stage

-----------------------------------------------------------------------------
\* How the client's steps act on the connection.

\* The steps that close the handle behind the connection's back.
Abandon == ConnectFails(TRUE) \/ ((UserClosesClient \/ DeleteClient) /\ ~clientClosed)

\* Every other step of the client's is one the connection may make by itself.
LEMMA ConnectionSteps ==
  ASSUME ClientInv, [ClientNext]_allVars
  PROVE  [Next]_vars \/ Abandon
  <1> USE DEF clientVars, connVars
  <1>1. CASE Connect
    BY <1>1 DEF Connect, Next, AppNext
  <1>2. CASE ConnectFails(FALSE)
    <2>1. Setup
      BY <1>2 DEF ConnectFails, Setup, UvOpen
    <2> QED BY <2>1 DEF Next, AppNext
  <1>3. CASE ConnectFails(TRUE)
    BY <1>3 DEF Abandon
  <1>4. CASE UserClosesClient
    BY <1>4 DEF Abandon, UserClosesClient
  <1>5. CASE DeleteClient
    <2>1. CASE clientClosed
      <3>1. UNCHANGED <<data, reading, handle, shutting, fault>>
        BY <1>5, <2>1 DEF DeleteClient, ClientClose
      <3> QED BY <1>5, <3>1 DEF DeleteClient, vars, streamVars, objVars, ioVars
    <2> QED BY <1>5, <2>1 DEF Abandon
  <1>6. CASE OnUvConnection
    BY <1>6 DEF OnUvConnection, Next, AppNext
  <1>7. CASE OnUvConnectionThrows
    BY <1>7 DEF OnUvConnectionThrows, Next, AppNext
  <1>8. CASE OnUvConnectionFails
    <2>1. UNCHANGED fault
      BY <1>8 DEF OnUvConnectionFails, ClientInv, Stage, TypeOK
    <2> QED BY <1>8, <2>1 DEF OnUvConnectionFails, vars, streamVars, ioVars
  <1>9. CASE ConnectionCalled
    BY <1>9 DEF ConnectionCalled, Next, AppNext
  <1>10. CASE ConnectionEnds
    BY <1>10 DEF ConnectionEnds, Next, AppNext, LoopNext
  <1>11. CASE ConnectionRuns
    BY <1>11 DEF ConnectionRuns, Next, LoopNext
  <1>12. CASE UNCHANGED allVars
    BY <1>12 DEF allVars
  <1> QED BY <1>1, <1>2, <1>3, <1>4, <1>5, <1>6, <1>7, <1>8, <1>9, <1>10, <1>11, <1>12
             DEF ClientNext

\* An application that keeps the rules only abandons a connection whose handle it
\* may still close: nothing faults, and what the connection had to send stays.
LEMMA AbandonForm ==
  ASSUME Slips = {}, ClientInv, Abandon
  PROVE  /\ ~clientClosed /\ Life /\ ~closed /\ mem = "live" /\ frames = <<>>
         /\ handle' = "closing" /\ ~fault' /\ ~reading'
         /\ IF clientClosed' THEN data' = FALSE
            ELSE req = "idle" /\ UNCHANGED <<req, data>>
         /\ UNCHANGED <<shutting, ioVars, fin, mem, closed, isClosedByPeer,
                        hasError, notified, recvVars, sendVars, frames>>
  <1> USE DEF connVars, clientVars, objVars
  <1>1. CASE ConnectFails(TRUE)
    <2>1. handle = "raw" /\ ~clientClosed
      BY <1>1 DEF ConnectFails
    <2>2. Life /\ req = "idle"
      BY <2>1 DEF ClientInv, ClientLife, Abandoned, Stage
    <2>3. ~closed /\ ~fault /\ ~reading /\ frames = <<>> /\ mem = "live"
      BY <2>1, <2>2 DEF Life, ClientInv, TypeOK
    <2> QED BY <1>1, <2>1, <2>2, <2>3 DEF ConnectFails
  <1>2. CASE (UserClosesClient \/ DeleteClient) /\ ~clientClosed
    <2>1. MayClose /\ ClientClose
      BY <1>2 DEF UserClosesClient, DeleteClient
    <2>2. frames = <<>> /\ mem = "live" /\ ~closed /\ handle = "open"
      BY <1>2, <2>1 DEF MayClose, ConnectionOpen, Idle
    <2>3. Life /\ ~fault
      BY <1>2, <2>2 DEF ClientInv, ClientLife, Abandoned, Life
    <2>4. clientClosed' /\ data' = FALSE /\ reading' = FALSE /\ UvClose
      BY <1>2, <2>1, <2>2 DEF ClientClose
    <2>5. handle' = "closing" /\ ~fault' /\ UNCHANGED shutting
      BY <2>2, <2>3, <2>4 DEF UvClose
    <2> QED BY <1>2, <2>2, <2>3, <2>4, <2>5 DEF UserClosesClient, DeleteClient
  <1> QED BY <1>1, <1>2 DEF Abandon

\* On an abandoned connection nothing is left but to cancel its writes, to delete
\* their callbacks and to free the handle.
LEMMA AbandonedSteps ==
  ASSUME Slips = {}, ClientInv, Abandoned, [ClientNext]_allVars
  PROVE  \/ UNCHANGED <<vars, clientClosed>> /\ (req = "idle" => req' = "idle")
         \/ (Cancel \/ (OnWrite /\ clientClosed) \/ OnClose) /\ UNCHANGED clientVars
  <1> USE DEF clientVars, connVars
  <1>1. CASE Connect \/ \E throws \in BOOLEAN : ConnectFails(throws)
    BY <1>1 DEF Connect, Setup, ConnectFails, Abandoned
  <1>2. CASE UserClosesClient
    BY <1>2 DEF UserClosesClient, MayClose, ConnectionOpen, Abandoned
  <1>3. CASE DeleteClient
    <2>1. clientClosed
      BY <1>3 DEF DeleteClient, MayClose, ConnectionOpen, Abandoned
    <2>2. UNCHANGED <<clientClosed, data, reading, handle, shutting, fault>>
      BY <1>3, <2>1 DEF DeleteClient, ClientClose
    <2> QED BY <1>3, <2>2 DEF DeleteClient, vars, streamVars, objVars, ioVars
  <1>4. CASE OnUvConnection \/ OnUvConnectionThrows
    BY <1>4 DEF OnUvConnection, OnUvConnectionThrows, Abandoned
  <1>5. CASE OnUvConnectionFails
    <2>1. UNCHANGED fault
      BY <1>5 DEF OnUvConnectionFails, ClientInv, Stage, TypeOK
    <2> QED BY <1>5, <2>1 DEF OnUvConnectionFails, vars, streamVars, ioVars
  <1>6. CASE ConnectionCalled
    BY <1>6 DEF ConnectionCalled, Given, Abandoned
  <1>7. CASE ConnectionEnds
    BY <1>7 DEF ConnectionEnds, CbReturn, OnReadByPeer, OnReadError, OnReadEnd, Abandoned
  <1>8. CASE ConnectionRuns
    <2>1. ~(\E n \in 1..BufferSize : OnReadData(n)) /\ ~OnShutdown /\ ~Transmit /\ ~Reset
      BY DEF OnReadData, OnShutdown, ShutdownEnds, Transmit, FlushHead, FailHead,
             Reset, Break, Abandoned
    <2>2. OnWrite => clientClosed
      BY DEF OnWrite, Abandoned
    <2> QED BY <1>8, <2>1, <2>2 DEF ConnectionRuns
  <1>9. CASE UNCHANGED allVars
    BY <1>9 DEF allVars
  <1> QED BY <1>1, <1>2, <1>3, <1>4, <1>5, <1>6, <1>7, <1>8, <1>9 DEF ClientNext

-----------------------------------------------------------------------------
\* Every step keeps each part of the invariant.

\* The types and the write queue of the connection.
LEMMA ClientBacklogStep ==
  ASSUME Slips = {}, ClientInv, [ClientNext]_allVars
  PROVE  TypeOK' /\ Backlog'
  <1>1. CASE Abandon
    <2>1. TypeOK'
      <3>1. handle' \in {"raw", "open", "closing", "freed"} /\ reading' \in BOOLEAN
            /\ fault' \in BOOLEAN /\ data' \in BOOLEAN
        BY <1>1, TypeStep DEF ClientInv, TypeOK, Abandon, ConnectFails, UserClosesClient,
           DeleteClient, ClientClose, UvClose, connVars, objVars
      <3> QED BY <1>1, <3>1, AbandonForm DEF ClientInv, TypeOK, ioVars, recvVars, sendVars
    <2>2. Backlog'
      BY <1>1, AbandonForm DEF ClientInv, Backlog, StreamLen, ioVars, sendVars
    <2> QED BY <2>1, <2>2
  <1>2. CASE [Next]_vars /\ Life
    BY <1>2, TypeStep, BacklogStep DEF ClientInv
  <1>3. CASE [Next]_vars /\ Abandoned
    <2> SUFFICES Backlog'
      BY <1>3, TypeStep DEF ClientInv
    <2>2. CASE UNCHANGED vars
      BY <2>2 DEF ClientInv, Backlog, StreamLen, vars, streamVars, sendVars
    <2>3. CASE Cancel
      <3>1. queue' = <<>> /\ handle' = "closing" /\ UNCHANGED <<wire, backlog, accepted>>
        BY <2>3 DEF Cancel, CancelQueue, sendVars
      <3> QED BY <3>1 DEF ClientInv, Backlog
    <2>4. CASE OnWrite \/ OnClose
      <3>1. /\ UNCHANGED <<queue, wire, backlog, accepted, sock>>
            /\ handle' \in {"raw", "open"} => handle \in {"raw", "open"}
        BY <2>4 DEF OnWrite, OnClose, ioVars, sendVars
      <3> QED BY <3>1 DEF ClientInv, Backlog, StreamLen
    <2> QED BY <1>3, <2>2, <2>3, <2>4, AbandonedSteps
  <1> QED BY <1>1, <1>2, <1>3, ConnectionSteps DEF ClientInv, ClientLife

\* The life of the connection, abandoned or not.
LEMMA ClientLifeStep ==
  ASSUME Slips = {}, CbCalls \subseteq {"Close"}, ClientInv, [ClientNext]_allVars
  PROVE  ClientLife'
  <1>1. CASE Abandon
    <2>1. ~closed /\ Life /\ ~clientClosed
      BY <1>1, AbandonForm
    <2>2. notified = 0 /\ shutting = "none" /\ mem = "live" /\ frames = <<>>
      BY <1>1, <2>1, AbandonForm DEF Life, ClientInv, TypeOK
    <2>3. req = "idle" => queue = <<>> /\ completed = <<>>
      BY DEF ClientInv, Stage
    <2> QED BY <1>1, <2>1, <2>2, <2>3, AbandonForm DEF ClientLife, Abandoned, ioVars
  <1>2. CASE Abandoned
    <2>1. CASE UNCHANGED <<vars, clientClosed>> /\ (req = "idle" => req' = "idle")
      BY <1>2, <2>1 DEF ClientLife, Abandoned, vars, streamVars, objVars
    <2>2. CASE Cancel /\ UNCHANGED clientVars
      BY <1>2, <2>2 DEF Cancel, CancelQueue, ClientLife, Abandoned, objVars, clientVars
    <2>3. CASE OnWrite /\ clientClosed /\ UNCHANGED clientVars
      BY <1>2, <2>3 DEF OnWrite, ClientLife, Abandoned, clientVars, objVars
    <2>4. CASE OnClose /\ UNCHANGED clientVars
      BY <1>2, <2>4 DEF OnClose, CloseEnds, ClientLife, Abandoned, clientVars, objVars, ioVars
    <2> QED BY <1>2, <2>1, <2>2, <2>3, <2>4, AbandonedSteps
  <1>3. CASE [Next]_vars /\ ~Abandon /\ ~clientClosed /\ Life
    <2>1. Life'
      BY <1>3, LifeStep DEF ClientInv
    <2>2. ~clientClosed'
      BY <1>3 DEF ClientNext, allVars, clientVars, Abandon, Connect, ConnectFails,
             OnUvConnection, OnUvConnectionThrows, OnUvConnectionFails,
             ConnectionCalled, ConnectionEnds, ConnectionRuns
    <2> QED BY <2>1, <2>2 DEF ClientLife
  <1> QED BY <1>1, <1>2, <1>3, ConnectionSteps DEF ClientInv, ClientLife

\* A handle that was opened never becomes raw again.
LEMMA HandleStays ==
  ASSUME [Next]_vars, handle # "raw"
  PROVE  handle' # "raw"
  <1>1. ASSUME NEW error, NEW byPeer, Close(error, byPeer) PROVE handle' # "raw"
    BY <1>1 DEF Close, UvShutdown, UvClose
  <1>2. CASE Setup \/ Start \/ \E n \in 1..BufferSize : Consume(n)
    BY <1>2 DEF Setup, UvOpen, Start, Consume, streamVars
  <1>3. CASE UserClose \/ ErrorReceiving \/ Destroy
    BY <1>1, <1>3 DEF UserClose, ErrorReceiving, Destroy
  <1>4. CASE CbReturn
    BY <1>1, <1>4 DEF CbReturn
  <1>5. CASE \/ \E w \in Writes, n \in 0..MaxLen : WriteOne(w, n)
             \/ \E w \in Writes, n1, n2 \in 0..MaxLen : WriteTwo(w, n1, n2)
    BY <1>5 DEF WriteOne, WriteTwo, WriteRefused, WriteAll, WriteQueued, WriteError, streamVars
  <1>6. CASE OnReadByPeer \/ OnReadError
    BY <1>1, <1>6 DEF OnReadByPeer, OnReadError, OnReadEnd
  <1>7. CASE \/ \E n \in 1..BufferSize : OnReadData(n)
             \/ OnWrite \/ OnShutdown \/ OnClose \/ Transmit \/ Cancel \/ Reset
    BY <1>7 DEF OnReadData, OnWrite, OnShutdown, OnClose, Transmit, FlushHead, FailHead,
       Cancel, CancelQueue, Reset, Break
  <1>8. CASE UNCHANGED vars
    BY <1>8 DEF vars, streamVars
  <1> QED BY <1>2, <1>3, <1>4, <1>5, <1>6, <1>7, <1>8 DEF Next, AppNext, LoopNext

\* The stage the client and its request are in.
LEMMA StageStep ==
  ASSUME Slips = {}, CbCalls \subseteq {"Close"}, ClientInv, [ClientNext]_allVars
  PROVE  Stage'
  <1> USE DEF Stage, clientVars, connVars
  <1>1. ASSUME UNCHANGED <<client, clientClosed, req, closed, reading, frames, queue,
                           completed, notified>>,
               handle' = "raw" => handle = "raw"
        PROVE  Stage'
    BY <1>1 DEF ClientInv
  <1>2. CASE Abandon
    <2>1. /\ handle' = "closing" /\ ~reading' /\ ~closed /\ frames = <<>>
          /\ UNCHANGED <<ioVars, closed, notified, frames>>
      BY <1>2, AbandonForm
    <2>2. /\ client' \in {"live", "deleted"} /\ clientClosed' \in BOOLEAN
          /\ UNCHANGED req
          /\ client' = "deleted" => clientClosed' /\ req # "pending"
      BY <1>2, AbandonForm DEF ClientInv, Abandon, ConnectFails, UserClosesClient,
         DeleteClient, ClientClose
    <2> QED BY <2>1, <2>2 DEF ClientInv, ioVars
  <1>3. CASE Abandoned
    <2>1. CASE UNCHANGED vars
      <3>1. /\ client' \in {"live", "deleted"} /\ clientClosed' \in BOOLEAN
            /\ req' \in {"idle", "pending", "connected", "failed"}
            /\ client' = "deleted" => clientClosed' /\ req' # "pending"
            /\ req' \in {"idle", "pending"} => ~closed
            /\ req = "connected" => req' = "connected"
        BY <1>3, <2>1 DEF ClientInv, Abandoned, ClientNext, allVars, Connect, ConnectFails,
           UserClosesClient, DeleteClient, ClientClose, OnUvConnection,
           OnUvConnectionThrows, OnUvConnectionFails, ConnectionCalled, ConnectionEnds,
           ConnectionRuns
      <3> QED BY <1>3, <2>1, <3>1 DEF ClientInv, Abandoned, vars, streamVars, objVars
    <2>2. CASE (Cancel \/ (OnWrite /\ clientClosed) \/ OnClose) /\ UNCHANGED clientVars
      <3>1. /\ UNCHANGED <<closed, reading, frames, notified, client, clientClosed, req>>
            /\ handle' # "raw"
        BY <1>3, <2>2 DEF Cancel, CancelQueue, OnWrite, OnClose, CloseEnds, Abandoned, objVars
      <3>2. queue = <<>> /\ completed = <<>> => queue' = <<>> /\ completed' = <<>>
        BY <1>3, <2>2 DEF Cancel, CancelQueue, OnWrite, OnClose, CloseEnds, ioVars
      <3> QED BY <3>1, <3>2 DEF ClientInv
    <2> QED BY <1>3, <2>1, <2>2, AbandonedSteps
  <1>4. CASE ~Abandon /\ ~clientClosed /\ Life
    <2>1. CASE Connect
      BY <2>1 DEF Connect, Setup, UvOpen, ClientInv, objVars, ioVars
    <2>2. CASE ConnectFails(FALSE)
      BY <2>2 DEF ConnectFails, ClientInv, objVars, ioVars
    <2>3. CASE ConnectFails(TRUE) \/ UserClosesClient
      BY <1>4, <2>3 DEF Abandon
    <2>4. CASE DeleteClient
      BY <1>4, <2>4 DEF Abandon
    <2>5. CASE OnUvConnection
      BY <2>5 DEF OnUvConnection, Start, ClientInv, objVars
    <2>6. CASE OnUvConnectionThrows
      <3>1. reading' = FALSE \/ UNCHANGED reading
        BY <2>6 DEF OnUvConnectionThrows, Destroy, Close
      <3>2. handle' # "raw"
        BY <2>6 DEF OnUvConnectionThrows, Destroy, Close, UvShutdown, UvClose
      <3> QED BY <2>6, <3>1, <3>2 DEF OnUvConnectionThrows, Destroy, ClientInv, ioVars
    <2>7. CASE OnUvConnectionFails
      BY <2>7 DEF OnUvConnectionFails, ClientInv, objVars, ioVars
    <2>8. CASE ConnectionCalled
      <3>1. req = "connected" /\ UNCHANGED clientVars
        BY <2>8 DEF ConnectionCalled, Given
      <3> QED BY <1>4, <3>1, HandleStays, ConnectionSteps DEF ClientInv
    <2>9. CASE ConnectionEnds
      <3>1. req = "connected" /\ UNCHANGED clientVars
        BY <2>9 DEF ConnectionEnds, CbReturn, OnReadByPeer, OnReadError, OnReadEnd,
           ClientInv, TypeOK
      <3> QED BY <1>4, <3>1, HandleStays, ConnectionSteps DEF ClientInv
    <2>10. CASE ConnectionRuns
      <3>1. handle # "raw" => handle' # "raw"
        BY <1>4, HandleStays, ConnectionSteps DEF ClientInv
      <3>2. UNCHANGED <<client, clientClosed, req, closed, notified>>
        BY <2>10 DEF ConnectionRuns, OnReadData, OnWrite, OnShutdown, Transmit,
           Cancel, Reset, OnClose, FlushHead, FailHead, CancelQueue, Break, objVars
      <3>3. ~reading /\ frames = <<>> /\ queue = <<>> /\ completed = <<>> =>
              ~reading' /\ frames' = <<>> /\ queue' = <<>> /\ completed' = <<>>
        BY <2>10 DEF ConnectionRuns, OnReadData, OnWrite, OnShutdown, Transmit, Cancel,
           Reset, OnClose, FlushHead, FailHead, CancelQueue, Break, ioVars
      <3> QED BY <3>1, <3>2, <3>3 DEF ClientInv
    <2>11. CASE UNCHANGED allVars
      BY <1>1, <2>11 DEF allVars, vars, streamVars, objVars
    <2> QED BY <2>1, <2>2, <2>3, <2>4, <2>5, <2>6, <2>7, <2>8, <2>9, <2>10, <2>11
               DEF ClientNext
  <1> QED BY <1>2, <1>3, <1>4 DEF ClientInv, ClientLife

-----------------------------------------------------------------------------
\* The inductive invariant holds of every reachable state, for an application that
\* keeps the rules and does no more than Close in a failure callback.
THEOREM ClientInvariant ==
  ASSUME Slips = {}, CbCalls \subseteq {"Close"}
  PROVE  ClientSpec => []ClientInv
  <1>1. ClientInit => ClientInv
    <2> SUFFICES ASSUME ClientInit PROVE ClientInv
      OBVIOUS
    <2>1. TypeOK /\ Life /\ Backlog
      BY InitInv DEF ClientInit, IInv
    <2>2. ClientLife /\ Stage
      BY <2>1 DEF ClientInit, Init, ClientLife, Stage
    <2> QED BY <2>1, <2>2 DEF ClientInv
  <1>2. ClientInv /\ [ClientNext]_allVars => ClientInv'
    BY ClientBacklogStep, ClientLifeStep, StageStep DEF ClientInv
  <1> QED BY <1>1, <1>2, PTL DEF ClientSpec

\* No order of the connect answer, the peer, failing writes and the client's Close
\* or destructor closes the shared handle twice or uses what was deleted.
THEOREM ClientNeverFaults ==
  ASSUME Slips = {}, CbCalls \subseteq {"Close"}
  PROVE  ClientSpec => []NoFault
  <1>1. ClientInv => NoFault
    BY DEF ClientInv, ClientLife, Life, Abandoned, NoFault
  <1> QED BY <1>1, ClientInvariant, PTL

\* The end of a connection is only told of one that the subclass was given.
THEOREM EndsAfterAnswer ==
  ASSUME Slips = {}, CbCalls \subseteq {"Close"}
  PROVE  ClientSpec => []EndAfterAnswer
  <1>1. ClientInv => EndAfterAnswer
    BY DEF ClientInv, ClientLife, Life, Abandoned, Stage, TypeOK, EndAfterAnswer
  <1> QED BY <1>1, ClientInvariant, PTL

\* Whatever the client does to the handle behind the connection's back, no byte it
\* accepted is lost, doubled or reordered.
THEOREM ClientLosesNothing ==
  ASSUME Slips = {}, CbCalls \subseteq {"Close"}
  PROVE  ClientSpec => []NothingLost
  <1>1. ClientInv => NothingLost
    BY DEF ClientInv, Backlog, NothingLost
  <1> QED BY <1>1, ClientInvariant, PTL

\* Once the client has closed, nobody hears of the connection any more.
THEOREM QuietOnceClosed ==
  ASSUME Slips = {}, CbCalls \subseteq {"Close"}
  PROVE  ClientSpec => QuietAfterClose
  <1> DEFINE Quiet ==
        clientClosed =>
          /\ notified' = notified /\ recvBytes' = recvBytes
          /\ \A w \in Writes : cbLog'[w] \in {cbLog[w], cbLog[w] \o <<"freed">>}
  <1>1. ClientInv /\ [ClientNext]_allVars => [Quiet]_allVars
    <2> SUFFICES ASSUME ClientInv, [ClientNext]_allVars, clientClosed PROVE Quiet
      OBVIOUS
    <2>1. Abandoned
      BY DEF ClientInv, ClientLife
    <2>2. CASE UNCHANGED vars
      BY <2>2 DEF vars, objVars, recvVars, sendVars
    <2>3. CASE Cancel \/ OnClose
      BY <2>3 DEF Cancel, OnClose, objVars, recvVars, sendVars
    <2>4. CASE OnWrite
      <3>1. Log(Head(completed).w, <<"freed">>) /\ UNCHANGED <<notified, recvBytes>>
        BY <2>1, <2>4 DEF OnWrite, Abandoned, recvVars
      <3>2. \A w \in Writes : cbLog'[w] \in {cbLog[w], cbLog[w] \o <<"freed">>}
        BY <3>1 DEF Log, ClientInv, TypeOK
      <3> QED BY <3>1, <3>2
    <2> QED BY <2>1, <2>2, <2>3, <2>4, AbandonedSteps
  <1>2. []ClientInv /\ [][ClientNext]_allVars => [][Quiet]_allVars
    BY <1>1, PTL
  <1> QED BY <1>2, ClientInvariant, PTL DEF ClientSpec, QuietAfterClose
=============================================================================
