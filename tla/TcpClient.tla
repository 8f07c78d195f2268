----------------------------- MODULE TcpClient ------------------------------
(***************************************************************************)
(* A TcpClient and the one connection it makes: module TcpConnection, run  *)
(* by a client instead of a server, with the connect request that only a   *)
(* client has.  The client keeps a plain pointer to the connection and     *)
(* closes the connection's handle itself, behind the connection's back; it *)
(* never learns through that pointer that the connection is gone.  So the  *)
(* class is only right for an application that keeps some rules, and Slips *)
(* lists the rules an application does not keep.                           *)
(*                                                                         *)
(* Connect is called once: a second call would reuse the embedded request. *)
(***************************************************************************)
EXTENDS TcpConnection

CONSTANT Slips

\* "close after end": Close or the destructor runs when the connection has
\*   closed already, of its own accord or by its own Close.
\* "close after throw": they run after Connect has closed the handle and thrown.
\*   There is then no way left to delete the client.
\* "close in callback": they run within the failure callback of a write.
\* "delete pending": the client is deleted before its connect request answers.
\* "use after close": the connection is used after the client closed.
ASSUME SlipsAssumption ==
  Slips \subseteq {"close after end", "close after throw", "close in callback",
                  "delete pending", "use after close"}

VARIABLES
  client,        \* the object is "live" or "deleted"
  clientClosed,  \* TcpClient::closed
  req            \* the connect request: "idle", "pending", "connected" (the
                 \* subclass was given the connection), "failed"

clientVars == <<client, clientClosed, req>>
allVars    == <<vars, clientVars>>

connVars == <<objVars, recvVars, sendVars, frames>>

-----------------------------------------------------------------------------
\* The client's calls.

ClientInit == Init /\ client = "live" /\ clientClosed = FALSE /\ req = "idle"

\* Mistake: the connection reads before it is connected.
ConnectReads ==
  /\ client = "live" /\ ~clientClosed /\ handle = "raw" /\ MayCall("Setup")
  /\ UvOpen /\ reading' = TRUE
  /\ req' = "pending"
  /\ UNCHANGED <<shutting, ioVars, fin, fault, connVars, client, clientClosed>>

\* Connect sets up the object the subclass allocates and starts connecting.
Connect ==
  /\ client = "live" /\ ~clientClosed
  /\ Setup
  /\ req' = "pending"
  /\ UNCHANGED <<client, clientClosed>>

\* uv_tcp_connect refuses at once: Connect returns the error, or, when there is
\* not even a socket with an address to read, closes the handle and throws.
ConnectFails(throws) ==
  /\ client = "live" /\ ~clientClosed /\ handle = "raw" /\ MayCall("Setup")
  /\ handle' = IF throws THEN "closing" ELSE "open"
  /\ UNCHANGED <<reading, shutting, ioVars, fin, fault, connVars, clientVars>>

\* Mistake: the connection's handle keeps pointing to it.
ClientCloseKeepsData ==
  IF clientClosed THEN UNCHANGED <<clientClosed, data, reading, handle, shutting, fault>>
  ELSE /\ clientClosed' = TRUE /\ reading' = FALSE
       /\ UvClose
       /\ UNCHANGED data

\* Mistake: no early return when closed already.
ClientCloseAgain ==
  /\ clientClosed' = TRUE /\ data' = FALSE /\ reading' = FALSE
  /\ UvClose

\* Mistake: the handle is only let go of.
ClientCloseForgets ==
  IF clientClosed THEN UNCHANGED <<clientClosed, data, reading, handle, shutting, fault>>
  ELSE /\ clientClosed' = TRUE /\ data' = FALSE /\ reading' = FALSE
       /\ UNCHANGED <<handle, shutting, fault>>

\* TcpClient::Close: the handle is closed at once, whatever the connection has
\* still to send.  The connection itself is not told and counts as open.
ClientClose ==
  IF clientClosed THEN UNCHANGED <<clientClosed, data, reading, handle, shutting, fault>>
  ELSE /\ clientClosed' = TRUE
       /\ IF mem = "live" /\ handle \in {"open", "closing"}
          THEN data' = FALSE /\ reading' = FALSE /\ UvClose
          ELSE fault' = TRUE /\ UNCHANGED <<data, reading, handle, shutting>>

\* The connection is there and has not closed.
ConnectionOpen == mem = "live" /\ ~closed /\ handle = "open"

\* Connect has closed the handle and thrown.
ConnectThrew == req = "idle" /\ handle \in {"closing", "freed"}

\* The application may call Close or delete the client: the connection is there and
\* open, or Close would change nothing, or it does not keep a rule.
MayClose ==
  /\ client = "live" /\ handle # "raw"
  /\ Idle \/ "close in callback" \in Slips
  /\ \/ clientClosed \/ ConnectionOpen
     \/ ConnectThrew /\ "close after throw" \in Slips
     \/ ~ConnectThrew /\ "close after end" \in Slips

UserClosesClient ==
  /\ MayClose /\ ~clientClosed
  /\ ClientClose
  /\ UNCHANGED <<client, req, ioVars, fin, mem, closed, isClosedByPeer, hasError,
                 notified, recvVars, sendVars, frames>>

\* The destructor closes first if need be.
DeleteClient ==
  /\ MayClose
  /\ req # "pending" \/ "delete pending" \in Slips
  /\ client' = "deleted"
  /\ ClientClose
  /\ UNCHANGED <<req, ioVars, fin, mem, closed, isClosedByPeer, hasError,
                 notified, recvVars, sendVars, frames>>

-----------------------------------------------------------------------------
\* The answer to the connect request.

\* Connected: the connection starts reading and the subclass is given it.
OnUvConnection ==
  /\ req = "pending" /\ ~clientClosed
  /\ Start
  /\ req' = "connected"
  /\ UNCHANGED <<client, clientClosed>>

\* Connected, but the peer is gone already and Start throws.
OnUvConnectionThrows ==
  /\ req = "pending" /\ ~clientClosed /\ handle = "open"
  /\ Destroy
  /\ req' = "failed"
  /\ UNCHANGED <<client, clientClosed>>

\* The connect failed, or is cancelled because the handle is closing: nothing
\* is told to anybody.  The request lives inside the client.
OnUvConnectionFails ==
  /\ Idle /\ req = "pending"
  /\ req' = "failed"
  /\ fault' = (fault \/ client = "deleted")
  /\ UNCHANGED <<handle, reading, shutting, ioVars, fin, connVars, client, clientClosed>>

-----------------------------------------------------------------------------
\* The connection's own steps.

\* The application holds the connection.
Given == req = "connected" /\ (~clientClosed \/ "use after close" \in Slips)

ConnectionCalled ==
  /\ Given
  /\ \/ UserClose \/ ErrorReceiving
     \/ \E w \in Writes, n \in 0..MaxLen : WriteOne(w, n)
     \/ \E n \in 1..BufferSize : Consume(n)
  /\ UNCHANGED clientVars

\* The listener the connection tells of its end is the client.
ConnectionEnds ==
  /\ CbReturn \/ OnReadByPeer \/ OnReadError
  /\ UNCHANGED clientVars

ConnectionRuns ==
  /\ \/ \E n \in 1..BufferSize : OnReadData(n)
     \/ OnWrite \/ OnShutdown \/ Transmit \/ Cancel \/ Reset
     \/ OnClose /\ req # "pending"
  /\ UNCHANGED clientVars

ClientNext ==
  \/ Connect \/ \E throws \in BOOLEAN : ConnectFails(throws)
  \/ UserClosesClient \/ DeleteClient
  \/ OnUvConnection \/ OnUvConnectionThrows \/ OnUvConnectionFails
  \/ ConnectionCalled \/ ConnectionEnds \/ ConnectionRuns

ClientSpec == ClientInit /\ [][ClientNext]_allVars

\* The loop runs until every handle is gone.
ClientFairness ==
  /\ WF_allVars(OnUvConnectionFails)
  /\ WF_allVars(Cancel /\ UNCHANGED clientVars)
  /\ WF_allVars(OnWrite /\ UNCHANGED clientVars)
  /\ WF_allVars(OnShutdown /\ UNCHANGED clientVars)
  /\ WF_allVars(OnClose /\ req # "pending" /\ UNCHANGED clientVars)
  /\ WF_allVars(CbReturn /\ UNCHANGED clientVars)

ClientFairSpec == ClientSpec /\ ClientFairness

-----------------------------------------------------------------------------
\* Properties.

\* Once the client has closed, nobody hears of the connection any more: its
\* listener is not told, no data is counted, and the callbacks of the writes
\* that were waiting are deleted without being called.
QuietAfterClose ==
  [][clientClosed =>
       /\ notified' = notified /\ recvBytes' = recvBytes
       /\ \A w \in Writes : cbLog'[w] \in {cbLog[w], cbLog[w] \o <<"freed">>}]_allVars

\* The end of a connection is only reported for one the subclass was given, and
\* never for one that is still connecting or failed to.
EndAfterAnswer == notified > 0 => req = "connected" /\ mem = "deleted"

\* The handle of a closed client is eventually deleted, also when Close comes
\* before the connect request answers.
ClientHandleFreed == clientClosed ~> handle = "freed"

\* "close the socket after 5s" (test_TcpClient.cpp:103): the application may
\* close the client whenever it likes, whatever became of the connection.  (For
\* an application that keeps the rules this is NoFault of TcpConnection: no
\* order of the connect answer, the peer, failing writes and Close makes the
\* two objects close one handle twice or use what was deleted.)
CloseAnyTime == ~fault
=============================================================================
