----------------------------- MODULE TcpServer ------------------------------
(***************************************************************************)
(* A TcpServer, the set of connections it owns and the hooks through which *)
(* it calls its subclass.  A connection is seen as its owner sees it: a    *)
(* pointer to an object that is open, closed or deleted.  What ends an     *)
(* open connection (its peer, a failed write, the subclass calling         *)
(* ErrorReceiving) is the subject of module TcpConnection; here it is one  *)
(* action, ConnectionEnds, that calls the listener, which is the server.   *)
(*                                                                         *)
(* The two hooks that run in the middle of a server function are           *)
(* UserOnNewTcpConnection and UserOnTcpConnectionClosed.  frames is the    *)
(* stack of the calls that wait for one of them, and InNew and InClosed    *)
(* say what the subclass does before it returns.                           *)
(***************************************************************************)
EXTENDS Naturals, Sequences, FiniteSets

CONSTANTS
  Conns,     \* the connection objects of one behaviour
  InNew,     \* what the subclass does inside UserOnNewTcpConnection
  InClosed   \* what it does inside UserOnTcpConnectionClosed

Deeds == {"connection ends", "close connection", "close server", "delete server"}

ASSUME HooksAssumption == InNew \subseteq Deeds /\ InClosed \subseteq Deeds

VARIABLES
  server,       \* the object: "none" (not constructed), "live", "deleted"
  closed,       \* this->closed
  handle,       \* the listening handle: "bound", "listening", "closing", "freed"
  data,         \* uvHandle->data is set: it points to where the server is, was or was to be
  connections,  \* this->connections
  conn,         \* per object: "none", "open", "closed" (but not deleted), "deleted"
  frames,       \* calls waiting for a hook, innermost last: [hook, c]
  told,         \* per object: calls of UserOnTcpConnectionClosed
  fault         \* a deleted object was used or deleted again, or libuv aborted

serverVars == <<server, closed, handle, data>>
vars == <<serverVars, connections, conn, frames, told, fault>>

-----------------------------------------------------------------------------
\* Helpers.

Idle == frames = <<>>

Innermost == frames[Len(frames)]

\* The subclass may do this now: at top level, or inside a hook where it does.
MayDo(deed) ==
  \/ Idle
  \/ ~Idle /\ Innermost.hook = "new" /\ deed \in InNew
  \/ ~Idle /\ Innermost.hook = "closed" /\ deed \in InClosed

Live(c) == conn[c] \in {"open", "closed"}

\* The objects whose deletion is under way once their hook returns.
Handling == {frames[i].c : i \in DOMAIN frames}

\* uv_close on the listening handle.
UvClose ==
  /\ handle' = "closing"
  /\ fault' = (fault \/ handle \notin {"bound", "listening"})

\* delete on each of the objects in cs.
Delete(cs) == conn' = [c \in Conns |-> IF c \in cs THEN "deleted" ELSE conn[c]]

\* Mistake: the connections are forgotten instead of deleted.
CloseForgets ==
  IF closed THEN UNCHANGED <<closed, data, conn, handle, fault>>
  ELSE /\ closed' = TRUE
       /\ data' = FALSE
       /\ UvClose
       /\ UNCHANGED conn

\* Mistake: the listening handle is not closed.
CloseKeepsHandle ==
  IF closed THEN UNCHANGED <<closed, data, conn, handle, fault>>
  ELSE /\ closed' = TRUE
       /\ data' = FALSE
       /\ Delete(connections)
       /\ UNCHANGED <<handle, fault>>

\* TcpServer::Close: every connection in the set is deleted (its destructor
\* closes it and tells nobody), the set itself is not cleared.
Close ==
  IF closed THEN UNCHANGED <<closed, data, conn, handle, fault>>
  ELSE /\ closed' = TRUE
       /\ data' = FALSE
       /\ Delete(connections)
       /\ handle' = "closing"
       /\ fault' = (fault \/ handle # "listening"
                          \/ \E c \in connections : conn[c] = "deleted")

-----------------------------------------------------------------------------
Init ==
  /\ server = "none" /\ closed = FALSE /\ handle = "bound" /\ data = FALSE
  /\ connections = {} /\ conn = [c \in Conns |-> "none"]
  /\ frames = <<>> /\ told = [c \in Conns |-> 0] /\ fault = FALSE

\* The constructor listens on the bound handle it is given.
Construct ==
  /\ server = "none" /\ handle = "bound"
  /\ server' = "live" /\ data' = TRUE /\ handle' = "listening"
  /\ UNCHANGED <<closed, connections, conn, frames, told, fault>>

\* uv_listen or getsockname fails: the handle is closed and the constructor
\* throws, so that no object exists.  The handle still points to where it was to
\* be.
ConstructThrows ==
  /\ server = "none" /\ handle = "bound"
  /\ UvClose
  /\ data' = TRUE
  /\ UNCHANGED <<server, closed, connections, conn, frames, told>>

\* OnUvConnection up to UserOnNewTcpConnection: a new object is set up, given
\* the accepted socket and started.
OnUvConnection(c) ==
  /\ Idle /\ handle = "listening" /\ data /\ conn[c] = "none"
  /\ conn' = [conn EXCEPT ![c] = "open"]
  /\ frames' = Append(frames, [hook |-> "new", c |-> c])
  /\ fault' = (fault \/ server # "live")
  /\ UNCHANGED <<serverVars, connections, told>>

\* Start throws (the peer is gone already): the object is deleted, the subclass
\* never hears of it.
OnUvConnectionFails(c) ==
  /\ Idle /\ handle = "listening" /\ data /\ conn[c] = "none"
  /\ conn' = [conn EXCEPT ![c] = "deleted"]
  /\ fault' = (fault \/ server # "live")
  /\ UNCHANGED <<serverVars, connections, frames, told>>

\* Mistake: an accepted connection is not remembered.
NewReturnsForgets(accept) ==
  /\ ~Idle /\ Innermost.hook = "new"
  /\ frames' = SubSeq(frames, 1, Len(frames) - 1)
  /\ conn' = IF accept THEN conn ELSE [conn EXCEPT ![Innermost.c] = "deleted"]
  /\ UNCHANGED <<serverVars, connections, told, fault>>

\* UserOnNewTcpConnection returns: the connection goes into the set, or is
\* deleted if the subclass did not accept it.
NewReturns(accept) ==
  /\ ~Idle /\ Innermost.hook = "new"
  /\ frames' = SubSeq(frames, 1, Len(frames) - 1)
  /\ IF accept
     THEN /\ connections' = connections \cup {Innermost.c}
          /\ fault' = (fault \/ server # "live")
          /\ UNCHANGED conn
     ELSE /\ Delete({Innermost.c})
          /\ fault' = (fault \/ conn[Innermost.c] = "deleted")
          /\ UNCHANGED connections
  /\ UNCHANGED <<serverVars, told>>

\* Mistake: the connection tells its listener before it closes.
EndsOpen(c) ==
  /\ conn[c] = "open" /\ MayDo("connection ends")
  /\ connections' = connections \ {c}
  /\ told' = [told EXCEPT ![c] = @ + 1]
  /\ frames' = Append(frames, [hook |-> "closed", c |-> c])
  /\ fault' = (fault \/ server # "live")
  /\ UNCHANGED <<serverVars, conn>>

\* Mistake: the object stays in the set it is deleted from.
EndsInSet(c) ==
  /\ conn[c] = "open" /\ MayDo("connection ends")
  /\ conn' = [conn EXCEPT ![c] = "closed"]
  /\ told' = [told EXCEPT ![c] = @ + 1]
  /\ frames' = Append(frames, [hook |-> "closed", c |-> c])
  /\ fault' = (fault \/ server # "live")
  /\ UNCHANGED <<serverVars, connections>>

\* An open connection ends: it closes itself and calls OnTcpConnectionClosed,
\* which takes it out of the set and calls UserOnTcpConnectionClosed.
ConnectionEnds(c) ==
  /\ conn[c] = "open" /\ MayDo("connection ends")
  /\ conn' = [conn EXCEPT ![c] = "closed"]
  /\ connections' = connections \ {c}
  /\ told' = [told EXCEPT ![c] = @ + 1]
  /\ frames' = Append(frames, [hook |-> "closed", c |-> c])
  /\ fault' = (fault \/ server # "live")
  /\ UNCHANGED serverVars

\* Mistake: the object outlives the hook.
ClosedReturnsKeeps ==
  /\ ~Idle /\ Innermost.hook = "closed"
  /\ frames' = SubSeq(frames, 1, Len(frames) - 1)
  /\ UNCHANGED <<serverVars, connections, conn, told, fault>>

\* UserOnTcpConnectionClosed returns: the connection is deleted.
ClosedReturns ==
  /\ ~Idle /\ Innermost.hook = "closed"
  /\ frames' = SubSeq(frames, 1, Len(frames) - 1)
  /\ Delete({Innermost.c})
  /\ fault' = (fault \/ conn[Innermost.c] = "deleted")
  /\ UNCHANGED <<serverVars, connections, told>>

\* The subclass closes a connection itself: nobody is told, and the object
\* stays with its owner.
UserClosesConnection(c) ==
  /\ conn[c] = "open" /\ MayDo("close connection")
  /\ conn' = [conn EXCEPT ![c] = "closed"]
  /\ UNCHANGED <<serverVars, connections, frames, told, fault>>

UserClosesServer ==
  /\ server = "live" /\ ~closed /\ MayDo("close server")
  /\ Close
  /\ UNCHANGED <<server, connections, frames, told>>

\* The destructor closes first if need be.
DeleteServer ==
  /\ server = "live" /\ MayDo("delete server")
  /\ Close
  /\ server' = "deleted"
  /\ UNCHANGED <<connections, frames, told>>

\* onClose deletes the listening handle.
OnClose ==
  /\ Idle /\ handle = "closing"
  /\ handle' = "freed"
  /\ UNCHANGED <<server, closed, data, connections, conn, frames, told, fault>>

Next ==
  \/ Construct \/ ConstructThrows
  \/ \E c \in Conns : OnUvConnection(c) \/ OnUvConnectionFails(c)
  \/ \E accept \in BOOLEAN : NewReturns(accept)
  \/ \E c \in Conns : ConnectionEnds(c) \/ UserClosesConnection(c)
  \/ ClosedReturns
  \/ UserClosesServer \/ DeleteServer \/ OnClose

Spec == Init /\ [][Next]_vars

\* The loop runs until the handles are gone, and the hooks return.
Fairness ==
  /\ WF_vars(OnClose) /\ WF_vars(ClosedReturns)
  /\ WF_vars(\E accept \in BOOLEAN : NewReturns(accept))

FairSpec == Spec /\ Fairness

-----------------------------------------------------------------------------
\* Properties.

\* The type invariant; told says that no connection ends twice, although the
\* hook of the first end may start anything.
TypeOK ==
  /\ server \in {"none", "live", "deleted"}
  /\ closed \in BOOLEAN /\ data \in BOOLEAN /\ fault \in BOOLEAN
  /\ handle \in {"bound", "listening", "closing", "freed"}
  /\ connections \subseteq Conns
  /\ conn \in [Conns -> {"none", "open", "closed", "deleted"}]
  /\ frames \in Seq([hook : {"new", "closed"}, c : Conns])
  /\ told \in [Conns -> 0..1]

\* No connection is deleted twice, none is inserted into or reported to a
\* server that is gone, and the listening handle is closed once, whatever the
\* hooks do and however their calls nest.
NoFault == ~fault

\* The set of an open server is exact: it holds only objects that still exist
\* ("Remove the TcpConnection from the set.", TcpServer.cpp:221), and all of them
\* but those a hook is running for, which Close could not delete otherwise.
SetExact ==
  /\ server = "live" /\ ~closed => \A c \in connections : Live(c)
  /\ \A c \in Conns : Live(c) => c \in connections \cup Handling

\* Nothing outlives its owner: an open connection, which points into the server for
\* its listener and its local address, has one that is there and open; once the
\* server has closed and its hooks have returned all its connections are gone; and
\* one whose end the subclass was told of is deleted and out of the set as soon as
\* that hook returns, also when the server closed meanwhile.
NothingOutlives ==
  /\ \A c \in Conns : conn[c] = "open" => server = "live" /\ ~closed
  /\ closed /\ Idle => \A c \in Conns : ~Live(c)
  /\ \A c \in Conns :
       told[c] = 1 /\ c \notin Handling => conn[c] = "deleted" /\ c \notin connections

\* A closed server's handle is eventually deleted.
HandleFreed == closed ~> handle = "freed"
=============================================================================
